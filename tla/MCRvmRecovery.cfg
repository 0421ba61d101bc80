SPECIFICATION RvmSpec
CONSTANTS
    Seg = {s1}
    Size = 2
    Byte = {zero, a}
    Zero = zero
    Blank = blank
    Junk = junk
    Missing = missing
    Handle = {h1}
    MaxRegions = 2
    MaxLog = 2
    MaxWild = 0
    MaxNodes = 2
    Overlap = FALSE
    GarbageFlag = FALSE
INVARIANTS
    MappedIsCommitted
PROPERTIES
    OnlyCommitsChangeStore
