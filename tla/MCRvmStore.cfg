SPECIFICATION RvmSpec
CONSTANTS
    Seg = {s1, s2}
    Size = 1
    Byte = {zero, a}
    Zero = zero
    Blank = blank
    Junk = junk
    Missing = missing
    Handle = {h1, h2}
    MaxRegions = 1
    MaxLog = 2
    MaxWild = 1
    MaxNodes = 2
    Overlap = FALSE
    GarbageFlag = FALSE
SYMMETRY SegSymmetry
INVARIANTS
    RvmTypeOK
PROPERTIES
    ImplementsStore
