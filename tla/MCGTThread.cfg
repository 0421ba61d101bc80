SPECIFICATION FairSpec
CONSTANTS
    m = m
    None = None
    Lost = Lost
    Mutex = {m}
    Body <- MCBody
    Programs <- MCPrograms
    MaxThreads = 3
INVARIANTS
    TypeOK
    MutualExclusion
    JoinGivesResult
    SlotsReady
PROPERTY
    Terminates
CHECK_DEADLOCK FALSE
