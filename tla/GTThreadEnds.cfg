SPECIFICATION Spec
CONSTANTS
    m = m
    None = None
    Lost = Lost
    Mutex = {m}
    Body <- MCBody
    Programs <- MCPrograms
    MaxThreads = 3
INVARIANT
    AllThreadsFinished
CHECK_DEADLOCK FALSE
