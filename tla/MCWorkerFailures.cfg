SPECIFICATION Spec
CONSTANTS
    j1 = j1
    j2 = j2
    j3 = j3
    Port = {p1, p2}
    Job = {j1}
    NumTasks <- OneJob
    Dispatcher <- OneJobTasks
    BadJob = {}
    BadTask = {}
    Acceptor = accept
    NoPort = NoPort
    NoJob = NoJob
    MaxJobs = 1000
    MaxTasks = 100000
    MaxWorkerKill = 1
    MaxClientKill = 0
    ClosedWriteFails = TRUE
CHECK_DEADLOCK FALSE
SYMMETRY PortSymmetry
INVARIANTS
    StreamWellFormed
    FinishedJobIsComplete
    NoDuplicateFree
    NoLostWakeup
    ExclusiveUnlessRestarted
    PoolNotDrained
    ReportedTasksRan
    RepeatedOnlyIfCutOff
PROPERTIES
    ImplementsService
