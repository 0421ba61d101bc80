SPECIFICATION FairSpec
CONSTANTS
    j1 = j1
    j2 = j2
    j3 = j3
    Port = {p1}
    Job = {j1, j2, j3}
    NumTasks <- ThreeShortJobs
    Dispatcher <- ThreeShortJobsTasks
    BadJob = {}
    BadTask = {}
    Acceptor = accept
    NoPort = NoPort
    NoJob = NoJob
    MaxJobs = 1000
    MaxTasks = 100000
    MaxWorkerKill = 0
    MaxClientKill = 0
    ClosedWriteFails = FALSE
CHECK_DEADLOCK FALSE
PROPERTIES
    QueuedJobFinishes
