SPECIFICATION Spec
CONSTANTS
    j1 = j1
    j2 = j2
    j3 = j3
    Port = {p1}
    Job = {j1, j2}
    NumTasks <- LongAndShortJob
    Dispatcher <- LongAndShortJobTasks
    BadJob = {}
    BadTask <- ThrowingTask
    Acceptor = accept
    NoPort = NoPort
    NoJob = NoJob
    MaxJobs = 1000
    MaxTasks = 100000
    MaxWorkerKill = 0
    MaxClientKill = 1
    ClosedWriteFails = FALSE
CHECK_DEADLOCK FALSE
INVARIANTS
    SchedulerTypeOK
    StreamWellFormed
    FinishedJobIsComplete
    JobsAccountedFor
PROPERTIES
    ImplementsService
