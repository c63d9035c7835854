SPECIFICATION FairSpec
CONSTANTS
    Producers = {p1, p2}
    MaxJobs = 3
    Buffer = 2
    BatchSize = 2
    MaxRetries = 1
INVARIANTS
    WorkerInv
PROPERTIES
    ImplementsQueue
    JobsAreHandled
    WorkerEnds
CHECK_DEADLOCK FALSE
