SPECIFICATION FairThreadSpec
CONSTANTS
    c1 = c1
    c2 = c2
    Callers <- TwoCallers
    MaxThreads = 3
    MaxJobs = 2
INVARIANTS
    SingleDispatcher
PROPERTIES
    QueuedJobIsClaimed
CHECK_DEADLOCK FALSE
