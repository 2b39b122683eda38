SPECIFICATION Spec
CONSTANTS
    j1 = j1
    j2 = j2
    NoJob = NoJob
    Jobs <- TwoJobs
    Items = 2
    MaxRunners = 2
    MaxCancels = 1
    MaxRetries = 1
    MaxCrashes = 1
    EarlyRequests = FALSE
INVARIANTS
    SettledRecordIsCoherent
    OneRunnerPerJob
    ActiveJobHasRunner
PROPERTIES
    SucceededIsKept
CHECK_DEADLOCK FALSE
