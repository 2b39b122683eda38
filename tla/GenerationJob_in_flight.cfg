SPECIFICATION Spec
CONSTANTS
    j1 = j1
    j2 = j2
    NoJob = NoJob
    Jobs <- OneJob
    Items = 2
    MaxRunners = 1
    MaxCancels = 1
    MaxRetries = 0
    MaxCrashes = 0
    EarlyRequests = TRUE
PROPERTIES
    CancelStopsTheNextCall
CHECK_DEADLOCK FALSE
