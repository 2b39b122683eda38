SPECIFICATION FairSpec
CONSTANTS
    j1 = j1
    j2 = j2
    NoJob = NoJob
    Jobs <- TwoJobs
    LocalJobs <- FirstIsLocal
    Reps = 2
    Cases = 1
    MaxStops = 2
INVARIANTS
    ActiveJobIsOwned
    CancellationExcludesCompletion
    CompletedRunIsWhole
    FailedJobHasNoResult
    
PROPERTIES
    SettledRunIsImmutable
    EveryJobSettles
    CancelTakesEffect
    ImplementsLifecycle
