SPECIFICATION Spec
CONSTANTS
    c1 = c1
    c2 = c2
    h1 = h1
    h2 = h2
    a1 = a1
    Cases <- TwoCases
    Humans <- OneHuman
    Askers <- OneAsker
    EarlyCallback = TRUE
    MaxThreads = 2
    MaxCrashes = 1
INVARIANTS
    HumanIsFinal
    CompletedBatchLeavesNothingOpen
CHECK_DEADLOCK FALSE
