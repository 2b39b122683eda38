SPECIFICATION FairSpec
CONSTANTS
    c1 = c1
    c2 = c2
    h1 = h1
    h2 = h2
    a1 = a1
    Cases <- TwoCases
    Humans <- Nobody
    Askers <- Nobody
    EarlyCallback = FALSE
    MaxThreads = 2
    MaxCrashes = 2
INVARIANTS
    OneProposalPerCase

    
CHECK_DEADLOCK FALSE
