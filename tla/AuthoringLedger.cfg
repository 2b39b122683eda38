SPECIFICATION Spec
CONSTANTS
    q1 = q1
    q2 = q2
    a1 = a1
    a2 = a2
    r1 = r1
    author = author
    Author = author
    Nothing = Nothing
    Questions <- TwoQuestions
    Answers <- OneAnswer
    Acceptors <- AnyName
    Editors <- OneReviewer
    WithJob = TRUE
    Legacy <- LegacyStates
    MaxCalls = 3
    MaxRevisions = 6
    MaxCrashes = 1
INVARIANTS
    
    LedgerFollowsCandidate
SYMMETRY Texts
CHECK_DEADLOCK FALSE
