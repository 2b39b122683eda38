\* One case: strict and segment scoring against their failure assessments.
SPECIFICATION Spec
CONSTANTS
    a = a
    b = b
    c = c
    stranger = stranger
    None = None
    Golds <- MCGolds
    Paths <- MCPaths
    Cutoffs = {1, 3}
    StageValues <- MCStageValues
    TraceValues <- MCTraceValues
    KnownSegments <- MCKnown
INVARIANTS
    
    SupportIsEarned
    CutoffsAgree
CHECK_DEADLOCK FALSE
