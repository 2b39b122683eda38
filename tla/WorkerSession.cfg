SPECIFICATION Spec
CONSTANTS
    Envelope = 2
    MaxPaths = 4
    NoWitness = NoWitness
    Ambiguous = Ambiguous
    BatchRoom = 2
    UploadBatch = 2
    Reps = 2
    Cases = 2
    MaxCrashes = 1
    Setups <- MCSetups
    Replies <- MCReplies
INVARIANTS
    ScoredHitIsReal
    
PROPERTIES
    KeepsPromise
    CancellationEnds
