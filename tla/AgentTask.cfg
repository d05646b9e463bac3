CONSTANTS
    r1 = r1
    r2 = r2
    r3 = r3
    NoId = NoId
    Ids <- Ids3
    Mode = "NEVER"
    Kinds <- TaskKinds
    HasOutputs = TRUE
    RaiseExceptions = TRUE
    MaxIterations = 2
    MaxBatch = 2
    Interrupts = TRUE
SPECIFICATION FairSpec
INVARIANTS
    RaiseLeavesNothingOpen
    SubRequestVisible
PROPERTIES
    ExecutionEnds
