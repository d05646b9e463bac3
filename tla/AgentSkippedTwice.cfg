CONSTANTS
    r1 = r1
    r2 = r2
    r3 = r3
    NoId = NoId
    Ids <- Ids3
    Mode = "ALWAYS"
    Kinds <- ClientAndServerKinds
    HasOutputs = FALSE
    RaiseExceptions = TRUE
    MaxIterations = 2
    MaxBatch = 3
    Interrupts = FALSE
SPECIFICATION Spec
PROPERTIES
    SkippedWereOpen
