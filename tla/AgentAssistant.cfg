CONSTANTS
    r1 = r1
    r2 = r2
    r3 = r3
    NoId = NoId
    Ids <- Ids3
    Mode = "ALWAYS"
    Kinds <- AssistantKinds
    HasOutputs = TRUE
    RaiseExceptions = FALSE
    MaxIterations = 2
    MaxBatch = 3
    Interrupts = TRUE
SPECIFICATION Spec
SYMMETRY Symmetry
INVARIANTS
    TypeOK
    PromptComplete
    
    

