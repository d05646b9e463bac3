CONSTANTS
    a1 = a1
    a2 = a2
    a3 = a3
    User = User
    Agents <- Three
    Relationships <- Layered
    FirstAgent = a1
    Handoff = "OPTIONAL"
    Events <- AllEvents
    Careless = FALSE
    Interjects = FALSE
    MaxBatch = 2
    MaxRounds = 3
SPECIFICATION FairSpec
INVARIANTS
    TypeOK
    CallChain
    PromptsAreComplete
    OldestIsCurrent
    InternalErrorsAreKnown
PROPERTIES
    ExecutionReturns
