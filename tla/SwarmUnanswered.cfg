CONSTANTS
    a1 = a1
    a2 = a2
    a3 = a3
    User = User
    Agents <- Three
    Relationships <- Star
    FirstAgent = a1
    Handoff = "OPTIONAL"
    Events <- NoEvents
    Careless = TRUE
    Interjects = FALSE
    MaxBatch = 2
    MaxRounds = 1
SPECIFICATION Spec
INVARIANT OldestIsCurrent
