CONSTANTS
    a1 = a1
    a2 = a2
    a3 = a3
    User = User
    Agents <- Three
    Relationships <- Cycle
    FirstAgent = a1
    Handoff = "NEVER"
    Events <- NoEvents
    Careless = FALSE
    Interjects = FALSE
    MaxBatch = 1
    MaxRounds = 5
SPECIFICATION Spec
INVARIANT InternalErrorsAreKnown
