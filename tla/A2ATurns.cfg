CONSTANTS
    t1 = t1
    t2 = t2
    x1 = x1
    c1 = c1
    c2 = c2
    s1 = s1
    s2 = s2
    NoContext = NoContext
    NoTask = NoTask
    Tasks <- TwoTasks
    Contexts <- OneContext
    Clients <- OneClient
    Blocks = {FALSE}
    Slots <- TwoSlots
    StartsFlow = TRUE
    Unguarded = TRUE
    Cancels = TRUE
    Restarts = TRUE
    MaxTurns = 3
SPECIFICATION Spec
SYMMETRY Symmetry
INVARIANTS
    TypeOK
    OneOperationPerTask
    OneLastTurn
