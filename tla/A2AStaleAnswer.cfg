CONSTANTS
    t1 = t1
    t2 = t2
    x1 = x1
    c1 = c1
    c2 = c2
    s1 = s1
    s2 = s2
    NoContext = NoContext
    NoTask = NoTask
    Tasks <- OneTask
    Contexts <- OneContext
    Clients <- OneClient
    Blocks = {TRUE}
    Slots <- OneSlot
    StartsFlow = FALSE
    Unguarded = FALSE
    Cancels = FALSE
    Restarts = FALSE
    MaxTurns = 2
SPECIFICATION Spec
INVARIANTS
    BlockingAnswersAreFinal
CHECK_DEADLOCK FALSE
