CONSTANTS
    t1 = t1
    t2 = t2
    x1 = x1
    c1 = c1
    c2 = c2
    s1 = s1
    s2 = s2
    NoContext = NoContext
    NoTask = NoTask
    Tasks <- TwoTasks
    Contexts <- OneContext
    Clients <- TwoClients
    Blocks = {TRUE}
    Slots <- TwoSlots
    StartsFlow = FALSE
    Unguarded = FALSE
    Cancels = FALSE
    Restarts = FALSE
    MaxTurns = 2
SPECIFICATION FairSpec
INVARIANTS
    NoLostWakeup
PROPERTIES
    SubmittedIsProcessed
    ImplementsTasks
CHECK_DEADLOCK FALSE
