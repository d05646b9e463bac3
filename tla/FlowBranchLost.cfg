CONSTANTS
    main = main
    guard = guard
    ask = ask
    work = work
    k = k
    r = r
    e = e
    h = h
    g1 = g1
    b1 = b1
    p1 = p1
    p2 = p2
    i2 = i2
    p3 = p3
    c = c
    q = q
    v = v
    d = d
    None = None
    Flows <- FourFlows
    Top = main
    Steps <- AllSteps
    FlowOf <- TheFlowOf
    Begin <- TheBegin
    Kind <- TheKind
    Inner <- TheInner
    Above <- TheAbove
    Edges <- TheEdges
    Branch <- TheBranch
    Silent = {}
    Catches <- CatchAll
    MaxTrials = 2
    Interrupts = TRUE
    Late = TRUE
    MaxMessages = 2
SPECIFICATION Spec
PROPERTY
    BranchIsTaken
