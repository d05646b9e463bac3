CONSTANTS
    a1 = a1
    a2 = a2
    a3 = a3
    v1 = v1
    v2 = v2
    Callers = {a1, a2, a3}
    Convs = {v1, v2}
    ConvOf <- Conversation
    NoCaller = NoCaller
    NoConv = NoConv
    MaxFlows = 2
    MaxLives = 2
    Workers = {w1, w2}
    Manager = manager
    MwMaxBatch = 2
    MwMaxRounds = 2
    SubFlows = 3
    SubWorkers = 2
    SubMaxItems = 3
    SubMaxVisits = 2
    RsRequests = {q1, q2}
    RsMaxTurns = 3
    RsMaxConvs = 2
    RaMaxMessages = 7
    ScMain = main
    ScBranches = {b1, b2}
    ScProcessors = 2
    ScMaxDepth = 2
    ScMaxSpans = 3
    SumConvs = {d1, d2}
    SumMin = 2
    SumMax = 3
    SumCacheSize = 1
    SumMaxMessages = 5
    SzObjects = {o1, o2, o3}
    SzRoot = o1
    SzMaxUses = 2
SPECIFICATION PartsSpec
INVARIANTS
    PartsTypeOK
    OneSession
    ReplacedFlowsAreWoken
    OneWorkerAtWork
    ManagerIsPrompted
    MapOutputsAreNew
    NoWorkTwice
    LastTurnIsLatest
    MarkIsInStep
    ScopesAreLeft
    PromptIsWhole
    RoundTrip
PROPERTIES
    CallsReturn
    
CHECK_DEADLOCK FALSE
