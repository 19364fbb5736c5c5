CONSTANTS
    c1 = c1
    c2 = c2
    c3 = c3
    Caller = {c1, c2, c3}
    rate_limit = 2
    rate_window = 3
    Horizon = 5
    max_concurrency = 2
    max_retries = 1
    base_delay = 1
    max_delay = 2
    jitter = 1
    RefusedBlock = 2
    TurnMax = 3
    BlockMax = 5
    TaskId <- MCTaskId
    EventMax = 5
    FedMax = 7
    ChunkSize = {1, 4}
    Session = {1, 2, 3}
    Settings <- MCSettings
    Asked <- MCAsked
    Trait = {"context", "tools", "coding"}
    Provider = {"deepseek"}
    PinnedMax = 2
    RouteMax = 4
    ReplayTurns = 2
    ReplayBlocks = 3
SPECIFICATION MCSpec
INVARIANTS AtMostLimitPerWindow LimitIsUsed ConversationIsKept  CutsDoNotMatter 
PROPERTIES StickyUntilCrowdedOut
SYMMETRY Requests
CHECK_DEADLOCK FALSE
