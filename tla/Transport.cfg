SPECIFICATION TransportSpec
CONSTANTS
    Interval = 2
    HelloTimeout = 1
    MaxSessions = 3
    MaxSeq = 2
    QueueCap = 1
    MaxLine = 1
    Shards = {s1, s2}
    Group = group
    Total = 2
    MaxConcurrency = 1
    Window = 2
    ResetAfter = 3
    RefreshGap = 2
    Calls = {c1, c2, c3}
    Writes = {c2}
    Slots = 2
    MaxActive = 2
    MaxAttempts = 2
    MaxTokens = 3
    MaxFaults = 2
INVARIANTS
    SessionSound
    BudgetKept
    NoSecondCopy
PROPERTIES
    SparesTokens
    CatchesUp
    ShardsGetIn
CHECK_DEADLOCK FALSE
