SPECIFICATION ServicesSpec
CONSTANTS
    ack = ack
    mute = mute
    Ops = {ack, mute}
    Acks = {ack}
    OpCap = 1
    AckCap = 1
    TaskCap = 1
    AckTaskCap = 1
    Day = 2
    MaxClock = 2
    MaxCalls = 2
    MaxFaults = 1
    MaxRestarts = 1
    Subs = {"s1", "s2"}
    Callbacks = {"s1"}
    LineCap = 1
    BusCap = 2
    BusBytes = 2
    BusEvents = 2
    BusFaults = 1
    Peers = {"p1", "p2"}
    Subscribers = {"p1"}
    MaxPeers = 2
    QueueFrames = 1
    NetBytes = 2
    NetEvents = 2
    NetFaults = 1
    Streams = {"t1", "t2"}
    Sourceless = {}
    StreamTasks = 2
    MaxFrags = 2
    StreamFaults = 3
    Fragments = {1, 2, 3, 4}
    MaxIndex = 2
    RowCap = 2
    Uploads = {"u1", "u2"}
    Size = 2
    PoolBytes = 3
    BlobCap = 2
    UploadCap = 2
    Workers = 2
    Slots = 1
    MaxRounds = 2
    Pages = {"g1", "g2"}
    Instances = {"i1"}
    Keys = {"k1", "k2"}
    Values = {0, 1}
    Default = 0
    Keep = 2
    MaxRevision = 3
    Bodies = {"a", "b"}
    MaxWrites = 2
    MaxControl = 2
    PanelFaults = 2
    Callers = {"c1", "c2"}
    MaxFlags = 2
    JoinFaults = 3
    Members = {"m1"}
    Sessions = {0, 1}
    MaxTime = 2
    MaxEvents = 2
    MaxSessions = 2
    MaxReads = 1
    RosterFaults = 1
INVARIANTS
    BytesCounted
    NoHoles
    StreamSound
    WritesOnce
    AnswersOnce
    OperatorObeyed
    RosterTrue
PROPERTIES
    NothingOverwritten
CHECK_DEADLOCK FALSE
