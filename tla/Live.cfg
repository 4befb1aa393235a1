SPECIFICATION LiveSpec
CONSTANTS
    chatA = chatA
    chatB = chatB
    chatC = chatC
    ready = ready
    click = click
    join = join
    notice = notice
    future = future
    broken = broken
    m1 = m1
    m2 = m2
    none = none
    Events = {ready, click, chatA}
    Identified = {click, chatA}
    Messages = {m1, m2, none}
    Kind <- MCKind
    MsgOf <- MCMsgOf
    MaxRows = 3
    MaxTombstones = 2
    TTL = 1
    QueueCap = 1
    SlotCap = 1
    IntakeCap = 1
    Trouble = {"gateway", "messages", "extensions"}
    MaxArrivals = 3
    MaxTicks = 0
    MaxFaults = 1
    MaxRestarts = 0
    btn1 = btn1
    btn2 = btn2
    a1 = a1
    a2 = a2
    ask = ask
    run = run
    b1 = b1
    t1 = t1
    v1 = v1
    Bindings = {b1, b2}
    Connections = {t1}
    Plain = {v1, v2}
    NoTarget = NoTarget
    Life = 2
    MaxActive = 1
    MaxKept = 1
    MaxFailures = 1
    MaxTime = 4
    MaxEdits = 1
INVARIANTS
    BindingSound
PROPERTIES
    EverythingEnds
    KeepsPromise
CHECK_DEADLOCK FALSE
