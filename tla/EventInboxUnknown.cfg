SPECIFICATION Spec
CONSTANTS
    chatA = chatA
    chatB = chatB
    chatC = chatC
    ready = ready
    click = click
    join = join
    notice = notice
    future = future
    broken = broken
    m1 = m1
    m2 = m2
    none = none
    Events = {future}
    Identified = {future}
    Messages = {m1, m2, none}
    Kind <- MCKind
    MsgOf <- MCMsgOf
    MaxRows = 3
    MaxTombstones = 2
    TTL = 1
    QueueCap = 1
    SlotCap = 1
    IntakeCap = 1
    MaxArrivals = 3
    MaxTicks = 0
    MaxFaults = 1
    MaxRestarts = 1
INVARIANTS
    UnknownIsRetained
CHECK_DEADLOCK FALSE
