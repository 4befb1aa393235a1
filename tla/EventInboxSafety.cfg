SPECIFICATION Spec
CONSTANTS
    chatA = chatA
    chatB = chatB
    chatC = chatC
    ready = ready
    click = click
    join = join
    notice = notice
    future = future
    broken = broken
    m1 = m1
    m2 = m2
    none = none
    Events = {chatA, chatB, chatC, click, future}
    Identified = {chatA, chatB, chatC, click, future}
    Messages = {m1, m2, none}
    Kind <- MCKind
    MsgOf <- MCMsgOf
    MaxRows = 2
    MaxTombstones = 1
    TTL = 1
    QueueCap = 1
    SlotCap = 1
    IntakeCap = 1
    MaxArrivals = 3
    MaxTicks = 2
    MaxFaults = 1
    MaxRestarts = 1
INVARIANTS
    TypeOK
    NothingLost
    EffectBeforeSettling
    HostedOnce
    BusSound
PROPERTIES
    HostOrder
    DiscardsWhatWasSeen
    DedupWindow
    KeepsCustody
SYMMETRY MCSymmetry
CHECK_DEADLOCK FALSE
