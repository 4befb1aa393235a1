SPECIFICATION Spec
CONSTANTS
    btn1 = btn1
    btn2 = btn2
    menu = menu
    note = note
    run = run
    ask = ask
    call = call
    a1 = a1
    a2 = a2
    aMenu = aMenu
    n1 = n1
    n2 = n2
    Clicks = {menu}
    NoClick = NoClick
    Kind <- MCKind
    Tickets = {}
    Token <- MCToken
    Intent <- MCIntent
    Follow <- MCFollow
    NoTicket = NoTicket
    Acks = {aMenu}
    NoAck = NoAck
    Target <- MCTarget
    AckDeadline = 1
    Window = 2
    Ttl = 1
    IntakeCap = 2
    BusinessCap = 2
    EventCap = 2
    OpCap = 2
    AckCap = 2
    AckTaskCap = 2
    Day = 3
    MaxEpoch = 1
    MaxClock = 2
    MaxCalls = 2
    MaxFaults = 1
    MaxRestarts = 1
INVARIANTS
    UncertainIsProtected
CHECK_DEADLOCK FALSE
