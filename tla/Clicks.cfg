SPECIFICATION ClicksSpec
CONSTANTS
    btn1 = btn1
    btn2 = btn2
    menu = menu
    note = note
    run = run
    ask = ask
    call = call
    a1 = a1
    a2 = a2
    aMenu = aMenu
    n1 = n1
    n2 = n2
    Clicks = {note, btn1}
    NoClick = NoClick
    Kind <- MCKind
    Tickets = {call}
    Token <- MCToken
    Intent <- MCIntent
    Follow <- MCFollow
    NoTicket = NoTicket
    Acks = {n1, n2, a1}
    NoAck = NoAck
    Target <- MCTarget
    AckDeadline = 1
    Window = 1
    Ttl = 1
    IntakeCap = 2
    BusinessCap = 1
    EventCap = 1
    OpCap = 2
    AckCap = 2
    AckTaskCap = 1
    Day = 3
    MaxEpoch = 1
    MaxClock = 1
    MaxCalls = 2
    MaxFaults = 1
    MaxRestarts = 1
INVARIANTS
    RecordsTrue
    AcksOnce
    TicketsOnce
    EffectsAfterAcks
PROPERTIES
    UncertaintyStays
CHECK_DEADLOCK FALSE
