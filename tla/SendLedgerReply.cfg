SPECIFICATION LedgerSpec
CONSTANTS
    reply1 = reply1
    reply2 = reply2
    tell = tell
    native1 = native1
    native2 = native2
    press = press
    msg = msg
    click = click
    Parts = {"own", "events"}
    Ops = {reply1, native2}
    Sources = {msg}
    EventSources = {}
    NoSource = NoSource
    Lane <- MCLane
    Src <- MCSrc
    Want <- MCWant
    BadReceipts = FALSE
    OpCap = 1
    Window = 1
    Day = 1
    MaxClock = 2
    MaxCalls = 3
    MaxFaults = 1
    MaxRestarts = 0
INVARIANTS
    LedgerTrue
    SeqsUnique
    SentOnce
PROPERTIES
    DeadStaysDead
    DoubtStays
CHECK_DEADLOCK FALSE
