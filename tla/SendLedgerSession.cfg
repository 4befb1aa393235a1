SPECIFICATION OwnSpec
CONSTANTS
    reply1 = reply1
    reply2 = reply2
    tell = tell
    native1 = native1
    native2 = native2
    press = press
    msg = msg
    click = click
    Parts = {"own"}
    Ops = {tell, native1}
    Sources = {msg}
    EventSources = {}
    NoSource = NoSource
    Lane <- MCLane
    Src <- MCSrc
    Want <- MCWant
    BadReceipts = FALSE
    OpCap = 2
    Window = 1
    Day = 3
    MaxClock = 1
    MaxCalls = 2
    MaxFaults = 0
    MaxRestarts = 1
INVARIANTS
    SessionSound
PROPERTIES
    KeepsPromise
    SendsEnd
CHECK_DEADLOCK FALSE
