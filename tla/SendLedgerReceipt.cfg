SPECIFICATION LedgerSpec
CONSTANTS
    reply1 = reply1
    reply2 = reply2
    tell = tell
    native1 = native1
    native2 = native2
    press = press
    msg = msg
    click = click
    Parts = {"own"}
    Ops = {native1, native2}
    Sources = {msg}
    EventSources = {}
    NoSource = NoSource
    Lane <- MCLane
    Src <- MCSrc
    Want <- MCWant
    BadReceipts = TRUE
    OpCap = 2
    Window = 1
    Day = 3
    MaxClock = 0
    MaxCalls = 2
    MaxFaults = 0
    MaxRestarts = 0
INVARIANTS
    RetryIsSafe
CHECK_DEADLOCK FALSE
