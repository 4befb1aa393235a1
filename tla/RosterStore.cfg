SPECIFICATION Spec
CONSTANTS
    Members = {m1}
    Sessions = {0, 1}
    StoreFails = TRUE
    MaxTime = 2
    MaxSessions = 2
    MaxEvents = 2
    MaxReads = 1
    MaxFaults = 1
INVARIANTS
    CachedRosterIsTrue
CHECK_DEADLOCK FALSE
