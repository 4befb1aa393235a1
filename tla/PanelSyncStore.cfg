SPECIFICATION Spec
CONSTANTS
    Bodies = {a, b}
    MaxOps = 2
    MaxControl = 2
    StoreFails = TRUE
    MaxFaults = 2
INVARIANTS
    NeverRecreated
CHECK_DEADLOCK FALSE
