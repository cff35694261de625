SPECIFICATION Spec
CONSTANTS
    Orders = {o1, o2}
    Assets = {a}
    Execs = {e}
    MaxRev = 2
    MaxChanges = 3
    MaxInbox = 2
    MaxClock = 2
    MaxGen = 2
    Expected = {0, 1, 2}
CHECK_DEADLOCK FALSE
INVARIANTS
    OneReconciliationPerDisconnect
    ProjectionIsNewest
    ServedFactsAreCurrent
