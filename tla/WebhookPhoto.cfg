SPECIFICATION Spec
CONSTANTS
    u1 = u1
    u2 = u2
    t1 = t1
    t2 = t2
    NoThread = NoThread
    NoUpdate = NoUpdate
    Updates = {u1}
    Threads = {t1, t2}
    KindOf <- PhotoAlone
    HelpAllows = {}
    DiagnosticsAllow = {u1}
    Chunks = 2
    DatabaseFails = FALSE
    EarlyRetry = FALSE
    MaxFaults = 0
INVARIANTS PhotoFallsBack
CHECK_DEADLOCK FALSE
