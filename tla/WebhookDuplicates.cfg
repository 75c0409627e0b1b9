SPECIFICATION Spec
CONSTANTS
    u1 = u1
    u2 = u2
    t1 = t1
    t2 = t2
    NoThread = NoThread
    NoUpdate = NoUpdate
    Updates = {u1}
    Threads = {t1, t2}
    KindOf <- SplitAlone
    HelpAllows = {}
    DiagnosticsAllow = {u1}
    Chunks = 2
    DatabaseFails = FALSE
    EarlyRetry = TRUE
    MaxFaults = 1
INVARIANTS AnsweredOnce
CHECK_DEADLOCK FALSE
