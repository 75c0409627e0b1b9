SPECIFICATION FairSpec
CONSTANTS
    a1 = a1
    a2 = a2
    b1 = b1
    p1 = p1
    p2 = p2
    NoRow = NoRow
    NoThread = NoThread
    NoKey = NoKey
    Keys = {k1}
    Threads = {a1, a2, b1}
    Procs = {p1, p2}
    ProcOf <- TwoProcs
    Limit = 2
    WINDOW = 1
    RATE_LIMIT_CLEANUP_INTERVAL_SECONDS = 2
    MaxTime = 2
INVARIANTS TypeOK AttemptsKept
PROPERTIES ImplementsFixedWindow PrunedOncePerInterval CallsReturn
