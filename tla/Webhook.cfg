SPECIFICATION FairSpec
CONSTANTS
    u1 = u1
    u2 = u2
    t1 = t1
    t2 = t2
    NoThread = NoThread
    NoUpdate = NoUpdate
    Updates = {u1, u2}
    Threads = {t1, t2}
    KindOf <- SplitAndBlank
    HelpAllows = {}
    DiagnosticsAllow = {u1}
    Chunks = 2
    DatabaseFails = TRUE
    EarlyRetry = TRUE
    MaxFaults = 2
INVARIANTS TypeOK TwiceOnlyExcused DoneIsAnswered ChunksWithoutGap
PROPERTIES EveryCommandAnswered
CHECK_DEADLOCK FALSE
