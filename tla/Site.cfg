SPECIFICATION Spec
CONSTANTS
    Requests = {r1, r2}
    Staleness = 0
    Aliasable = {"USD_BLUE"}
    MaxTime = 2
    MaxFailures = 1
    Pages = {p1, p2}
    PUBLIC_PAGES = {p1}
    MaxVersion = 2
    MaxContent = 2
    Threads = {t1, t2}
    Symbols = {s1}
    Rows <- ProjectionRows
    Decisions <- SellDecisions
    SELL_EVENT_LIMIT = 1
    DIAGNOSTICS = TRUE
    HEALTHCHECK_STALE_AFTER = 0
    ANALYTICS_CACHE_SECONDS = 1
    MaxMoment = 2
    MaxWrites = 2
    MaxFaults = 1
    NoBeat = NoBeat
    NoEntry = NoEntry
    None = None
    DUST_MIN_VALUE = 5
    DRIFT_TOLERANCE = 0
INVARIANTS FreshAfterAnswer OfflineFromActive   
PROPERTY BackOnlyByOverlap
CONSTRAINT Bounded
SYMMETRY Alike
CHECK_DEADLOCK FALSE
