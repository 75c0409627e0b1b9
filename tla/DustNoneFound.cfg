SPECIFICATION Spec
CONSTANTS
    c1 = c1
    w1 = w1
    o1 = o1
    o2 = o2
    Groups = {c1, w1}
    SeverityOf <- CriticalAndWarning
    SymbolOf <- Alphabetic
    ValuesOf <- WarningIsWorthMore
    SentStatuses = {"reviewed", "unknown"}
    Operators = {o1}
    HOMEPAGE_GROUP_CANDIDATE_LIMIT = 2
    HOMEPAGE_GROUP_LIMIT = 2
    ACTIVE_OPERATIONAL_ISSUES_LIMIT = 1
    MaxRuns = 2
    MaxDetections = 2
    MaxCorrections = 1
    MaxReviews = 1
INVARIANTS NoneFoundMeansNone
CHECK_DEADLOCK FALSE
