SPECIFICATION Spec
CONSTANTS
    c1 = c1
    w1 = w1
    o1 = o1
    o2 = o2
    Groups = {c1, w1}
    SeverityOf <- CriticalAndWarning
    SymbolOf <- Alphabetic
    ValuesOf <- WarningIsWorthMore
    SentStatuses = {"reviewed", "unknown"}
    Operators = {o1, o2}
    HOMEPAGE_GROUP_CANDIDATE_LIMIT = 2
    HOMEPAGE_GROUP_LIMIT = 1
    ACTIVE_OPERATIONAL_ISSUES_LIMIT = 1
    MaxRuns = 2
    MaxDetections = 2
    MaxCorrections = 2
    MaxReviews = 1
SYMMETRY OperatorsSymmetric
INVARIANTS TypeOK ActiveWasUnresolved OneRunShown CriticalFirst DuplicateOnlyByRace
CONSTRAINT TwoAtATime
CHECK_DEADLOCK FALSE
