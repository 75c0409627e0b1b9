SPECIFICATION Spec
CONSTANTS
    Traded = {"a", "b"}
    Operations <- FilledOperations
    CHURN_GAP = 2
    CHURN_WINDOW = 2
    DAY = 2
    LATEST_LIMIT = 2
    MaxOperations = 3
    MaxMinute = 3
    Coins = {c1, c2}
    Ids = {g1, g2}
    NoId = NoId
    NoRow = NoRow
    TRADING_PHASES = {"OPEN"}
    OddPhases = {"PAUSED"}
    MaxQty = 2
    MaxActs = 2
    Assets = {a1, a2}
    Prices = {0, 1}
    Absent = Absent
    STALE = 0
    MATERIAL_MIN = 2
    MAX_POSITIONS = 1
    BUY_AMOUNT = 2
    Verdicts <- Sayings
    Rejections = {"free_usdt_below_buy_amount"}
    MaxHour = 1
    MaxDeeds = 2
    MaxErrors = 1
    Texts <- Replies
    TagNames = {"b", "code"}
    OpenLen <- TagLen
    CloseLen <- TagLen
    LIMIT = 8
INVARIANTS    PartsFit
CONSTRAINT Bounded
SYMMETRY Alike
CHECK_DEADLOCK FALSE
