SPECIFICATION MCSpec
CONSTANTS
    m1 = m1
    Markets = {m1}
    Types = {"sec", "day"}
    Prices = {1}
    Amounts = {1}
    Steps = {9}
    MaxTime = 9
    MaxFaults = 1
    MaxCrashes = 1
    Queries <- NoQueries
    MARKET_DEALS_MAX = 2
    StartTime = 30
    MaxDeals = 2
    limit = 1
    MIN = 2
    HOUR = 4
    DAY = 8
    MONTH = 32
    sec_max = 8
    min_max = 4
    hour_max = 2
    cache_timeout = 1
INVARIANTS
    ConsumerWoken
    NothingMissed
    ExactUnlessInterrupted
    AnswersRight
VIEW WithoutOldEntry
CHECK_DEADLOCK FALSE
