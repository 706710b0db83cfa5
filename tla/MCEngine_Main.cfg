SPECIFICATION MCSpec
CONSTANTS
    Parts = {"redo", "reads", "listing"}
    u1 = u1
    u2 = u2
    Users = {u1, u2}
    Amounts = {1, 2}
    Budgets = {2}
    Prices = {1, 2}
    TakerRates = {0, 1}
    MakerRates = {1}
    FeeDen = 2
    MinAmount = 1
    MaxOrderId = 2
    Paddings = {0}
    UpdateRequests <- WholeUpdates
    ShowUnit = 2
    MaxOps = 5
    MaxSlices = 1
    MaxRestarts = 2
    MaxLen = 2
    Offsets = {0, 1}
    Limits = {1, 3}
    Intervals = {0, 2}
    CacheTimeout = 1
    MaxNow = 2
    Files <- FourFiles
    Markets = {"m1", "m2", "m3", "m4"}
    MaxOrders = 2
    MaxEdits = 2
    MaxStarts = 3
INVARIANTS
    LogExplainsMemory
    RedoSucceeds
    DepthRecent
    AnswersAgree
PROPERTIES
    OrdersKept
VIEW WithoutGhosts
CHECK_DEADLOCK FALSE
