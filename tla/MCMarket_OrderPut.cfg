SPECIFICATION Spec
CONSTANTS
    u1 = u1
    u2 = u2
    Users = {u1, u2}
    Amounts = {1, 2}
    Budgets = {3}
    Prices = {1, 2}
    TakerRates = {1}
    MakerRates = {0}
    FeeDen = 2
    MinAmount = 1
    MaxOrderId = 3
    Paddings = {0}
    UpdateRequests <- RichFunding
    Changes <- LedgerChanges
    Stocks = {2, 4}
    Moneys = {1, 2, 3, 4}
INVARIANTS
    OrderPutNeverFails
CHECK_DEADLOCK FALSE
