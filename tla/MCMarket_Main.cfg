SPECIFICATION MCSpec
CONSTANTS
    u1 = u1
    u2 = u2
    Users = {u1, u2}
    Amounts = {1, 2}
    Budgets = {3}
    Prices = {1, 2}
    TakerRates = {0, 1}
    MakerRates = {1}
    FeeDen = 2
    MinAmount = 1
    MaxOrderId = 4
    Paddings = {0}
    UpdateRequests <- RichFunding
    Changes <- LedgerChanges
    Stocks = {2, 4}
    Moneys = {1, 2, 3, 4}
INVARIANTS
    MarketInv
    DealsExplainOrders
    FrozenBacked
    Conservation
    NothingUnpaid
PROPERTIES
    ImplementsLedger
    HandlerReturns
CHECK_DEADLOCK FALSE
