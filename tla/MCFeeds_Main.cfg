SPECIFICATION FeedsSpec
CONSTANTS
    BTC = BTC
    CNY = CNY
    Parts = {"requests", "feeds"}
    Slots = {s1, s2}
    PolledSlots = {s1, s2}
    Users = {u1, u2}
    Keys = {}
    Assets = {BTC, CNY}
    Markets <- OneMarket
    Methods = {"auth", "private", "order", "asset"}
    MaxSes = 3
    MaxRequests = 3
    MaxVersion = 1
    MaxUpdates = 1
    MaxStops = 0
    Feeds = {"depth", "deals", "price", "state"}
    PolledKeys = {1, 2}
    Prices = {1, 2}
    Limit = 2
    MaxChanges <- MoreDeals
    MaxAmount = 2
    MaxPolls = 2
    MaxFaults = 1
    MaxConnections = 2
INVARIANTS
    Authenticated
    FeedsOwned
    EntriesExact
    InStep
    DealsGapless
SYMMETRY Symmetry
VIEW WithoutHistory
CHECK_DEADLOCK FALSE
