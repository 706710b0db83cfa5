SPECIFICATION MCSpec
CONSTANTS
    BTC = BTC
    CNY = CNY
    Parts = {"requests", "feeds", "frames"}
    MaxChanges <- TwoChanges
    Slots = {s1}
    PolledSlots = {s1}
    Users = {u1}
    Keys = {k1}
    Assets = {BTC, CNY}
    Markets <- OneMarket
    Methods = {"query", "server", "unknown", "auth", "sign", "private", "order", "asset"}
    MaxSes = 2
    MaxRequests = 3
    MaxVersion = 2
    MaxUpdates = 0
    MaxStops = 1
    Feeds = {"depth", "deals", "kline", "price", "state", "today"}
    PolledKeys = {2}
    Prices = {1, 2, 3}
    Limit = 2
    MaxAmount = 2
    MaxPolls = 2
    MaxFaults = 2
    MaxConnections = 1
    MAX_PKG_SIZE = 3
    Sizes = {1, 2, 3}
    Requests = {"good", "refused"}
    MaxMessages = 2
    MaxPings = 1
PROPERTIES
    MonotonicReads
    Answered
    ImplementsRequestReply
    Fresh
    ImplementsChannel
CHECK_DEADLOCK FALSE
