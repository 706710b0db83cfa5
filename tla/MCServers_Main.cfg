SPECIFICATION MCSpec
CONSTANTS
    c1 = c1
    c2 = c2
    s1 = s1
    s2 = s2
    t1 = t1
    Clients = {c1, c2}
    Pager = c1
    Other = c2
    FirstSlot = s1
    Slots = {s1, s2}
    SesSlots = {s1, s2}
    Thread = {t1}
    SOCK_MAX = 1
    BUF_LIMIT = 1
    UINT_MAX = 9
    MaxTroubles = 1
    MAX_PENDING_JOB = 1
    QUERY_LIMIT = 2
    Unchecked = {}
    Pagers = {c1}
    Others <- SomeOthers
    FirstRows <- TwoRows
    LaterRows <- OneMore
    PageSize = 2
    MaxAsks <- FewAsks
    Conns = {n1, n2}
    Workers = {w1, w2}
    FirstWorker = w1
    FirstConn = n1
    PIPE_MAX = 1
    MaxLinks = 2
    MaxStops = 2
    Kinds = {"known", "not http", "unknown", "malformed"}
    MaxRequests = 2
INVARIANTS
    AskerAnswered
    NothingSkipped
    NoneForgotten
    NoneUnanswered
PROPERTIES
    Reconnected
    ImplementsRequestReply
CHECK_DEADLOCK FALSE
