SPECIFICATION MCSpec
CONSTANTS
    Thread = {t1, t2}
    FirstThread = t1
    Users = {1}
    FirstOrders <- OneOrder
    HISTORY_HASH_NUM = 1
    MAX_PENDING_HISTORY = 2
    MAX_PENDING_MESSAGE = 2
    QueueMax = 1
    MaxCommands = 2
    MaxTroubles = 1
INVARIANTS
    RowsAccounted
    RefusedOnlyAgain
    PushedInOrder
PROPERTY
    RowsStored
CHECK_DEADLOCK FALSE
