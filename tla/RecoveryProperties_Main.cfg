SPECIFICATION MCSpec
CONSTANTS
    MaxPending = 1
    KeepDays = 0
    Faults = {}
    MaxOps = 3
    MaxDay = 2
    MaxSlices = 2
    MaxStops = 2
INVARIANTS
    AlwaysLoadable
    RefusedOnlyWhenLogged
PROPERTIES
    ImplementsDurableLog
    LoggedEventually
CHECK_DEADLOCK FALSE
