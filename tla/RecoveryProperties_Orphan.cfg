SPECIFICATION Spec
CONSTANTS
    MaxPending = 1
    KeepDays = 0
    Faults = {"orphan"}
    MaxOps = 3
    MaxDay = 1
    MaxSlices = 1
    MaxStops = 1
INVARIANTS
    RecoversPrefix
CHECK_DEADLOCK FALSE
