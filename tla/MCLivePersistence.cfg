SPECIFICATION PersistenceSpec
CONSTANTS
    name = name
    Symbols <- OneName
    Brokers = {"alpaca", "paper"}
    MaxQty = 2
    MaxIntents = 2
    MaxRuns = 2
    MaxFaults = 1
    Optional = {"lifecycle", "snapshot"}
CHECK_DEADLOCK FALSE
INVARIANTS
    PersistenceTypeOK
    CacheMirrorsBroker
    CloseIsStamped
    LogsTrailTheCache
    AppliedOnceUnlessCrashed
    PlanIsAllOrNothing
