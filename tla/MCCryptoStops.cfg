CONSTANTS
    ProbeQty = 2
    MaxHeld = 3
    MaxOrders = 2
    Increment = 2
    MinOrder = 2
    MaxFailures = 1
SPECIFICATION StopsSpec
INVARIANT StopsTypeOK
INVARIANT OversizedOnlyAfterExit
INVARIANT PassedProbeLeftNothing
PROPERTY RefinesStopSlot
PROPERTY NakedPositionIsReported
CHECK_DEADLOCK FALSE
