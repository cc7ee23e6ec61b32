SPECIFICATION Spec
CONSTANTS
    buy = buy
    rival = rival
    name = name
    Intents <- TwoBuys
    Buys <- TwoBuys
    Symbol <- TwoBuysSymbol
    MaxQty = 1
    MaxAttempts = 1
    MaxPendingAge = 0
    MaxTime = 1
INVARIANTS
    OnePositionPerName
