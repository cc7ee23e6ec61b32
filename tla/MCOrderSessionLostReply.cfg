SPECIFICATION FairSessionSpec
CONSTANTS
    intent = intent
    name = name
    Intents <- OneIntent
    Buys <- OneIntent
    Symbol <- OneSymbol
    Crypto = {}
    MaxQty = 1
    MaxAttempts = 2
    MaxPendingAge = 0
    MaxTime = 1
    Faults = {"lost_reply"}
    MaxFaults = 1
INVARIANTS
    NeverOverfilled
