SPECIFICATION FairSessionSpec
CONSTANTS
    intent = intent
    name = name
    Intents <- OneIntent
    Buys <- OneIntent
    Symbol <- OneSymbol
    Crypto = {}
    MaxQty = 2
    MaxAttempts = 2
    MaxPendingAge = 0
    MaxTime = 1
    Faults = {"unreachable"}
    MaxFaults = 2
INVARIANTS
    SessionTypeOK
    NeverOverfilled
    ClosedMeansClosed
PROPERTIES
    EmitsOnlyWhenBrokerIsQuiet
    OverdueIsResolved
