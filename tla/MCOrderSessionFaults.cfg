SPECIFICATION FairSessionSpec
CONSTANTS
    intent = intent
    name = name
    Intents <- OneIntent
    Buys = {}
    Symbol <- OneSymbol
    Crypto = {}
    MaxQty = 2
    MaxAttempts = 2
    MaxPendingAge = 0
    MaxTime = 1
    Faults = {"lost_reply", "slow_cancel", "unreachable", "crash_after_accept"}
    MaxFaults = 2
INVARIANTS
    BookedFillsAreReal
PROPERTIES
    BrokerCloseIsLearned
