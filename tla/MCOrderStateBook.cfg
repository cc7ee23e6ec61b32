SPECIFICATION Spec
CONSTANTS
    buy = buy
    rival = rival
    name = name
    Intents <- OneIntent
    Buys <- OneIntent
    Symbol <- OneSymbol
    MaxQty = 3
    MaxAttempts = 2
    MaxPendingAge = 0
    MaxTime = 1
INVARIANTS
    TypeOK
    EconomicInvariant
    AtMostOneOpenChild
    GrossAccountsForEverySubmission
PROPERTIES
    ClosedChildIsFinal
    LifecycleFollowsDiagram
    FencedExposureNeverGrows
