SPECIFICATION SleeveSpec
CONSTANTS
    equity = equity
    crypto = crypto
    p1 = p1
    p2 = p2
    manual = manual
    Sleeves <- TwoSleeves
    Parents <- TwoParents
    Owner <- OneEach
    Want <- TwoAndOne
    Strangers = {}
    MaxCash = 3
    MaxAmount = 2
    Ttl = 1
    MaxClock = 0
    MaxFaults = 1
CHECK_DEADLOCK FALSE
INVARIANTS
    OpenBuysAreFunded
