CONSTANTS
    g1 = g1
    g2 = g2
    buy = buy
    sell = sell
    limitbuy = limitbuy
    Posters = {g1, g2}
    Orders = {buy, sell, limitbuy}
    Buys = {buy, limitbuy}
    Gated = {buy, sell}
    Taxonomies <- MCTaxonomies
    Keys <- MCKeys
    Feeds <- MCFeeds
    Threshold = 2
    MaxStale = 2
    ListLimit = 2
    CancelCooldown = 1
    DegradedCooldown = 1
    MaxCooldown = 1
    Attempts = 2
    MaxTime = 1
    MaxRuns = 2
SYMMETRY GateSymmetry
SPECIFICATION GateSpec
INVARIANT GateTypeOK
INVARIANT GateStopsTheHurtSide
INVARIANT LedgerNamesEveryCancel
INVARIANT StampsWereSent
INVARIANT DuplicateNeedsRace
CHECK_DEADLOCK FALSE
