CONSTANTS
    Contracts = 2
    MAX_CONTRACTS = 10
    Prices <- MCPrices
    EnablePathB = TRUE
    LastExpiry = 2
    MaxFaults = 2
SPECIFICATION IgvSpec
INVARIANT OneEntry
INVARIANT PlanMatchesBroker
CHECK_DEADLOCK FALSE
