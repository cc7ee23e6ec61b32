CONSTANTS
    Contracts = 2
    MAX_CONTRACTS = 10
    Prices <- MCPrices
    EnablePathB = TRUE
    LastExpiry = 2
    MaxFaults = 2
SPECIFICATION IgvSpec
PROPERTY ArmedCloseIsSent
CHECK_DEADLOCK FALSE
