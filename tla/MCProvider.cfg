CONSTANTS
    Calls = {a, b}
    MaxAttempts = 3
    MaxWaits = 1
    Costs = {1}
    MaxTokens = 2
    Headroom = 6
SPECIFICATION Spec
INVARIANTS TotalsAgree
PROPERTIES EveryCallEnds
CHECK_DEADLOCK FALSE
