CONSTANTS
    Calls = {a, b}
    MaxAttempts = 3
    MaxWaits = 1
    Costs = {1}
    MaxTokens = 2
    Headroom = 6
SPECIFICATION Spec
INVARIANT ChargedItsOwn
CHECK_DEADLOCK FALSE
