CONSTANTS
    a = a
    b = b
    c = c
    p = p
    q = q
    Callers = {a, b, c}
    Keys = {p, q}
    Question <- MCQuestion
    Answers = {yes, no}
    Costs = {0, 1}
    MaxRuns = 2
SPECIFICATION Spec
INVARIANTS OneAnswer OneLiveCall
PROPERTIES EveryCallerEnds
CHECK_DEADLOCK FALSE
