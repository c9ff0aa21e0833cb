CONSTANTS
    c1 = c1
    c2 = c2
    Callers <- MCCallers
    Budget = 3
    OrderCost = 2
    QueryCost = 1
    Decay = 2
    BackoffTime = 2
    MaxTime = 4
    Rate = 1
    MaxNonce = 4
    MaxRestarts = 1
SPECIFICATION Spec
SYMMETRY CallerSymmetry
INVARIANTS
    TypeOK
    MeterBound
    QuietAfter429
    NonceStaleExplained
CHECK_DEADLOCK FALSE
