CONSTANTS
    c1 = c1
    c2 = c2
    Callers <- MCCallers
    Budget = 3
    OrderWeight = 1
    BalancesWeight = 2
    FillsWeight = 3
    SnapshotWeight = 1
    Refill = 3
    BackoffTime = 2
    MaxTime = 6
    MaxCalls = 6
    MaxSnapshots = 1
SPECIFICATION Spec
SYMMETRY CallerSymmetry
INVARIANTS
    TypeOK
    MeterBound
    SignedQuietAfter429
CHECK_DEADLOCK FALSE
