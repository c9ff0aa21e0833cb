CONSTANTS
    c1 = c1
    c2 = c2
    Callers <- MCCallers
    Limit = 2
    Window = 2
    BackoffTime = 3
    MaxTime = 5
SPECIFICATION Spec
SYMMETRY CallerSymmetry
INVARIANTS
    TypeOK
    BurstBound
    QuietAfter429
    PlaceOutcome
CHECK_DEADLOCK FALSE
