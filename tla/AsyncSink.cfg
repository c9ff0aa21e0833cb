CONSTANTS
    e1 = e1
    e2 = e2
    k1 = k1
    k2 = k2
    Emitters <- MCEmitters
    Closers <- MCClosers
    Cap = 2
    MaxEvents = 3
SPECIFICATION FairSpec
INVARIANTS
    TypeOK
    ClosesOnce
    DropsCounted
PROPERTIES
    LogSpec
    EmitEnds
    TakenDelivered
CHECK_DEADLOCK FALSE
