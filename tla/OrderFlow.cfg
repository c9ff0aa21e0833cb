CONSTANTS
    r1 = r1
    r2 = r2
    NoOrder = NoOrder
    Requests <- MCPair
    Intent <- MCIntent
    FillsPerOrder = 1
    Assets = 2
    MaxRetries = 1
    WriterAttempts = 1
    MaxCrashes = 1
    Wirings <- MCWirings
SPECIFICATION Spec
SYMMETRY RequestSymmetry
INVARIANTS
    TypeOK
    AuditCausal
    BusTraceable
    FillsAccounted
CHECK_DEADLOCK FALSE
