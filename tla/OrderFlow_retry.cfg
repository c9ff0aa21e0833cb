CONSTANTS
    r1 = r1
    r2 = r2
    NoOrder = NoOrder
    Requests <- MCPair
    Intent <- MCIntent
    FillsPerOrder = 1
    Assets = 1
    MaxRetries = 1
    WriterAttempts = 2
    MaxCrashes = 1
    Wirings <- MCWirings
SPECIFICATION Spec
INVARIANT RetriesDoNotDoublePlace
CHECK_DEADLOCK FALSE
