CONSTANTS
    r1 = r1
    r2 = r2
    NoOrder = NoOrder
    Requests <- MCSingle
    Intent <- MCIntent
    FillsPerOrder = 2
    Assets = 3
    MaxRetries = 3
    WriterAttempts = 2
    MaxCrashes = 1
    Wirings <- MCWirings
SPECIFICATION FairSpec
INVARIANT BoundedCopies
PROPERTY Answered
CHECK_DEADLOCK FALSE
