CONSTANTS
    g1 = g1
    g2 = g2
    Callers <- MCCallers
    MaxVersion = 3
    MaxCalls = 3
SPECIFICATION FairSpec
INVARIANTS
    CurrentLive
    RevokeJustified
    LatestNotAhead
PROPERTIES
    CallsEnd
CHECK_DEADLOCK FALSE
