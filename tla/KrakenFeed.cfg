CONSTANTS
    Bids <- MCBids
    Asks <- MCAsks
    Starts <- MCStarts
    Decimals = 1
    Depth = 2
    BookDepth = 2
    MaxPushes = 2
    MaxDials = 3
    MinBackoff = 1
    MaxBackoff = 1
SPECIFICATION FairFeedSpec
INVARIANTS
    LeakBound
    ExactUnlessMissed
    TopBest
PROPERTIES
    CloseEnds
    CancelEnds
CHECK_DEADLOCK FALSE
