CONSTANTS
    Bids <- MCBids
    Asks <- MCAsks
    Starts <- MCStarts
    Decimals = 1
    Depth = 2
    BookDepth = 2
    MaxPushes = 1
    MaxDials = 3
    MinBackoff = 1
    MaxBackoff = 2
SPECIFICATION FeedSpec
INVARIANT Resubscribed
CHECK_DEADLOCK FALSE
