CONSTANTS
    Bids <- MCBids
    Asks <- MCAsks
    Depth = 1
    Cap = 2
    MaxChanges = 4
SPECIFICATION Spec
INVARIANTS
    TypeOK
    ExactUnlessHole
PROPERTIES
    HoleOnlyUnsequenced
    RegisterSpec
CHECK_DEADLOCK FALSE
