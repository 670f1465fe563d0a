CONSTANTS
    a = a
    b = b
    Ids = {a, b}
    Sizes <- TwoSizes
    ChanCap = 2
    MaxMessages = 3
    MaxWarns = 2
SPECIFICATION FairSpec
INVARIANTS
    LastWordShown
    WarningsTold
PROPERTIES
    LinesUnderHeader
    StopReturns
CHECK_DEADLOCK FALSE
