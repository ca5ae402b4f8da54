SPECIFICATION FairSpec
CONSTANTS
    all = all
    one = one
    Rows <- FourRows
    EventOf <- EventOfRow
    Transactions = {x1, x2}
    Consumers = {one}
    Filter <- FilterOf
    Limit = 2
    Skew = 1
    DistinctTimes = FALSE
    MaxClock = 2
    MaxLosses = 1
    None = None
CHECK_DEADLOCK FALSE
INVARIANTS
    TypeOK
    PagesAdvance
    GapsExplained
    FInv
PROPERTIES
    CatchesUp
