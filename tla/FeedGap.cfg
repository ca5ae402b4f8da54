SPECIFICATION Spec
CONSTANTS
    all = all
    one = one
    Rows <- FourRows
    EventOf <- EventOfRow
    Transactions = {x1, x2}
    Consumers = {all}
    Filter <- FilterOf
    Limit = 2
    Skew = 0
    DistinctTimes = TRUE
    MaxClock = 3
    MaxLosses = 0
    None = None
CHECK_DEADLOCK FALSE
INVARIANTS
    NothingMissed
