SPECIFICATION Spec
CONSTANTS
    first = first
    retry = retry
    other = other
    plain = plain
    Requests = {first, retry, other}
    Endpoint <- EndpointOf
    Header <- HeaderOf
    Limit = 2
    MaxWindow = 2
    MaxFaults = 1
    None = None
SYMMETRY DuplicateSymmetry
CHECK_DEADLOCK FALSE
INVARIANTS
    TypeOK
    MarkerMatchesOwner
    OwnersProcessOnce
    ReplaysAreReal
    QuotaHeld
    GInv
PROPERTIES
    BypassNeedsDuplicate
