SPECIFICATION Spec
CONSTANTS
    first = first
    retry = retry
    other = other
    plain = plain
    Requests = {first, retry, other}
    Endpoint <- EndpointOf
    Header <- HeaderOf
    Limit = 3
    MaxWindow = 1
    MaxFaults = 0
    None = None
CHECK_DEADLOCK FALSE
INVARIANTS
    ProcessedOnce
