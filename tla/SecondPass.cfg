SPECIFICATION Spec
CONSTANTS
    first = first
    retry = retry
    other = other
    plain = plain
    Requests = {plain}
    Endpoint <- EndpointOf
    Header <- HeaderOf
    Limit = 3
    MaxWindow = 1
    MaxFaults = 0
    None = None
CHECK_DEADLOCK FALSE
PROPERTIES
    SecondPassWithoutRedis
