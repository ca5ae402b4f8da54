SPECIFICATION SerialSpec
CONSTANTS
    e1 = e1
    Tickets <- TwoTickets
    Events = {e1}
    EventOf <- AllOfOneEvent
    CategoryOf <- CategoryOfTicket
    Workers = {w1, w2}
    Sweepers = {s1, s2}
    StatusInputs = {"published", "draft"}
    KpiLogging = TRUE
    MaxFaults = 1
    None = None
SYMMETRY ProcessSymmetry
INVARIANTS
    FeedExact
    SInv
PROPERTIES
    KeepsLifecycle
