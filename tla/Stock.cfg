SPECIFICATION Spec
CONSTANTS
    e1 = e1
    Tickets <- TwoTickets
    Events = {e1}
    EventOf <- AllOfOneEvent
    CategoryOf <- CategoryOfTicket
    Workers = {w1, w2}
    Sweepers = {s1, s2}
    StatusInputs = {"published", "draft"}
    KpiLogging = FALSE
    MaxFaults = 0
    None = None
SYMMETRY ProcessSymmetry
INVARIANTS
    SweepHoldsLapsed
    NoOrphans
    DeadlocksNeedDelete
    NoStandstill
    AInv
    SnapshotExact
PROPERTIES
    StockConserved
