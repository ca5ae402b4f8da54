SPECIFICATION Spec
CONSTANTS
    e1 = e1
    Tickets <- OneTicket
    Events = {e1}
    EventOf <- AllOfOneEvent
    CategoryOf <- CategoryOfTicket
    Workers = {w1, w2}
    Sweepers = {s1}
    StatusInputs = {"published", "draft", "invalid"}
    KpiLogging = TRUE
    MaxFaults = 2
    None = None
SYMMETRY WorkerSymmetry
INVARIANTS
    TypeOK
    ReservedHasDeadline
    ReservationsInFeed
    IInv
PROPERTIES
    ReservedFromPublishedStock
    NothingAfterDeletion
    ServerErrorsExplained
    StatusNotReverted
    HonoursContract
    CommitsAsRequested
    RefusalsTrue
