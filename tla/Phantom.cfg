SPECIFICATION Spec
CONSTANTS
    e1 = e1
    Tickets <- OneTicket
    Events = {e1}
    EventOf <- AllOfOneEvent
    CategoryOf <- CategoryOfTicket
    Workers = {w1, w2}
    Sweepers = {s1}
    StatusInputs = {"published", "draft"}
    KpiLogging = TRUE
    MaxFaults = 0
    None = None
SYMMETRY WorkerSymmetry
PROPERTIES
    ReserveTakesEffect
