SPECIFICATION Spec
CONSTANTS
    r1 = r1
    r2 = r2
    r3 = r3
    Requests = {r1, r2, r3}
    Asks <- ManyAsks
    Limit = 2
    MaxBatch = 3
    Rate = 1
    Window = 2
    KeyRequired = TRUE
    Slots = 1
    Faults = FALSE
    MaxReports = 1
    MaxClock = 2
INVARIANTS
    TypeOK
    LeasesBounded
    BooksBalance
    NoBurst
PROPERTIES
    IdleAgain
CHECK_DEADLOCK FALSE
