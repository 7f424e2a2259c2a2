SPECIFICATION Spec
CONSTANTS
    r1 = r1
    r2 = r2
    r3 = r3
    Requests = {r1, r2}
    Asks <- OneAsk
    Limit = 1
    MaxBatch = 3
    Rate = 2
    Window = 1
    KeyRequired = FALSE
    Slots = 1
    Faults = FALSE
    MaxReports = 2
    MaxClock = 0
PROPERTIES
    ReportsServed
CHECK_DEADLOCK FALSE
