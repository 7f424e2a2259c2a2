SPECIFICATION Spec
CONSTANTS
    Devices = {d1}
    MaxSeq = 2
    Procs = {p1, p2}
    EventDriven = FALSE
    BatchSize = 1
    DedupMax = 1
    MaxQueue = 1
    MaxOutages = 1
    MaxZombies = 1
    MaxFaults = 1
    MaxLapses = 0
    MaxUndelivered = 0
    Garbage = Garbage
    None = None
SYMMETRY Symmetry
INVARIANTS
    TypeOK
    SettledIsCovered
