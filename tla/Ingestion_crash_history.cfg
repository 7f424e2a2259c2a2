SPECIFICATION Spec
CONSTANTS
    Devices = {d1}
    MaxSeq = 2
    Procs = {p1}
    EventDriven = TRUE
    BatchSize = 2
    DedupMax = 2
    MaxQueue = 2
    MaxOutages = 1
    MaxZombies = 0
    MaxFaults = 0
    MaxLapses = 0
    MaxUndelivered = 0
    Garbage = Garbage
    None = None
INVARIANTS
    NothingCommittedIsLost
