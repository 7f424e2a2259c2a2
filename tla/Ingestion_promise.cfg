SPECIFICATION FairSpec
CONSTANTS
    Devices = {d1}
    MaxSeq = 2
    Procs = {p1}
    EventDriven = TRUE
    BatchSize = 2
    DedupMax = 2
    MaxQueue = 1
    MaxOutages = 1
    MaxZombies = 0
    MaxFaults = 0
    MaxLapses = 1
    MaxUndelivered = 1
    Garbage = Garbage
    None = None
INVARIANTS
    HistoryAccounted
    StopLosesOnlyThrown
PROPERTIES
    NoSecondWrite
    KeepsPromise
    PartitionMoves
    QuietRowsLand
