SPECIFICATION FairSpec
CONSTANTS
    Devices = {d1, d2}
    Cells = {c1, c2}
    MaxSeq = 2
    Writers = {w1}
    Handles <- OneWriter
    MaxCrashes = 1
    None = None
    w1 = w1
    w2 = w2
    d1 = d1
    d2 = d2
INVARIANTS
    TypeOK
    IndexComplete
    IndexSound
    RecordsExpire
PROPERTIES
    CasIsAtomic
    DeadLeaveIndex
