SPECIFICATION Spec
CONSTANTS
    Devices = {d1, d2}
    Cells = {c1, c2}
    MaxSeq = 2
    Writers = {w1, w2}
    Handles <- TwoWriters
    MaxCrashes = 0
    None = None
    w1 = w1
    w2 = w2
    d1 = d1
    d2 = d2
PROPERTIES
    SeqNeverDecreases
