SPECIFICATION FairSpec
CONSTANTS
    Places = {home, yard, road}
    Cells = {c1, c2}
    Fences = {f1, f2}
    CellOf <- Map
    Area <- Areas
    Cover <- Covers
    MaxCrashes = 1
    MaxExpiries = 1
    None = None
    home = home
    yard = yard
    road = road
    c1 = c1
    c2 = c2
    f1 = f1
    f2 = f2
INVARIANTS
    StateFollowsPlace
    EventsAlternate
    ReportsFollowStates
PROPERTIES
    DwellComes
