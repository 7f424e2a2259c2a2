SPECIFICATION QuerySpec
CONSTANTS
    Devices = {d1, d2}
    Cells <- MCCells
    MaxSeq = 2
    Writers = {w1}
    Handles <- MCHandles
    MaxCrashes = 1
    None = None
    w1 = w1
    d1 = d1
    d2 = d2
    History <- MCPoints
    TripAsks <- MCTripAsks
    Here <- MCHere
    Dist <- MCDist
    Edge = 2
    Id <- MCId
    Asks <- MCAsks
    NearbyMaxRadius = 2
    NearbyMaxResults = 2
INVARIANTS
    StandingIsFound
    TripsAreThinned
