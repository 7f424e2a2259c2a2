SPECIFICATION FairSpec
CONSTANTS
    Requests = {r1, r2}
    Agents = {a1, a2}
    Servers = {s1, s2}
    Inbox <- InLine
    MaxAgents = 1
    MaxLapses = 1
    MaxCrashes = 1
    Garbage = Garbage
    None = None
    s1 = s1
    s2 = s2
    r1 = r1
    r2 = r2
INVARIANTS
    ReservationsExclude
    UnassignedReleased
    CommittedIsAnswered
    AnsweredOncePerLife
PROPERTIES
    OnlyHolderReleases
    EveryRequestServed
CHECK_DEADLOCK FALSE
