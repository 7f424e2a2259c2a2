-------------------------------- MODULE Query --------------------------------
(***************************************************************************)
(* NearbyDevices: the search over the records and the cell index of        *)
(* RedisState, which a writer, an expiry or the cleanup may change between *)
(* any two of its commands.  The position of a device is the cell it is    *)
(* in.                                                                     *)
(***************************************************************************)
EXTENDS Integers, RedisState, Trips

CONSTANTS
    Here,              \* the cell of the coordinates asked about
    Dist,              \* per cell, how far a device in it is from them
    Edge,              \* avg_edge_length_m
    Id,                \* per device, its place in the order of device ids
    Asks,              \* the searches: NearbyDevicesRequest
    NearbyMaxRadius, NearbyMaxResults

ASSUME QueryAssumption ==
    /\ Cells \subseteq Int \X Int /\ Here \in Cells
    /\ Dist \in [Cells -> Nat] /\ Edge \in Nat \ {0}
    /\ Id \in [Devices -> Nat] /\ \A c, d \in Devices : Id[c] = Id[d] => c = d
    /\ Asks \subseteq [sound : BOOLEAN,  \* coordinates and last_seen_s are in range
                       radius : Nat, limit : Int,
                       since : Nat]      \* the least number recent enough for last_seen_s
    /\ NearbyMaxRadius \in Nat \ {0} /\ NearbyMaxResults \in Nat \ {0}

VARIABLES
    pc,       \* where the search is
    ask,      \* the request in hand
    left,     \* cells whose members it has still to read
    ids,      \* candidates: the union of the members read
    unread,   \* candidates whose record it has still to read
    found,    \* the records read, with their devices
    still     \* history: devices no command has touched since the search began

search == <<pc, ask, left, ids, unread, found>>
queryVars == <<vars, search, still>>

\* The store as earlier processors left it: every record expires and is in the
\* set of its cell.
QueryInit ==
    /\ rec \in [Devices -> Records \cup {None}]
    /\ ttl = [d \in Devices |-> rec[d] # None]
    /\ cells = [c \in Cells |-> {d \in Devices : rec[d] # None /\ rec[d].cell = c}]
    /\ wpc = [w \in Writers |-> "idle"]
    /\ job = [w \in Writers |-> None] /\ cur = [w \in Writers |-> None]
    /\ cpc = "idle" /\ todo = {} /\ visit = None /\ members = {} /\ victim = None
    /\ gone = {} /\ crashes = 0
    /\ pc = "idle" /\ ask = None
    /\ left = {} /\ ids = {} /\ unread = {} /\ found = {} /\ still = {}
-----------------------------------------------------------------------------
(* The cells of a search.                                                  *)

\* Mutant: the sides of the hexagon are cut off one step too early.
GridDiskShort(c, k) == {n \in Cells : /\ n[1] - c[1] \in -k..k
                                      /\ n[2] - c[2] \in -k..k
                                      /\ (n[1] - c[1]) + (n[2] - c[2]) \in (1 - k)..(k - 1)}

\* The disk of a hexagonal lattice in axial coordinates.
GridDisk(c, k) == {n \in Cells : /\ n[1] - c[1] \in -k..k
                                 /\ n[2] - c[2] \in -k..k
                                 /\ (n[1] - c[1]) + (n[2] - c[2]) \in -k..k}

RadiusToK(r) == (r + Edge - 1) \div Edge

Radius(a) == IF a.radius > NearbyMaxRadius THEN NearbyMaxRadius ELSE a.radius

Limit(a) == IF a.limit <= 0 \/ a.limit > NearbyMaxResults THEN NearbyMaxResults ELSE a.limit

SearchCells(a) == GridDisk(Here, RadiusToK(Radius(a)))

\* The order of the answer: by distance, then by device id.
Nearer(s, t) == \/ Dist[s.cell] < Dist[t.cell]
                \/ Dist[s.cell] = Dist[t.cell] /\ Id[s.dev] < Id[t.dev]

Matches(s, a) == s.seq >= a.since /\ Dist[s.cell] <= Radius(a)

\* The n nearest of a set of records.
Nearest(S, n) == {s \in S : Cardinality({t \in S : Nearer(t, s)}) < n}
-----------------------------------------------------------------------------
(* A search.                                                               *)

\* The checks of handle_nearby
Admitted(a) == a.sound /\ a.radius > 0

Ask ==
    /\ pc = "idle"
    /\ \E a \in Asks :
        /\ Admitted(a)
        /\ ask' = a
        /\ left' = SearchCells(a)
    /\ pc' = "cells"
    /\ still' = {d \in Devices : Settled(d)}
    /\ UNCHANGED <<vars, ids, unread, found>>

\* SMEMBERS of one cell
ReadCell ==
    /\ pc = "cells"
    /\ \E c \in left : ids' = ids \cup cells[c] /\ left' = left \ {c}
    /\ UNCHANGED <<vars, pc, ask, unread, found, still>>

CellsRead ==
    /\ pc = "cells" /\ left = {}
    /\ pc' = "states"
    /\ unread' = ids
    /\ UNCHANGED <<vars, ask, left, ids, found, still>>

Entry(d) == [dev |-> d, seq |-> rec[d].seq, cell |-> rec[d].cell]

\* HGETALL of one candidate
ReadState ==
    /\ pc = "states"
    /\ \E d \in unread : /\ unread' = unread \ {d}
                         /\ found' = found \cup IF rec[d] = None THEN {} ELSE {Entry(d)}
    /\ UNCHANGED <<vars, pc, ask, left, ids, still>>

\* The filter, the order and the limit, once every record is read
Answered == pc = "states" /\ unread = {}
InRadius == {s \in found : Matches(s, ask)}
Result == Nearest(InRadius, Limit(ask))

Answer ==
    /\ Answered
    /\ pc' = "idle" /\ ask' = None
    /\ ids' = {} /\ found' = {} /\ still' = {}
    /\ UNCHANGED <<vars, left, unread>>
-----------------------------------------------------------------------------
Search == Ask \/ ReadCell \/ CellsRead \/ ReadState \/ Answer

\* A command of a writer or of the cleanup, or an expiry, between two of the search
Meanwhile ==
    /\ Next
    /\ still' = {d \in still : rec'[d] = rec[d] /\ Settled(d)'}
    /\ UNCHANGED search

QueryNext == Search \/ Meanwhile

QuerySpec == QueryInit /\ [][QueryNext]_queryVars
-----------------------------------------------------------------------------
(* Properties.                                                             *)

Entries == [dev : Devices, seq : 1..MaxSeq, cell : Cells]

QueryTypeOK ==
    /\ pc \in {"idle", "cells", "states"} /\ ask \in Asks \cup {None}
    /\ pc # "idle" => ask \in Asks /\ Admitted(ask)
    /\ left \subseteq Cells /\ ids \subseteq Devices /\ unread \subseteq ids
    /\ found \subseteq Entries /\ still \subseteq Devices

\* The disk of a radius holds every cell in it: so it is on a hexagonal lattice,
\* and not on the square one of the build without the H3 library, where the
\* neighbours across two of the four corners are two steps away.
DiskCovers == \A a \in Asks, c \in Cells :
    Admitted(a) /\ Dist[c] <= Radius(a) => c \in SearchCells(a)

\* "Find nearby devices": although members and records are read by separate
\* commands, a device that stands still within the radius and was heard of recently
\* enough is in the answer, or the answer is full of nearer ones: every one whose
\* record never expired until a writer dies, and from then on every one in the index
\* (see IndexComplete); and of a device that stands still the answer says where it
\* is, or nothing if it is too far, silent for too long or without a record.
StandingIsFound ==
    Answered => \A d \in still :
        /\ /\ rec[d] # None /\ Matches(Entry(d), ask)
           /\ (crashes = 0 /\ d \notin gone) \/ d \in cells[rec[d].cell]
           => \/ Entry(d) \in Result
              \/ /\ Cardinality(Result) = Limit(ask)
                 /\ \A s \in Result : Nearer(s, Entry(d))
        /\ \A s \in Result : s.dev = d =>
               rec[d] # None /\ s = Entry(d) /\ Matches(s, ask)

\* Whatever a device has in the history and whatever is asked, a trip is thinned as
\* its caller expects.  A trip reads nothing of the store, so it is enough to ask
\* for trips while no search is under way.
TripsAreThinned == pc = "idle" => EveryTripIsThinned
=============================================================================
