-------------------------------- MODULE Trips --------------------------------
(***************************************************************************)
(* GetTrip: from the trip points a device has in the database to the       *)
(* points of the response.  Times are in units of the sampling interval's  *)
(* resolution; near says whether a point lies in the circle asked about.   *)
(***************************************************************************)
EXTENDS Integers, Sequences, FiniteSets, Functions

Points == [t : Nat, seq : Nat, near : BOOLEAN]

CONSTANTS
    History,     \* the trip points a device ever has
    TripAsks     \* the requests: GetTripRequest

ASSUME TripsAssumption ==
    /\ History \subseteq Points /\ IsFiniteSet(History)
    /\ \A p, q \in History :  \* PRIMARY KEY (device_id, event_time, seq)
          p.t = q.t /\ p.seq = q.seq => p = q
    /\ TripAsks \subseteq [named : BOOLEAN, from : Int, to : Int, limit : Int, interval : Int,
                           filter : {"none", "circle", "bbox"}, sound : BOOLEAN]

\* ORDER BY event_time ASC, seq ASC
Before(p, q) == p.t < q.t \/ (p.t = q.t /\ p.seq < q.seq)

Asked(p, a) == a.from <= p.t /\ p.t <= a.to /\ (a.filter = "circle" => p.near)

\* The rows in their order: as many precede a row as its place says.
Ordered(S) ==
    [i \in 1..Cardinality(S) |->
        CHOOSE p \in S : Cardinality({q \in S : Before(q, p)}) = i - 1]

\* LIMIT cuts the rows that qualify before any of them is left out by sampling.
Rows(points, a) ==
    LET ordered == Ordered({p \in points : Asked(p, a)})
    IN  SubSeq(ordered, 1, IF Len(ordered) > a.limit THEN a.limit ELSE Len(ordered))

\* Mutant: the bucket is compared with that of the first point kept.
SampleOnce(kept, p, n) ==
    IF kept = <<>> \/ p.t \div n # Head(kept).t \div n THEN Append(kept, p) ELSE kept

\* A point is kept when its bucket is not that of the last point kept.
Sample(kept, p, n) ==
    IF kept = <<>> \/ p.t \div n # kept[Len(kept)].t \div n THEN Append(kept, p) ELSE kept

\* Per number of rows, what is kept of so many of the first
Kept(rows, n) ==
    LET kept[i \in 0..Len(rows)] == IF i = 0 THEN <<>> ELSE Sample(kept[i - 1], rows[i], n)
    IN  kept

\* downsample_by_interval
Sampled(rows, interval) ==
    IF interval <= 0 \/ Len(rows) <= 1 THEN rows ELSE Kept(rows, interval)[Len(rows)]

\* handle_trip and handle_trip_spatial
Refuses(a) == \/ ~a.named \/ a.from > a.to \/ a.limit <= 0
              \/ a.filter = "circle" /\ ~a.sound

Trip(points, a) == Sampled(Rows(points, a), a.interval)

\* The response of the gRPC adapter
GetTrip(points, a) ==
    CASE a.filter = "bbox" -> [status |-> "UNIMPLEMENTED", points |-> <<>>]
      [] a.filter # "bbox" /\ Refuses(a) -> [status |-> "INVALID_ARGUMENT", points |-> <<>>]
      [] OTHER -> [status |-> "OK", points |-> Trip(points, a)]
-----------------------------------------------------------------------------
(* What a caller may expect, without the order of the code.                *)

\* The points that are asked for and fewer than limit others of them precede.
Window(points, a) ==
    LET asked == {p \in points : Asked(p, a)}
    IN  {p \in asked : Cardinality({q \in asked : Before(q, p)}) < a.limit}

\* Of each interval the earliest point
FirstOfEach(S, n) == {p \in S : \A q \in S : Before(q, p) => q.t \div n # p.t \div n}

\* A trip tells of every interval that has a point in the window exactly once, by
\* its earliest point, and in the order of time; without an interval it is the
\* window.
TripIsThinned(points, a) ==
    LET r == GetTrip(points, a).points
        w == Window(points, a)
    IN  GetTrip(points, a).status = "OK" =>
        /\ Range(r) = IF a.interval <= 0 THEN w ELSE FirstOfEach(w, a.interval)
        /\ \A i, j \in DOMAIN r : i < j => Before(r[i], r[j])

EveryTripIsThinned ==
    \A points \in SUBSET History, a \in TripAsks : TripIsThinned(points, a)
=============================================================================
