------------------------------- MODULE MCQuery -------------------------------
(***************************************************************************)
(* Small instances of Query, and of the trips it extends, for TLC.          *)
(***************************************************************************)
EXTENDS Query, TLC

CONSTANTS w1, d1, d2

\* d1 moves and the other device stands or falls silent.
MCHandles == w1 :> {d1}
MCId == d1 :> 1 @@ d2 :> 2

MCCells == {<<0, 0>>, <<0, 1>>}
MCHere == <<0, 0>>
MCDist == <<0, 0>> :> 1 @@ <<0, 1>> :> 2

\* One place in the answer and a radius over the limit; the default limit, only
\* the nearer cell and only records heard of lately.
MCAsks == {[sound |-> TRUE, radius |-> 3, limit |-> 1, since |-> 0],
           [sound |-> TRUE, radius |-> 1, limit |-> 0, since |-> 2]}

\* A trip of up to five points in three intervals, two of them at one time.
MCPoints == {[t |-> 0, seq |-> 1, near |-> TRUE], [t |-> 1, seq |-> 2, near |-> FALSE],
             [t |-> 2, seq |-> 4, near |-> TRUE], [t |-> 2, seq |-> 3, near |-> TRUE],
             [t |-> 5, seq |-> 5, near |-> TRUE]}

MCTripAsks == [named : BOOLEAN, from : {0, 1}, to : {0, 2, 5}, limit : 0..5, interval : 0..3,
               filter : {"none", "circle", "bbox"}, sound : BOOLEAN]
=============================================================================
