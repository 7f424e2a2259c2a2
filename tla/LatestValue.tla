---------------------------- MODULE LatestValue ----------------------------
(***************************************************************************)
(* What ingestion promises the readers of the state store: for every       *)
(* device a register that moves up, from one applied event to a newer one, *)
(* until it lapses, and a set of events whose Kafka offset has been given  *)
(* up.  An event is given up only once it, or a newer event of its device, *)
(* has been applied.                                                       *)
(***************************************************************************)
EXTENDS Naturals

CONSTANTS Devices, MaxSeq

VARIABLES latest,   \* per device, the sequence number readers see; 0: none
          applied,  \* events the register has taken
          given     \* events whose redelivery has been waived

vars == <<latest, applied, given>>

Events == [dev : Devices, seq : 1..MaxSeq]

Init == /\ latest = [d \in Devices |-> 0]
        /\ applied = {}
        /\ given = {}

\* The register of one device moves up, to the sequence number of an event.
Apply(e) == /\ e.seq > latest[e.dev]
            /\ latest' = [latest EXCEPT ![e.dev] = e.seq]
            /\ applied' = applied \cup {e}
            /\ UNCHANGED given

\* The register of one device is forgotten: nobody applied an event of d for a
\* time to live.
Lapse(d) == /\ latest[d] > 0
            /\ latest' = [latest EXCEPT ![d] = 0]
            /\ UNCHANGED <<applied, given>>

\* An event may be given up when the register has, or had, caught up with it.
GiveUp(e) == /\ \E a \in applied : a.dev = e.dev /\ a.seq >= e.seq
             /\ given' = given \cup {e}
             /\ UNCHANGED <<latest, applied>>

Next == \/ \E e \in Events : Apply(e) \/ GiveUp(e)
        \/ \E d \in Devices : Lapse(d)

Spec == Init /\ [][Next]_vars
=============================================================================
