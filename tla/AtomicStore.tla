----------------------------- MODULE AtomicStore -----------------------------
(***************************************************************************)
(* What update_device_state_cas promises a location processor: comparing   *)
(* the sequence number with the record's and setting the record are one    *)
(* step.  An update that is refused met a record as new as itself.         *)
(***************************************************************************)
EXTENDS Naturals

CONSTANTS Devices, Cells, MaxSeq, Writers, None

VARIABLES value,    \* per device: the record readers see, or None
          asked,    \* per writer: the update it waits for, or None
          stored    \* writers whose update has been stored

vars == <<value, asked, stored>>

Updates == [dev : Devices, seq : 1..MaxSeq, cell : Cells]

Init == /\ value = [d \in Devices |-> None]
        /\ asked = [w \in Writers |-> None]
        /\ stored = {}

NewerThanRecord(u) == value[u.dev] = None \/ u.seq > value[u.dev].seq

Ask(w) == /\ asked[w] = None
          /\ \E u \in Updates : asked' = [asked EXCEPT ![w] = u]
          /\ UNCHANGED <<value, stored>>

\* Compare and set
Store(w) == /\ asked[w] # None /\ w \notin stored /\ NewerThanRecord(asked[w])
            /\ value' = [value EXCEPT ![asked[w].dev] =
                            [seq |-> asked[w].seq, cell |-> asked[w].cell]]
            /\ stored' = stored \cup {w}
            /\ UNCHANGED asked

\* The answer: true for an update that was stored, false for one that is not newer
Answer(w) == /\ asked[w] # None
             /\ w \in stored \/ ~NewerThanRecord(asked[w])
             /\ asked' = [asked EXCEPT ![w] = None]
             /\ stored' = stored \ {w}
             /\ UNCHANGED value

\* A writer that died asks again, not knowing how far it came.
AskAgain(w) == /\ asked[w] # None
               /\ stored' = stored \ {w}
               /\ UNCHANGED <<value, asked>>

\* The record's time to live is over.
Lapse(d) == /\ value[d] # None
            /\ value' = [value EXCEPT ![d] = None]
            /\ UNCHANGED <<asked, stored>>

Next == \/ \E w \in Writers : Ask(w) \/ Store(w) \/ Answer(w) \/ AskAgain(w)
        \/ \E d \in Devices : Lapse(d)

Spec == Init /\ [][Next]_vars
=============================================================================
