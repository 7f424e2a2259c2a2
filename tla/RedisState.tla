----------------------------- MODULE RedisState -----------------------------
(***************************************************************************)
(* RedisClient in the build with hiredis: device records with a time to    *)
(* live, the H3 cell index, update_device_state_cas and                    *)
(* remove_stale_cell_members, one Redis command per step.  A writer is the *)
(* loop of a location processor, which hands an event over again after a   *)
(* crash because its offset was not committed.                             *)
(***************************************************************************)
EXTENDS Naturals, FiniteSets

CONSTANTS Devices, Cells, MaxSeq,
          Writers,
          Handles,     \* per writer, the devices whose events it is handed
          MaxCrashes,  \* bound: crashes of writers
          None

ASSUME RedisAssumption ==
    /\ MaxSeq \in Nat /\ MaxCrashes \in Nat
    /\ Handles \in [Writers -> SUBSET Devices]

Records == [seq : 1..MaxSeq, cell : Cells]
Jobs == [dev : Devices, seq : 1..MaxSeq, cell : Cells]

ASSUME NoneAssumption == None \notin Records \cup Jobs \cup Cells \cup Devices

VARIABLES
    rec,        \* hash dev:{id}: seq and cell, or None
    ttl,        \* whether the hash has an expiry set
    cells,      \* set h3:{cell}: the devices in it
    wpc, job,   \* per writer: where it is, and the event in hand
    cur,        \* per writer: the record update_device_state_cas read
    cpc,        \* the cleaner: where it is
    todo,       \*   cells the scan has still to visit
    visit,      \*   the cell it visits
    members,    \*   members it has still to look up
    victim,     \*   the member it found without a record
    gone,       \* history: devices whose record expired
    crashes

redis == <<rec, ttl, cells>>
writer == <<wpc, job, cur>>
cleaner == <<cpc, todo, visit, members, victim>>
vars == <<redis, writer, cleaner, gone, crashes>>

Init ==
    /\ rec = [d \in Devices |-> None]
    /\ ttl = [d \in Devices |-> FALSE]
    /\ cells = [c \in Cells |-> {}]
    /\ wpc = [w \in Writers |-> "idle"]
    /\ job = [w \in Writers |-> None]
    /\ cur = [w \in Writers |-> None]
    /\ cpc = "idle" /\ todo = {} /\ visit = None /\ members = {} /\ victim = None
    /\ gone = {} /\ crashes = 0

Goto(w, at) == wpc' = [wpc EXCEPT ![w] = at]
-----------------------------------------------------------------------------
(* A writer.                                                               *)

Begin(w) ==
    /\ wpc[w] = "idle"
    /\ \E j \in Jobs : j.dev \in Handles[w] /\ job' = [job EXCEPT ![w] = j]
    /\ Goto(w, "guard")
    /\ UNCHANGED <<redis, cur, cleaner, gone, crashes>>

\* Mutant: an older event passes as well.
NewerIfOther(j) == rec[j.dev] = None \/ j.seq # rec[j.dev].seq

\* Without a record everything is newer.
Newer(j) == rec[j.dev] = None \/ j.seq > rec[j.dev].seq

\* The event is done with: its offset is committed.
Done(w) == /\ Goto(w, "idle")
           /\ job' = [job EXCEPT ![w] = None]
           /\ cur' = [cur EXCEPT ![w] = None]

Guard(w) ==
    /\ wpc[w] = "guard"
    /\ IF Newer(job[w]) THEN Goto(w, "read") /\ UNCHANGED <<job, cur>> ELSE Done(w)
    /\ UNCHANGED <<redis, cleaner, gone, crashes>>

\* Mutant: the move out of the old cell is forgotten.
ReadNoMove(w) ==
    /\ wpc[w] = "read"
    /\ IF Newer(job[w])
       THEN /\ cur' = [cur EXCEPT ![w] = rec[job[w].dev]]
            /\ Goto(w, "hset")
            /\ UNCHANGED job
       ELSE Done(w)
    /\ UNCHANGED <<redis, cleaner, gone, crashes>>

\* HGETALL and the comparison in update_device_state_cas
Read(w) ==
    /\ wpc[w] = "read"
    /\ LET r == rec[job[w].dev] IN
       IF Newer(job[w])
       THEN /\ cur' = [cur EXCEPT ![w] = r]
            /\ Goto(w, IF r # None /\ r.cell # job[w].cell THEN "srem" ELSE "hset")
            /\ UNCHANGED job
       ELSE Done(w)
    /\ UNCHANGED <<redis, cleaner, gone, crashes>>

Srem(w) ==
    /\ wpc[w] = "srem"
    /\ cells' = [cells EXCEPT ![cur[w].cell] = @ \ {job[w].dev}]
    /\ Goto(w, "hset")
    /\ UNCHANGED <<rec, ttl, job, cur, cleaner, gone, crashes>>

\* Mutant: the record gets the number before that of the event.
HsetPrevious(w) ==
    /\ wpc[w] = "hset"
    /\ rec' = [rec EXCEPT ![job[w].dev] = [seq |-> job[w].seq - 1, cell |-> job[w].cell]]
    /\ Goto(w, "expire")
    /\ UNCHANGED <<ttl, cells, job, cur, cleaner, gone, crashes>>

\* HSET leaves the expiry of an existing key alone and gives a new one none.
Hset(w) ==
    /\ wpc[w] = "hset"
    /\ rec' = [rec EXCEPT ![job[w].dev] = [seq |-> job[w].seq, cell |-> job[w].cell]]
    /\ Goto(w, "expire")
    /\ UNCHANGED <<ttl, cells, job, cur, cleaner, gone, crashes>>

\* Mutant: only a record that is new to the writer gets an expiry.
ExpireIfNew(w) ==
    /\ wpc[w] = "expire"
    /\ ttl' = [ttl EXCEPT ![job[w].dev] =
                  IF cur[w] = None THEN rec[job[w].dev] # None ELSE @]
    /\ Goto(w, "sadd")
    /\ UNCHANGED <<rec, cells, job, cur, cleaner, gone, crashes>>

\* EXPIRE has no effect on a key that is gone.
Expire(w) ==
    /\ wpc[w] = "expire"
    /\ ttl' = [ttl EXCEPT ![job[w].dev] = rec[job[w].dev] # None]
    /\ Goto(w, "sadd")
    /\ UNCHANGED <<rec, cells, job, cur, cleaner, gone, crashes>>

Sadd(w) ==
    /\ wpc[w] = "sadd"
    /\ cells' = [cells EXCEPT ![job[w].cell] = @ \cup {job[w].dev}]
    /\ Done(w)
    /\ UNCHANGED <<rec, ttl, cleaner, gone, crashes>>

\* The process dies between two commands; the event is delivered again.
Crash(w) ==
    /\ wpc[w] \notin {"idle", "guard"} /\ crashes < MaxCrashes
    /\ Goto(w, "guard")
    /\ cur' = [cur EXCEPT ![w] = None]
    /\ crashes' = crashes + 1
    /\ UNCHANGED <<redis, job, cleaner, gone>>

\* Redis drops a key whose time to live is over.
TimeToLiveEnds(d) ==
    /\ rec[d] # None /\ ttl[d]
    /\ rec' = [rec EXCEPT ![d] = None]
    /\ ttl' = [ttl EXCEPT ![d] = FALSE]
    /\ gone' = gone \cup {d}
    /\ UNCHANGED <<cells, writer, cleaner, crashes>>
-----------------------------------------------------------------------------
(* The cleaner: remove_stale_cell_members.                                 *)

\* SCAN: an empty set has no key.
Sweep ==
    /\ cpc = "idle"
    /\ todo' = {c \in Cells : cells[c] # {}}
    /\ cpc' = "scan"
    /\ UNCHANGED <<redis, writer, visit, members, victim, gone, crashes>>

\* SMEMBERS
Visit ==
    /\ cpc = "scan" /\ members = {}
    /\ \E c \in todo : /\ visit' = c
                       /\ members' = cells[c]
                       /\ todo' = todo \ {c}
    /\ UNCHANGED <<redis, writer, cpc, victim, gone, crashes>>

\* Mutant: every member is taken for stale.
LookUpAll ==
    /\ cpc = "scan"
    /\ \E d \in members : victim' = d /\ members' = members \ {d}
    /\ cpc' = "srem"
    /\ UNCHANGED <<redis, writer, todo, visit, gone, crashes>>

\* Mutant: no member is taken for stale.
LookUpNone ==
    /\ cpc = "scan"
    /\ \E d \in members : members' = members \ {d}
    /\ UNCHANGED <<redis, writer, cpc, todo, visit, victim, gone, crashes>>

\* HGETALL of one member
LookUp ==
    /\ cpc = "scan"
    /\ \E d \in members :
        /\ members' = members \ {d}
        /\ IF rec[d] = None THEN victim' = d /\ cpc' = "srem"
                            ELSE UNCHANGED <<victim, cpc>>
    /\ UNCHANGED <<redis, writer, todo, visit, gone, crashes>>

RemoveMember ==
    /\ cpc = "srem"
    /\ cells' = [cells EXCEPT ![visit] = @ \ {victim}]
    /\ victim' = None
    /\ cpc' = "scan"
    /\ UNCHANGED <<rec, ttl, writer, todo, visit, members, gone, crashes>>

SweepEnds ==
    /\ cpc = "scan" /\ todo = {} /\ members = {}
    /\ cpc' = "idle"
    /\ visit' = None
    /\ UNCHANGED <<redis, writer, todo, members, victim, gone, crashes>>
-----------------------------------------------------------------------------
Update(w) == \/ Guard(w) \/ Read(w) \/ Srem(w) \/ Hset(w) \/ Expire(w) \/ Sadd(w)

Cleanup == Sweep \/ Visit \/ LookUp \/ RemoveMember \/ SweepEnds

Next == \/ \E w \in Writers : Begin(w) \/ Update(w) \/ Crash(w)
        \/ \E d \in Devices : TimeToLiveEnds(d)
        \/ Cleanup

Spec == Init /\ [][Next]_vars

\* The cleanup worker's thread and the writers' threads are scheduled.
FairSpec == Spec /\ WF_vars(Cleanup) /\ \A w \in Writers : WF_vars(Update(w))
-----------------------------------------------------------------------------
(* Properties.                                                             *)

TypeOK ==
    /\ rec \in [Devices -> Records \cup {None}]
    /\ ttl \in [Devices -> BOOLEAN]
    /\ cells \in [Cells -> SUBSET Devices]
    /\ wpc \in [Writers -> {"idle", "guard", "read", "srem", "hset", "expire", "sadd"}]
    /\ job \in [Writers -> Jobs \cup {None}]
    /\ cur \in [Writers -> Records \cup {None}]
    /\ cpc \in {"idle", "scan", "srem"}
    /\ todo \subseteq Cells /\ visit \in Cells \cup {None}
    /\ members \subseteq Devices /\ victim \in Devices \cup {None}
    /\ gone \subseteq Devices /\ crashes \in Nat

\* I1 of the architecture, as the callers of update_device_state_cas rely on
\* it: the sequence number of a record never decreases while the record lives.
SeqNeverDecreases ==
    [][\A d \in Devices : rec[d] # None /\ rec'[d] # None
                          => rec'[d].seq >= rec[d].seq]_vars

\* "Atomically update device state using CAS on sequence number": although HGETALL,
\* comparison and HSET are commands of their own, an update is stored in one step, and
\* only over an older record or none, and refused only before one as new as itself;
\* crashes, redeliveries and expiries included.
Cas == INSTANCE AtomicStore WITH
           value <- rec, asked <- job,
           stored <- {w \in Writers : wpc[w] \in {"expire", "sadd"}}
CasIsAtomic == Cas!Spec

\* No update of d is under way.
Settled(d) == \A w \in Writers : job[w] = None \/ job[w].dev # d

\* Devices between updates, with a record that never expired, that no search finds.
Missing == {d \in Devices \ gone :
               rec[d] # None /\ Settled(d) /\ d \notin cells[rec[d].cell]}

\* "Each set contains all device_id strings currently located in that H3 cell":
\* whatever the cleaner does, all are but one for each writer that died, between
\* HSET and SADD.
IndexComplete == Cardinality(Missing) <= crashes

\* Between updates a device whose record never expired is in no other set, deaths
\* of writers between any two commands included.
IndexSound ==
    \A d \in Devices \ gone, c \in Cells :
        rec[d] # None /\ Settled(d) /\ d \in cells[c] => rec[d].cell = c

\* Devices between updates whose record has no time to live.
Undying == {d \in Devices : rec[d] # None /\ Settled(d) /\ ~ttl[d]}

\* A device that falls silent disappears, one whose record expired between HSET and
\* EXPIRE included, but for one for each writer that died, between the two.
RecordsExpire == Cardinality(Undying) <= crashes

\* A device whose record expired leaves the index, unless it comes back.
DeadLeaveIndex ==
    \A d \in Devices, c \in Cells : []<>(rec[d] # None \/ d \notin cells[c])
=============================================================================
