-------------------------- MODULE RedisState_proofs --------------------------
(***************************************************************************)
(* Proofs about RedisState, for any devices, cells, writers and numbers of *)
(* crashes.  What needs partition affinity says so.                        *)
(***************************************************************************)
EXTENDS RedisState, FiniteSetTheorems, TLAPS

\* Every device has one writer.
Affinity == \A v, w \in Writers : v # w => Handles[v] \cap Handles[w] = {}

\* A writer that is not idle has an event of a device it handles, and one that
\* leaves a cell knows the record it read.
WriterOK == \A w \in Writers :
    /\ wpc[w] = "idle" => job[w] = None
    /\ wpc[w] # "idle" => job[w] \in Jobs /\ job[w].dev \in Handles[w]
    /\ wpc[w] = "srem" => cur[w] \in Records

\* The cleaner removes a device, from a cell it visits.
CleanerOK == /\ members # {} => visit \in Cells
             /\ cpc = "srem" => victim \in Devices /\ visit \in Cells

TypeInv == TypeOK /\ WriterOK /\ CleanerOK

LEMMA TypeInit == Init => TypeInv
  BY RedisAssumption DEF Init, TypeInv, TypeOK, WriterOK, CleanerOK

LEMMA RecordIsNotNone == /\ None \notin Jobs /\ None \notin Records
                         /\ \A j \in Jobs : j.dev \in Devices /\ j.cell \in Cells
                                            /\ j.seq \in 1..MaxSeq
                         /\ \A j \in Jobs : [seq |-> j.seq, cell |-> j.cell] \in Records
  BY NoneAssumption DEF Jobs, Records

LEMMA TypeNext == TypeInv /\ [Next]_vars => TypeInv'
<1> SUFFICES ASSUME TypeInv, [Next]_vars PROVE TypeInv'
  OBVIOUS
<1> USE RedisAssumption, RecordIsNotNone
    DEF TypeInv, TypeOK, WriterOK, CleanerOK, Goto, redis, writer, cleaner
<1>1. ASSUME NEW w \in Writers, Begin(w) PROVE TypeInv'
  BY <1>1 DEF Begin
<1>2. ASSUME NEW w \in Writers, Guard(w) PROVE TypeInv'
  BY <1>2 DEF Guard, Done
<1>3. ASSUME NEW w \in Writers, Read(w) PROVE TypeInv'
  BY <1>3 DEF Read, Done
<1>4. ASSUME NEW w \in Writers, Srem(w) PROVE TypeInv'
  BY <1>4 DEF Srem
<1>5. ASSUME NEW w \in Writers, Hset(w) PROVE TypeInv'
  BY <1>5 DEF Hset
<1>6. ASSUME NEW w \in Writers, Expire(w) PROVE TypeInv'
  BY <1>6 DEF Expire
<1>7. ASSUME NEW w \in Writers, Sadd(w) PROVE TypeInv'
  BY <1>7 DEF Sadd, Done
<1>8. ASSUME NEW w \in Writers, Crash(w) PROVE TypeInv'
  BY <1>8 DEF Crash
<1>9. ASSUME NEW d \in Devices, TimeToLiveEnds(d) PROVE TypeInv'
  BY <1>9 DEF TimeToLiveEnds
<1>10. CASE Sweep
  BY <1>10 DEF Sweep
<1>11. CASE Visit
  BY <1>11 DEF Visit
<1>12. CASE LookUp
  BY <1>12 DEF LookUp
<1>13. CASE RemoveMember
  BY <1>13 DEF RemoveMember
<1>14. CASE SweepEnds
  BY <1>14 DEF SweepEnds
<1>15. CASE UNCHANGED vars
  BY <1>15 DEF vars
<1>. QED
  BY <1>1, <1>2, <1>3, <1>4, <1>5, <1>6, <1>7, <1>8, <1>9, <1>10, <1>11, <1>12,
     <1>13, <1>14, <1>15 DEF Next, Update, Cleanup

LEMMA TypeInvariant == Spec => []TypeInv
  BY TypeInit, TypeNext, PTL DEF Spec

\* The records, the index and the threads are well typed in every reachable
\* state.
THEOREM TypeCorrect == Spec => []TypeOK
  BY TypeInvariant, PTL DEF TypeInv
-----------------------------------------------------------------------------
(* The sequence numbers.                                                   *)

\* What a writer is about to store is newer than the record.
LeadOK == \A w \in Writers :
    wpc[w] \in {"srem", "hset"} =>
        rec[job[w].dev] = None \/ job[w].seq > rec[job[w].dev].seq

LEMMA Disjoint ==
  ASSUME Affinity, TypeInv, NEW v \in Writers, NEW w \in Writers, v # w,
         wpc[v] # "idle", wpc[w] # "idle"
  PROVE  job[v].dev # job[w].dev
  BY DEF Affinity, TypeInv, WriterOK

LEMMA LeadNext ==
  ASSUME Affinity, TypeInv, LeadOK, [Next]_vars
  PROVE  LeadOK'
<1> USE NoneAssumption DEF LeadOK, TypeInv, TypeOK, Goto, redis, writer, cleaner
<1>1. ASSUME NEW w \in Writers, Read(w) PROVE LeadOK'
  BY <1>1 DEF Read, Newer, Done
<1>2. ASSUME NEW w \in Writers, Hset(w) PROVE LeadOK'
  <2>1. /\ wpc' = [wpc EXCEPT ![w] = "expire"] /\ UNCHANGED job
        /\ \A d \in Devices \ {job[w].dev} : rec'[d] = rec[d]
    BY <1>2 DEF Hset
  <2>2. \A v \in Writers : v # w /\ wpc[v] \in {"srem", "hset"}
             => job[v].dev \in Devices \ {job[w].dev}
    BY <1>2, Disjoint, RecordIsNotNone DEF Hset, WriterOK
  <2>. QED BY <2>1, <2>2
<1>3. ASSUME NEW w \in Writers, \/ Begin(w) \/ Guard(w) \/ Srem(w) \/ Expire(w)
                                \/ Sadd(w) \/ Crash(w)
      PROVE  LeadOK'
  BY <1>3 DEF Begin, Guard, Srem, Expire, Sadd, Crash, Done
<1>4. ASSUME NEW d \in Devices, TimeToLiveEnds(d) PROVE LeadOK'
  BY <1>4 DEF TimeToLiveEnds
<1>5. Cleanup \/ UNCHANGED vars => LeadOK'
  BY DEF Cleanup, Sweep, Visit, LookUp, RemoveMember, SweepEnds, vars
<1>. QED BY <1>1, <1>2, <1>3, <1>4, <1>5 DEF Next, Update

\* With one writer per device, HGETALL, comparison and HSET being three
\* commands, the sequence number of a living record still never decreases.
THEOREM SequenceKept == ASSUME Affinity PROVE Spec => SeqNeverDecreases
<1>1. Init => LeadOK
  BY DEF Init, LeadOK
<1>2. TypeInv /\ LeadOK /\ [Next]_vars => LeadOK'
  BY LeadNext
<1>3. ASSUME TypeInv, LeadOK, [Next]_vars,
             NEW d \in Devices, rec[d] # None, rec'[d] # None
      PROVE  rec'[d].seq >= rec[d].seq
  <2> USE DEF TypeInv, TypeOK, redis
  <2>1. ASSUME NEW w \in Writers, Hset(w) PROVE rec'[d].seq >= rec[d].seq
    <3>1. CASE d = job[w].dev
      <4>1. rec'[d].seq = job[w].seq /\ job[w].seq > rec[d].seq
        BY <1>3, <2>1, <3>1 DEF Hset, LeadOK
      <4>2. job[w].seq \in Nat /\ rec[d].seq \in Nat
        BY <1>3, <2>1, RecordIsNotNone, RedisAssumption DEF Hset, WriterOK, Records
      <4>. QED BY <4>1, <4>2
    <3>2. CASE d # job[w].dev
      BY <1>3, <2>1, <3>2, RedisAssumption DEF Hset, Records
    <3>. QED BY <3>1, <3>2
  <2>2. ASSUME NEW c \in Devices, TimeToLiveEnds(c) PROVE rec'[d].seq >= rec[d].seq
    BY <1>3, <2>2, RedisAssumption DEF TimeToLiveEnds, Records
  <2>3. ASSUME UNCHANGED rec PROVE rec'[d].seq >= rec[d].seq
    BY <1>3, <2>3, RedisAssumption DEF Records
  <2>4. \/ UNCHANGED rec \/ \E w \in Writers : Hset(w)
        \/ \E c \in Devices : TimeToLiveEnds(c)
    BY <1>3, Zenon DEF Next, Update, Begin, Guard, Read, Srem, Expire, Sadd, Crash, Cleanup,
       Sweep, Visit, LookUp, RemoveMember, SweepEnds, vars
  <2>. QED BY <2>1, <2>2, <2>3, <2>4
<1>4. TypeInv /\ LeadOK /\ [Next]_vars
      => [\A d \in Devices : rec[d] # None /\ rec'[d] # None
                             => rec'[d].seq >= rec[d].seq]_vars
  BY <1>3
<1>. QED BY TypeInvariant, <1>1, <1>2, <1>4, PTL DEF Spec, SeqNeverDecreases

\* What each command is to AtomicStore: HSET the compare and set, the refusals of the
\* guard, of the comparison and the return after SADD the answer, the rest a stutter.
LEMMA CasNext ==
  ASSUME Affinity, TypeInv, LeadOK, [Next]_vars
  PROVE  [Cas!Next]_(Cas!vars)
<1> USE NoneAssumption DEF TypeInv, TypeOK, Goto, redis, writer, cleaner
<1> DEFINE St == {w \in Writers : wpc[w] \in {"expire", "sadd"}}
<1>1. ASSUME NEW w \in Writers, Begin(w) PROVE Cas!Ask(w)
  <2>1. PICK j \in Jobs : job' = [job EXCEPT ![w] = j]
    BY <1>1 DEF Begin
  <2>2. job[w] = None /\ UNCHANGED <<rec>>
    BY <1>1 DEF Begin, WriterOK
  <2>3. UNCHANGED St
    BY <1>1 DEF Begin
  <2>. QED BY <2>1, <2>2, <2>3 DEF Cas!Ask, Cas!Updates, Jobs
<1>2. ASSUME NEW w \in Writers, Guard(w) \/ Read(w)
      PROVE  Cas!Answer(w) \/ UNCHANGED Cas!vars
  <2>1. job[w] \in Jobs /\ job[w] # None /\ wpc[w] \in {"guard", "read"} /\ UNCHANGED rec
    BY <1>2, RecordIsNotNone DEF Guard, Read, WriterOK
  <2>2. CASE Newer(job[w])
    <3>1. UNCHANGED job
      BY <1>2, <2>2 DEF Guard, Read
    <3>2. UNCHANGED St
      BY <1>2, <2>2 DEF Guard, Read
    <3>. QED BY <2>1, <3>1, <3>2 DEF Cas!vars
  <2>3. CASE ~Newer(job[w])
    <3>1. job' = [job EXCEPT ![w] = None] /\ wpc' = [wpc EXCEPT ![w] = "idle"]
      BY <1>2, <2>3 DEF Guard, Read, Done
    <3>2. St' = St \ {w}
      BY <2>1, <3>1
    <3>3. ~Cas!NewerThanRecord(job[w])
      BY <2>3 DEF Newer, Cas!NewerThanRecord
    <3>. QED BY <2>1, <3>1, <3>2, <3>3 DEF Cas!Answer
  <2>. QED BY <2>2, <2>3
<1>3. ASSUME NEW w \in Writers, Srem(w) \/ Expire(w) PROVE UNCHANGED Cas!vars
  <2>1. UNCHANGED <<rec, job>>
    BY <1>3 DEF Srem, Expire
  <2>2. UNCHANGED St
    BY <1>3 DEF Srem, Expire
  <2>. QED BY <2>1, <2>2 DEF Cas!vars
<1>4. ASSUME NEW w \in Writers, Hset(w) PROVE Cas!Store(w)
  <2>1. job[w] # None /\ w \notin St /\ Cas!NewerThanRecord(job[w])
    BY <1>4, RecordIsNotNone DEF Hset, WriterOK, LeadOK, Cas!NewerThanRecord
  <2>2. St' = St \cup {w}
    BY <1>4 DEF Hset
  <2>3. /\ rec' = [rec EXCEPT ![job[w].dev] = [seq |-> job[w].seq, cell |-> job[w].cell]]
        /\ UNCHANGED job
    BY <1>4 DEF Hset
  <2>. QED BY <2>1, <2>2, <2>3 DEF Cas!Store
<1>5. ASSUME NEW w \in Writers, Sadd(w) PROVE Cas!Answer(w)
  <2>1. job[w] # None /\ w \in St
    BY <1>5, RecordIsNotNone DEF Sadd, WriterOK
  <2>2. St' = St \ {w}
    BY <1>5 DEF Sadd, Done
  <2>3. job' = [job EXCEPT ![w] = None] /\ UNCHANGED rec
    BY <1>5 DEF Sadd, Done
  <2>. QED BY <2>1, <2>2, <2>3 DEF Cas!Answer
<1>6. ASSUME NEW w \in Writers, Crash(w) PROVE Cas!AskAgain(w)
  <2>1. job[w] # None /\ UNCHANGED <<rec, job>>
    BY <1>6, RecordIsNotNone DEF Crash, WriterOK
  <2>2. St' = St \ {w}
    BY <1>6 DEF Crash
  <2>. QED BY <2>1, <2>2 DEF Cas!AskAgain
<1>7. ASSUME NEW d \in Devices, TimeToLiveEnds(d) PROVE Cas!Lapse(d)
  BY <1>7 DEF TimeToLiveEnds, Cas!Lapse
<1>8. Cleanup \/ UNCHANGED vars => UNCHANGED Cas!vars
  BY DEF Cleanup, Sweep, Visit, LookUp, RemoveMember, SweepEnds, vars, Cas!vars
<1>. QED BY <1>1, <1>2, <1>3, <1>4, <1>5, <1>6, <1>7, <1>8 DEF Next, Update, Cas!Next

\* With one writer per device the commands of update_device_state_cas implement a
\* compare and set in one step, over crashes, redeliveries and expiries.
THEOREM CasImplemented == ASSUME Affinity PROVE Spec => CasIsAtomic
<1>1. Init => LeadOK /\ Cas!Init
  BY DEF Init, LeadOK, Cas!Init
<1>2. TypeInv /\ LeadOK /\ [Next]_vars => LeadOK' /\ [Cas!Next]_(Cas!vars)
  BY LeadNext, CasNext
<1>. QED BY TypeInvariant, <1>1, <1>2, PTL DEF Spec, CasIsAtomic, Cas!Spec
-----------------------------------------------------------------------------
(* The times to live.                                                      *)

AtMost(S, n) == IsFiniteSet(S) /\ Cardinality(S) <= n

LEMMA AtMostStays ==
  ASSUME NEW S, NEW T, NEW n \in Nat, AtMost(S, n), T \subseteq S
  PROVE  AtMost(T, n)
<1>1. IsFiniteSet(T) /\ Cardinality(T) <= Cardinality(S)
  BY FS_Subset DEF AtMost
<1>2. Cardinality(S) \in Nat /\ Cardinality(T) \in Nat
  BY <1>1, FS_CardinalityType DEF AtMost
<1>. QED BY <1>1, <1>2 DEF AtMost

LEMMA AtMostOneMore ==
  ASSUME NEW S, NEW T, NEW n \in Nat, NEW x, AtMost(S, n), T \subseteq S \cup {x}
  PROVE  AtMost(T, n + 1)
<1>1. /\ IsFiniteSet(S \cup {x})
      /\ Cardinality(S \cup {x}) = Cardinality(S) \/ Cardinality(S \cup {x}) = Cardinality(S) + 1
  BY FS_AddElement DEF AtMost
<1>2. Cardinality(S) \in Nat
  BY FS_CardinalityType DEF AtMost
<1>3. AtMost(S \cup {x}, n + 1)
  BY <1>1, <1>2 DEF AtMost
<1>. QED BY <1>3, AtMostStays

\* Only a death counts.
LEMMA CrashesKept ==
  ASSUME [Next]_vars
  PROVE  UNCHANGED crashes \/ \E w \in Writers : Crash(w)
  BY DEF Next, Update, Begin, Guard, Read, Srem, Hset, Expire, Sadd, TimeToLiveEnds,
     Cleanup, Sweep, Visit, LookUp, RemoveMember, SweepEnds, vars

\* A record with an expiry, or about to get one.
Expiring(d) ==
    rec[d] # None => ttl[d] \/ \E w \in Writers : wpc[w] = "expire" /\ job[w].dev = d

\* The records whose writer died before their EXPIRE.
Forgotten == {d \in Devices : ~Expiring(d)}

LEMMA ExpiringStays ==
  ASSUME TypeInv, [Next]_vars, NEW d \in Devices, Expiring(d),
         \A w \in Writers : Crash(w) => job[w].dev # d
  PROVE  Expiring(d)'
<1> USE NoneAssumption DEF Expiring, TypeInv, TypeOK, Goto, redis, writer, cleaner
<1>1. ASSUME NEW w \in Writers, Begin(w) \/ Guard(w) \/ Read(w) \/ Srem(w) \/ Sadd(w)
      PROVE  Expiring(d)'
  <2>1. /\ UNCHANGED <<rec, ttl>> /\ wpc[w] # "expire"
        /\ \A v \in Writers \ {w} : wpc'[v] = wpc[v] /\ job'[v] = job[v]
    BY <1>1 DEF Begin, Guard, Read, Srem, Sadd, Done
  <2>. QED BY <2>1
<1>2. ASSUME NEW w \in Writers, Hset(w) PROVE Expiring(d)'
  BY <1>2 DEF Hset
<1>3. ASSUME NEW w \in Writers, Expire(w) PROVE Expiring(d)'
  BY <1>3 DEF Expire
<1>4. ASSUME NEW w \in Writers, Crash(w) PROVE Expiring(d)'
  BY <1>4 DEF Crash
<1>5. ASSUME NEW c \in Devices, TimeToLiveEnds(c) PROVE Expiring(d)'
  BY <1>5 DEF TimeToLiveEnds
<1>6. Cleanup \/ UNCHANGED vars => Expiring(d)'
  BY DEF Cleanup, Sweep, Visit, LookUp, RemoveMember, SweepEnds, vars
<1>. QED BY <1>1, <1>2, <1>3, <1>4, <1>5, <1>6 DEF Next, Update

\* A death leaves one device more without what the next step would have given it,
\* every other step none: how far a set of devices grows.
GrowsByCrash(S, T) ==
    \/ UNCHANGED crashes /\ T \subseteq S
    \/ crashes' = crashes + 1 /\ \E x : T \subseteq S \cup {x}

LEMMA CountedCrashes ==
  ASSUME NEW S, NEW T, crashes \in Nat, AtMost(S, crashes), GrowsByCrash(S, T)
  PROVE  AtMost(T, crashes')
<1>1. CASE UNCHANGED crashes /\ T \subseteq S
  BY <1>1, AtMostStays
<1>2. CASE crashes' = crashes + 1 /\ \E x : T \subseteq S \cup {x}
  <2>1. PICK x : T \subseteq S \cup {x}
    BY <1>2
  <2>. QED BY <1>2, <2>1, AtMostOneMore
<1>. QED BY <1>1, <1>2 DEF GrowsByCrash

LEMMA ExpiryNext ==
  ASSUME TypeInv, AtMost(Forgotten, crashes), [Next]_vars
  PROVE  AtMost(Forgotten, crashes)'
<1>1. crashes \in Nat
  BY DEF TypeInv, TypeOK
<1>2. GrowsByCrash(Forgotten, Forgotten')
  <2>1. CASE \A w \in Writers : ~Crash(w)
    <3>1. Forgotten' \subseteq Forgotten
      BY <2>1, ExpiringStays DEF Forgotten
    <3>. QED BY <2>1, <3>1, CrashesKept DEF GrowsByCrash
  <2>2. ASSUME NEW w \in Writers, Crash(w) PROVE GrowsByCrash(Forgotten, Forgotten')
    <3>1. UNCHANGED <<rec, ttl, job>> /\ crashes' = crashes + 1
          /\ \A v \in Writers \ {w} : wpc'[v] = wpc[v]
      BY <2>2 DEF Crash, Goto, redis, TypeInv, TypeOK
    <3>2. PICK x : x = job[w].dev
      OBVIOUS
    <3>3. Forgotten' \subseteq Forgotten \cup {x}
      BY <3>1, <3>2 DEF Forgotten, Expiring
    <3>. QED BY <3>1, <3>3 DEF GrowsByCrash
  <2>. QED BY <2>1, <2>2
<1>3. AtMost(Forgotten', crashes')
  BY <1>1, <1>2, CountedCrashes
<1>. QED BY <1>3 DEF AtMost

\* Every record between two updates has an expiry, although HSET and EXPIRE are two
\* commands and a key may expire between them, but for one for each writer that died.
THEOREM EveryRecordExpires == Spec => []RecordsExpire
<1>1. Init => AtMost(Forgotten, crashes)
  <2>. SUFFICES ASSUME Init PROVE AtMost(Forgotten, crashes)
    OBVIOUS
  <2>1. Forgotten = {}
    BY DEF Init, Forgotten, Expiring
  <2>. QED BY <2>1, FS_EmptySet DEF Init, AtMost
<1>2. TypeInv /\ AtMost(Forgotten, crashes) /\ [Next]_vars => AtMost(Forgotten, crashes)'
  BY ExpiryNext
<1>3. TypeInv /\ AtMost(Forgotten, crashes) => RecordsExpire
  <2>. SUFFICES ASSUME TypeInv, AtMost(Forgotten, crashes) PROVE RecordsExpire
    OBVIOUS
  <2>1. ASSUME NEW w \in Writers, wpc[w] = "expire" PROVE job[w] # None
    BY <2>1, RecordIsNotNone DEF TypeInv, WriterOK
  <2>2. Undying \subseteq Forgotten
    BY <2>1 DEF Undying, Forgotten, Expiring, Settled
  <2>3. AtMost(Undying, crashes)
    BY <2>2, AtMostStays DEF TypeInv, TypeOK
  <2>. QED BY <2>3 DEF RecordsExpire, AtMost
<1>. QED BY TypeInvariant, <1>1, <1>2, <1>3, PTL DEF Spec
-----------------------------------------------------------------------------
(* The index, for the devices whose record never expired.                  *)

\* A device in the set of a cell has a record there, whoever writes; a writer
\* knows the cell it leaves, and is about to add the device to the right one.
SoundOK ==
    /\ \A d \in Devices \ gone, c \in Cells : d \in cells[c] => rec[d] # None /\ rec[d].cell = c
    /\ \A w \in Writers : job[w] \in Jobs /\ job[w].dev \notin gone =>
        /\ wpc[w] = "srem" => cur[w] = rec[job[w].dev]
        /\ wpc[w] = "hset" => \A c \in Cells : job[w].dev \in cells[c] => c = job[w].cell
        /\ wpc[w] \in {"expire", "sadd"} => /\ rec[job[w].dev] # None
                                            /\ rec[job[w].dev].cell = job[w].cell

LEMMA SoundNext ==
  ASSUME Affinity, TypeInv, SoundOK, [Next]_vars
  PROVE  SoundOK'
<1> USE NoneAssumption DEF SoundOK, TypeInv, TypeOK, Goto, redis, writer, cleaner
<1>1. ASSUME NEW w \in Writers, Begin(w) \/ Guard(w) \/ Crash(w) PROVE SoundOK'
  <2>1. /\ UNCHANGED <<rec, cells, gone>>
        /\ wpc'[w] \in {"idle", "guard", "read"}
        /\ \A v \in Writers \ {w} : wpc'[v] = wpc[v] /\ job'[v] = job[v] /\ cur'[v] = cur[v]
    BY <1>1 DEF Begin, Guard, Crash, Done
  <2>. QED BY <2>1
<1>2. ASSUME NEW w \in Writers, Read(w) PROVE SoundOK'
  <2>1. /\ UNCHANGED <<rec, cells, gone>>
        /\ \A v \in Writers \ {w} : wpc'[v] = wpc[v] /\ job'[v] = job[v] /\ cur'[v] = cur[v]
    BY <1>2 DEF Read, Done
  <2>2. \/ wpc'[w] = "idle"
        \/ wpc'[w] = "srem" /\ cur'[w] = rec[job'[w].dev]
        \/ /\ wpc'[w] = "hset" /\ job'[w] \in Jobs
           /\ rec[job'[w].dev] = None \/ rec[job'[w].dev].cell = job'[w].cell
    <3>1. CASE Newer(job[w])
      BY <1>2, <3>1 DEF Read, WriterOK
    <3>2. CASE ~Newer(job[w])
      BY <1>2, <3>2 DEF Read, Done
    <3>. QED BY <3>1, <3>2
  <2>. QED BY <2>1, <2>2, RecordIsNotNone
<1>3. ASSUME NEW w \in Writers, Srem(w) PROVE SoundOK'
  BY <1>3 DEF Srem
<1>4. ASSUME NEW w \in Writers, Hset(w) PROVE SoundOK'
  BY <1>4, Disjoint, RecordIsNotNone DEF Hset, WriterOK
<1>5. ASSUME NEW w \in Writers, Expire(w) PROVE SoundOK'
  BY <1>5 DEF Expire
<1>6. ASSUME NEW w \in Writers, Sadd(w) PROVE SoundOK'
  BY <1>6, Disjoint, RecordIsNotNone DEF Sadd, Done, WriterOK
<1>7. ASSUME NEW d \in Devices, TimeToLiveEnds(d) PROVE SoundOK'
  BY <1>7 DEF TimeToLiveEnds
<1>8. CASE Sweep \/ Visit \/ LookUp \/ SweepEnds \/ UNCHANGED vars
  BY <1>8 DEF Sweep, Visit, LookUp, SweepEnds, vars
<1>9. CASE RemoveMember
  BY <1>9 DEF RemoveMember
<1>. QED BY <1>1, <1>2, <1>3, <1>4, <1>5, <1>6, <1>7, <1>8, <1>9 DEF Next, Update, Cleanup

LEMMA SoundInvariant == ASSUME Affinity PROVE Spec => [](TypeInv /\ SoundOK)
<1>1. Init => SoundOK
  BY NoneAssumption DEF Init, SoundOK
<1>2. TypeInv /\ SoundOK /\ [Next]_vars => SoundOK'
  BY SoundNext
<1>. QED BY TypeInvariant, <1>1, <1>2, PTL DEF Spec

\* With one writer per device, a device whose record never expired is in the set
\* of no cell but its own, crashes between any two commands included.
THEOREM IndexIsSound == ASSUME Affinity PROVE Spec => []IndexSound
<1>1. SoundOK => IndexSound
  BY DEF SoundOK, IndexSound
<1>. QED BY <1>1, SoundInvariant, PTL

\* The cleaner looks up members that have no record only when it expired.
VictimOK ==
    /\ \A d \in members \ gone : rec[d] # None
    /\ cpc = "srem" => victim \in gone

\* A device in its set, or that a writer at work has out of it.
Indexed(d) ==
    rec[d] # None =>
        \/ d \in cells[rec[d].cell]
        \/ \E w \in Writers : job[w] \in Jobs /\ job[w].dev = d
                              /\ wpc[w] \in {"hset", "expire", "sadd"}

\* The devices whose writer died before their SADD.
Unlisted == {d \in Devices \ gone : ~Indexed(d)}

CompleteOK == VictimOK /\ AtMost(Unlisted, crashes)

LEMMA VictimNext ==
  ASSUME TypeInv, SoundOK, VictimOK, [Next]_vars
  PROVE  VictimOK'
<1> USE NoneAssumption DEF VictimOK, TypeInv, TypeOK, Goto, redis, writer, cleaner
<1>1. ASSUME NEW w \in Writers, \/ Begin(w) \/ Guard(w) \/ Read(w) \/ Srem(w)
                                \/ Expire(w) \/ Sadd(w) \/ Crash(w)
      PROVE  VictimOK'
  BY <1>1 DEF Begin, Guard, Read, Srem, Expire, Sadd, Crash, Done
<1>2. ASSUME NEW w \in Writers, Hset(w) PROVE VictimOK'
  BY <1>2, RecordIsNotNone DEF Hset, WriterOK
<1>3. ASSUME NEW d \in Devices, TimeToLiveEnds(d) PROVE VictimOK'
  BY <1>3 DEF TimeToLiveEnds
<1>4. CASE Cleanup \/ UNCHANGED vars
  BY <1>4 DEF Cleanup, Sweep, Visit, LookUp, RemoveMember, SweepEnds, vars, SoundOK
<1>. QED BY <1>1, <1>2, <1>3, <1>4 DEF Next, Update

LEMMA IndexedStays ==
  ASSUME Affinity, TypeInv, SoundOK, VictimOK, [Next]_vars,
         NEW d \in Devices \ gone, Indexed(d),
         \A w \in Writers : Crash(w) => job[w].dev # d
  PROVE  d \in gone' \/ Indexed(d)'
<1> USE NoneAssumption DEF Indexed, TypeInv, TypeOK, Goto, redis, writer, cleaner
<1>1. ASSUME NEW w \in Writers, Begin(w) \/ Guard(w) \/ Read(w) PROVE Indexed(d)'
  <2>1. /\ UNCHANGED <<rec, cells>>
        /\ wpc[w] \in {"idle", "guard", "read"}
        /\ \A v \in Writers \ {w} : wpc'[v] = wpc[v] /\ job'[v] = job[v]
    BY <1>1 DEF Begin, Guard, Read, Done
  <2>. QED BY <2>1
<1>2. ASSUME NEW w \in Writers, Srem(w) PROVE Indexed(d)'
  BY <1>2 DEF Srem, WriterOK
<1>3. ASSUME NEW w \in Writers, Hset(w) PROVE Indexed(d)'
  BY <1>3, RecordIsNotNone DEF Hset, WriterOK
<1>4. ASSUME NEW w \in Writers, Expire(w) PROVE Indexed(d)'
  BY <1>4 DEF Expire
<1>5. ASSUME NEW w \in Writers, Sadd(w) PROVE Indexed(d)'
  <2>1. job[w] \in Jobs /\ (job[w].dev \notin gone => rec[job[w].dev].cell = job[w].cell)
    BY <1>5 DEF Sadd, WriterOK, SoundOK
  <2>2. /\ UNCHANGED rec
        /\ \A v \in Writers \ {w} : wpc'[v] = wpc[v] /\ job'[v] = job[v]
        /\ job[w].dev \in cells'[job[w].cell]
        /\ \A c \in Cells : cells[c] \subseteq cells'[c]
    BY <1>5, <2>1, RecordIsNotNone DEF Sadd, Done
  <2>3. rec[d] # None => rec[d].cell \in Cells
    BY DEF Records
  <2>. QED BY <2>1, <2>2, <2>3
<1>6. ASSUME NEW w \in Writers, Crash(w) PROVE Indexed(d)'
  BY <1>6 DEF Crash
<1>7. ASSUME NEW c \in Devices, TimeToLiveEnds(c) PROVE d \in gone' \/ Indexed(d)'
  BY <1>7 DEF TimeToLiveEnds
<1>8. CASE Sweep \/ Visit \/ LookUp \/ SweepEnds \/ UNCHANGED vars
  BY <1>8 DEF Sweep, Visit, LookUp, SweepEnds, vars
<1>9. CASE RemoveMember
  BY <1>9 DEF RemoveMember, VictimOK
<1>. QED BY <1>1, <1>2, <1>3, <1>4, <1>5, <1>6, <1>7, <1>8, <1>9 DEF Next, Update, Cleanup

LEMMA GoneStays == ASSUME [Next]_vars PROVE gone \subseteq gone'
  BY DEF Next, Update, Begin, Guard, Read, Srem, Hset, Expire, Sadd, Crash, TimeToLiveEnds,
     Cleanup, Sweep, Visit, LookUp, RemoveMember, SweepEnds, vars

LEMMA CompleteNext ==
  ASSUME Affinity, TypeInv, SoundOK, CompleteOK, [Next]_vars
  PROVE  CompleteOK'
<1>1. crashes \in Nat
  BY DEF TypeInv, TypeOK
<1>2. GrowsByCrash(Unlisted, Unlisted')
  <2>1. CASE \A w \in Writers : ~Crash(w)
    <3>1. \A d \in Devices \ gone : Indexed(d) => d \in gone' \/ Indexed(d)'
      BY <2>1, IndexedStays DEF CompleteOK
    <3>2. Unlisted' \subseteq Unlisted
      BY <3>1, GoneStays DEF Unlisted
    <3>. QED BY <2>1, <3>2, CrashesKept DEF GrowsByCrash
  <2>2. ASSUME NEW w \in Writers, Crash(w) PROVE GrowsByCrash(Unlisted, Unlisted')
    <3>1. UNCHANGED <<rec, cells, gone, job>> /\ crashes' = crashes + 1
          /\ \A v \in Writers \ {w} : wpc'[v] = wpc[v]
      BY <2>2 DEF Crash, Goto, redis, TypeInv, TypeOK
    <3>2. PICK x : x = job[w].dev
      OBVIOUS
    <3>3. Unlisted' \subseteq Unlisted \cup {x}
      BY <3>1, <3>2 DEF Unlisted, Indexed
    <3>. QED BY <3>1, <3>3 DEF GrowsByCrash
  <2>. QED BY <2>1, <2>2
<1>3. AtMost(Unlisted', crashes')
  BY <1>1, <1>2, CountedCrashes DEF CompleteOK
<1>. QED BY <1>3, VictimNext DEF CompleteOK, AtMost

\* With one writer per device, a device between two updates whose record never
\* expired is in the set of its cell, whatever the cleanup worker does meanwhile,
\* but for one device for each writer that died.
THEOREM IndexIsComplete == ASSUME Affinity PROVE Spec => []IndexComplete
<1>1. Init => CompleteOK
  <2>. SUFFICES ASSUME Init PROVE CompleteOK
    OBVIOUS
  <2>1. Unlisted = {}
    BY DEF Init, Unlisted, Indexed
  <2>. QED BY <2>1, FS_EmptySet DEF Init, AtMost, CompleteOK, VictimOK
<1>2. TypeInv /\ SoundOK /\ CompleteOK /\ [Next]_vars => CompleteOK'
  BY CompleteNext
<1>3. TypeInv /\ CompleteOK => IndexComplete
  <2>. SUFFICES ASSUME TypeInv, CompleteOK PROVE IndexComplete
    OBVIOUS
  <2>1. Missing \subseteq Unlisted
    BY NoneAssumption DEF Missing, Unlisted, Indexed, Settled
  <2>2. AtMost(Missing, crashes)
    BY <2>1, AtMostStays DEF CompleteOK, TypeInv, TypeOK
  <2>. QED BY <2>2 DEF IndexComplete, AtMost
<1>. QED BY SoundInvariant, <1>1, <1>2, <1>3, PTL DEF Spec
=============================================================================
