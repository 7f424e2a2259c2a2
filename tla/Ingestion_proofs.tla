-------------------------- MODULE Ingestion_proofs --------------------------
(***************************************************************************)
(* Proofs about Ingestion, for any devices, processes, batch and window    *)
(* sizes, crashes and stops.                                               *)
(***************************************************************************)
EXTENDS Ingestion, SequenceTheorems, TLAPS

USE DEF PC, Live, procVars, storeVars, ghostVars, countVars

\* What a process has in hand where, and that the owner works on the head of
\* the partition.
HandOK ==
    /\ \A p \in Procs :
        /\ pc[p] \in {"guard", "cas", "hset", "history"} => hand[p] \in Events
        /\ pc[p] = "commit" => hand[p] # None
        /\ pc[p] \in {"poll", "stopped", "down"} => hand[p] = None
    /\ owner # None /\ hand[owner] # None
         => queue # <<>> /\ hand[owner] = Head(queue)

TypeInv == TypeOK /\ HandOK

LEMMA TypeInit == Init => TypeInv
  BY IngestionAssumption DEF Init, TypeInv, TypeOK, HandOK

LEMMA AfterFlushIsPC ==
  ASSUME NEW p \in Procs
  PROVE  AfterFlush(p) \in {"commit", "stopped", "poll"}
  BY DEF AfterFlush

LEMMA AppendedQueue ==
  ASSUME NEW S, NEW q \in Seq(S), NEW m \in S
  PROVE  /\ Append(q, m) \in Seq(S) /\ Append(q, m) # <<>>
         /\ q # <<>> => Head(Append(q, m)) = Head(q)
<1>1. Append(q, m) \in Seq(S) /\ Append(q, m) # <<>>
  BY AppendProperties
<1>2. q # <<>> => Head(Append(q, m)) = Head(q)
  OBVIOUS
<1>. QED BY <1>1, <1>2

LEMMA TypeNext == TypeInv /\ [Next]_vars => TypeInv'
<1> SUFFICES ASSUME TypeInv, [Next]_vars PROVE TypeInv'
  OBVIOUS
<1> USE IngestionAssumption, MessageAssumption DEF TypeInv
<1>1. CASE Produce
  <2>1. PICK m \in Events \cup {Garbage} : queue' = Append(queue, m)
    BY <1>1 DEF Produce
  <2>2. queue' \in Seq(Events \cup {Garbage}) /\ queue' # <<>>
        /\ (queue # <<>> => Head(queue') = Head(queue))
    BY <2>1, AppendedQueue, Zenon DEF TypeOK
  <2>3. TypeOK'
    BY <1>1, <2>2 DEF Produce, TypeOK
  <2>4. HandOK'
    BY <1>1, <2>2 DEF Produce, HandOK, TypeOK
  <2>. QED BY <2>3, <2>4
<1>2. ASSUME NEW p \in Procs, Assign(p) PROVE TypeInv'
  <2>1. TypeOK'
    BY <1>2 DEF Assign, TypeOK
  <2>2. HandOK'
    BY <1>2 DEF Assign, TypeOK, HandOK
  <2>. QED BY <2>1, <2>2
<1>3. ASSUME NEW p \in Procs, LoseRedis(p) PROVE TypeInv'
  BY <1>3 DEF LoseRedis, TypeOK, HandOK
<1>4. ASSUME NEW p \in Procs, Deliver(p) \/ DeliveryFails(p) PROVE TypeInv'
  <2>1. CASE Deliver(p)
    BY <2>1 DEF Deliver, TypeOK, HandOK
  <2>2. CASE DeliveryFails(p)
    BY <2>2 DEF DeliveryFails, TypeOK, HandOK
  <2>. QED BY <1>4, <2>1, <2>2
<1>5. ASSUME NEW p \in Procs, Poll(p) PROVE TypeInv'
  <2>1. Head(queue) \in Events \cup {Garbage} /\ queue # <<>> /\ owner = p
    BY <1>5 DEF Poll, Owns, TypeOK
  <2>2. window' \in [Procs -> SUBSET Events]
    <3>1. \/ UNCHANGED window
          \/ \E kept \in SUBSET window[p] :
                \/ window' = [window EXCEPT ![p] = kept]
                \/ window' = [window EXCEPT ![p] = kept \cup {Head(queue)}]
                   /\ Head(queue) # Garbage
      BY <1>5, Zenon DEF Poll, Evictions
    <3>. QED BY <3>1, <2>1 DEF TypeOK
  <2>3. hand' \in [Procs -> Events \cup {Garbage, None}] /\ pc' \in [Procs -> PC]
    BY <1>5, <2>1 DEF Poll, TypeOK
  <2>4. TypeOK'
    BY <1>5, <2>2, <2>3 DEF Poll, TypeOK
  <2>5. HandOK'
    BY <1>5, <2>1 DEF Poll, TypeOK, HandOK
  <2>. QED BY <2>4, <2>5
<1>6. ASSUME NEW p \in Procs, Guard(p) PROVE TypeInv'
  BY <1>6 DEF Guard, TypeOK, HandOK
<1>7. ASSUME NEW p \in Procs, CasRead(p) PROVE TypeInv'
  BY <1>7 DEF CasRead, AfterRefusal, TypeOK, HandOK
<1>8. ASSUME NEW p \in Procs, CasWrite(p) PROVE TypeInv'
  <2>1. /\ pc[p] = "hset" /\ hand[p] \in Events
        /\ pc' = [pc EXCEPT ![p] = "history"]
        /\ UNCHANGED <<queue, owner, hand>>
    BY <1>8 DEF CasWrite, HandOK
  <2>2. state' \in [Devices -> 0..MaxSeq] /\ written' \subseteq Events
        /\ fresh' \subseteq written'
    <3>1. /\ state \in [Devices -> 0..MaxSeq] /\ written \subseteq Events /\ fresh \subseteq written
          /\ hand[p].dev \in Devices /\ hand[p].seq \in 0..MaxSeq
      BY <2>1 DEF TypeOK, Events
    <3>2. \/ /\ state' = [state EXCEPT ![hand[p].dev] = hand[p].seq]
             /\ written' = written \cup {hand[p]} /\ fresh' = fresh \cup {hand[p]}
          \/ UNCHANGED <<state, written, fresh>>
      BY <1>8 DEF CasWrite, Store
    <3>3. written' \subseteq Events /\ fresh' \subseteq written'
      BY <2>1, <3>1, <3>2, Zenon
    <3>. QED BY <3>1, <3>2, <3>3
  <2>3. TypeOK'
    BY <1>8, <2>1, <2>2 DEF CasWrite, TypeOK
  <2>4. HandOK'
    BY <2>1 DEF HandOK, TypeOK
  <2>. QED BY <2>3, <2>4
<1>9. ASSUME NEW p \in Procs, Buffer(p) PROVE TypeInv'
  BY <1>9 DEF Buffer, TypeOK, HandOK
<1>10. ASSUME NEW p \in Procs, FlushInsert(p) PROVE TypeInv'
  BY <1>10 DEF FlushInsert, AfterFlush, TypeOK, HandOK
<1>11. ASSUME NEW p \in Procs, FlushFail(p) PROVE TypeInv'
  BY <1>11 DEF FlushFail, AfterFlush, TypeOK, HandOK
<1>12. ASSUME NEW p \in Procs, DeadLetter(p) PROVE TypeInv'
  BY <1>12 DEF DeadLetter, AfterFlush, TypeOK, HandOK
<1>13. ASSUME NEW p \in Procs, Commit(p) PROVE TypeInv'
  <2>1. queue # <<>> /\ hand[p] \in Events \cup {Garbage}
    BY <1>13 DEF Commit, HandOK, TypeOK
  <2>2. Tail(queue) \in Seq(Events \cup {Garbage})
    BY <2>1 DEF TypeOK
  <2>3. TypeOK'
    BY <1>13, <2>1, <2>2 DEF Commit, TypeOK
  <2>4. HandOK'
    BY <1>13, <2>1 DEF Commit, TypeOK, HandOK
  <2>. QED BY <2>3, <2>4
<1>14. ASSUME NEW p \in Procs, IdleFlush(p) PROVE TypeInv'
  BY <1>14 DEF IdleFlush, TypeOK, HandOK
<1>15. ASSUME NEW p \in Procs, RequestStop(p) PROVE TypeInv'
  BY <1>15 DEF RequestStop, TypeOK, HandOK
<1>16. ASSUME NEW p \in Procs, Drain(p) PROVE TypeInv'
  BY <1>16 DEF Drain, TypeOK, HandOK
<1>17. ASSUME NEW p \in Procs, Start(p) PROVE TypeInv'
  BY <1>17 DEF Start, Fresh, Held, TypeOK, HandOK
<1>18. ASSUME NEW p \in Procs, Crash(p) PROVE TypeInv'
  BY <1>18 DEF Crash, Fresh, Held, TypeOK, HandOK
<1>19. ASSUME NEW p \in Procs, CommitRefused(p) PROVE TypeInv'
  BY <1>19 DEF CommitRefused, Fresh, Held, TypeOK, HandOK
<1>20. ASSUME NEW d \in Devices, Lapse(d) PROVE TypeInv'
  BY <1>20 DEF Lapse, TypeOK, HandOK
<1>21. CASE UNCHANGED vars
  BY <1>21 DEF vars, TypeOK, HandOK
<1>. QED
  BY <1>1, <1>2, <1>3, <1>4, <1>5, <1>6, <1>7, <1>8, <1>9, <1>10, <1>11, <1>12,
     <1>13, <1>14, <1>15, <1>16, <1>17, <1>18, <1>19, <1>20, <1>21 DEF Next, Loop

\* The state of the processor is well typed in every reachable state.
THEOREM TypeCorrect == Spec => []TypeOK
<1>1. Spec => []TypeInv
  BY TypeInit, TypeNext, PTL DEF Spec
<1>. QED
  BY <1>1, PTL DEF TypeInv
-----------------------------------------------------------------------------
(* The rows of the history.                                                *)

\* What flush() swapped out is gone when it returns, and only rows whose insert
\* threw become dead letters.
FlushOK ==
    /\ \A p \in Procs :
        /\ pc[p] # "dlq" => batch[p] = {}
        /\ pc[p] \in {"dlq", "stopped", "down"} => buf[p] = {}
        /\ batch[p] \cup outbox[p] \subseteq thrown
    /\ dropped \subseteq thrown

\* e is in the history, on its way there, or died with a process.
Row(e) == \/ e \in trip \/ e \in dlq \/ e \in lost \/ e \in dropped
          \/ \E p \in Procs : e \in Held(p)

RowsInv == TypeInv /\ FlushOK /\ \A e \in written : Row(e)

LEMMA RowsInit == Init => RowsInv
  BY TypeInit DEF Init, RowsInv, FlushOK

\* A process that is not running holds dead letters only.
LEMMA StoppedHolds ==
  ASSUME FlushOK, NEW p \in Procs, pc[p] \in {"stopped", "down"}
  PROVE  Held(p) \subseteq thrown
  BY DEF FlushOK, Held

LEMMA FlushNext == TypeInv /\ FlushOK /\ [Next]_vars => FlushOK'
<1> SUFFICES ASSUME TypeInv, FlushOK, [Next]_vars PROVE FlushOK'
  OBVIOUS
<1> USE DEF TypeInv, TypeOK, FlushOK
<1>1. CASE Produce
  BY <1>1 DEF Produce
<1>2. ASSUME NEW p \in Procs, \/ Assign(p) \/ LoseRedis(p) \/ Deliver(p)
                              \/ DeliveryFails(p) \/ RequestStop(p)
      PROVE  FlushOK'
  <2>1. CASE Assign(p) \/ LoseRedis(p) \/ RequestStop(p)
    BY <2>1 DEF Assign, LoseRedis, RequestStop
  <2>2. CASE Deliver(p)
    BY <2>2 DEF Deliver
  <2>3. CASE DeliveryFails(p)
    BY <2>3 DEF DeliveryFails
  <2>. QED BY <1>2, <2>1, <2>2, <2>3
<1>3. ASSUME NEW p \in Procs, \/ Guard(p) \/ CasRead(p) \/ CasWrite(p) \/ IdleFlush(p)
                              \/ Drain(p) \/ Commit(p)
      PROVE  FlushOK'
  BY <1>3 DEF Guard, CasRead, AfterRefusal, CasWrite, IdleFlush, Drain, Commit
<1>4. ASSUME NEW p \in Procs, Poll(p) PROVE FlushOK'
  <2>1. /\ pc' \in {[pc EXCEPT ![p] = "commit"], [pc EXCEPT ![p] = "guard"]}
        /\ UNCHANGED <<buf, batch, outbox, thrown, dropped>> /\ pc[p] = "poll"
    BY <1>4, Zenon DEF Poll, Evictions
  <2>. QED BY <2>1
<1>5. ASSUME NEW p \in Procs, Buffer(p) PROVE FlushOK'
  BY <1>5 DEF Buffer
<1>6. ASSUME NEW p \in Procs, FlushInsert(p) PROVE FlushOK'
  BY <1>6 DEF FlushInsert, AfterFlush
<1>7. ASSUME NEW p \in Procs, FlushFail(p) PROVE FlushOK'
  BY <1>7 DEF FlushFail
<1>8. ASSUME NEW p \in Procs, DeadLetter(p) PROVE FlushOK'
  BY <1>8 DEF DeadLetter, AfterFlush
<1>9. ASSUME NEW p \in Procs, Crash(p) \/ CommitRefused(p) PROVE FlushOK'
  BY <1>9 DEF Crash, CommitRefused, Fresh
<1>10. ASSUME NEW p \in Procs, Start(p) PROVE FlushOK'
  <2>1. Held(p) \subseteq thrown
    BY <1>10, StoppedHolds DEF Start
  <2>. QED BY <1>10, <2>1 DEF Start, Fresh
<1>11. ASSUME NEW d \in Devices, Lapse(d) PROVE FlushOK'
  BY <1>11 DEF Lapse
<1>12. CASE UNCHANGED vars
  BY <1>12 DEF vars
<1>. QED
  BY <1>1, <1>2, <1>3, <1>4, <1>5, <1>6, <1>7, <1>8, <1>9, <1>10, <1>11, <1>12
  DEF Next, Loop

\* No step of any process makes a row vanish.
LEMMA RowStays ==
  ASSUME TypeInv, FlushOK, [Next]_vars, NEW e \in Events, Row(e)
  PROVE  Row(e)'
<1> USE DEF TypeInv, TypeOK, Row, Held
<1>1. CASE Produce
  BY <1>1 DEF Produce
<1>2. ASSUME NEW p \in Procs, Assign(p) \/ LoseRedis(p) \/ RequestStop(p)
      PROVE  Row(e)'
  BY <1>2 DEF Assign, LoseRedis, RequestStop
<1>3. ASSUME NEW p \in Procs, Deliver(p) \/ DeliveryFails(p) PROVE Row(e)'
  BY <1>3 DEF Deliver, DeliveryFails
<1>4. ASSUME NEW p \in Procs, Poll(p) PROVE Row(e)'
  <2>1. /\ pc' \in {[pc EXCEPT ![p] = "commit"], [pc EXCEPT ![p] = "guard"]}
        /\ \E h : hand' = [hand EXCEPT ![p] = h]
        /\ UNCHANGED <<trip, dlq, lost, dropped, buf, batch, outbox>> /\ pc[p] = "poll"
    BY <1>4, Zenon DEF Poll, Evictions
  <2>. QED BY <2>1
<1>5. ASSUME NEW p \in Procs, Guard(p) \/ CasRead(p) \/ IdleFlush(p) \/ Drain(p)
      PROVE  Row(e)'
  BY <1>5 DEF Guard, CasRead, IdleFlush, Drain
<1>6. ASSUME NEW p \in Procs, CasWrite(p) PROVE Row(e)'
  BY <1>6 DEF CasWrite
<1>7. ASSUME NEW p \in Procs, Buffer(p) PROVE Row(e)'
  BY <1>7 DEF Buffer
<1>8. ASSUME NEW p \in Procs, FlushInsert(p) PROVE Row(e)'
  BY <1>8 DEF FlushInsert, AfterFlush
<1>9. ASSUME NEW p \in Procs, FlushFail(p) PROVE Row(e)'
  BY <1>9 DEF FlushFail, FlushOK
<1>10. ASSUME NEW p \in Procs, DeadLetter(p) PROVE Row(e)'
  BY <1>10 DEF DeadLetter
<1>11. ASSUME NEW p \in Procs, Commit(p) PROVE Row(e)'
  BY <1>11 DEF Commit
<1>12. ASSUME NEW p \in Procs, Start(p) \/ Crash(p) \/ CommitRefused(p)
       PROVE  Row(e)'
  BY <1>12 DEF Start, Crash, CommitRefused, Fresh
<1>13. ASSUME NEW d \in Devices, Lapse(d) PROVE Row(e)'
  BY <1>13 DEF Lapse
<1>14. CASE UNCHANGED vars
  BY <1>14 DEF vars
<1>. QED
  BY <1>1, <1>2, <1>3, <1>4, <1>5, <1>6, <1>7, <1>8, <1>9, <1>10, <1>11, <1>12,
     <1>13, <1>14 DEF Next, Loop

\* What a step adds to "written" is in hand of a process about to buffer it.
LEMMA WrittenNext ==
  ASSUME TypeInv, [Next]_vars
  PROVE  \/ written' = written
         \/ \E p \in Procs : /\ CasWrite(p)
                             /\ written' = written \cup {hand[p]}
<1>1. ASSUME NEW p \in Procs, CasWrite(p)
      PROVE  written' = written \/ written' = written \cup {hand[p]}
  BY <1>1 DEF CasWrite, Store
<1>2. ASSUME NEW p \in Procs, Loop(p), ~CasWrite(p) PROVE written' = written
  BY <1>2, Zenon DEF Loop, Poll, Guard, CasRead, Buffer, FlushInsert, FlushFail, DeadLetter,
     Commit, CommitRefused, Fresh, IdleFlush, Drain
<1>3. ASSUME NEW p \in Procs, \/ Assign(p) \/ Deliver(p) \/ DeliveryFails(p) \/ Start(p)
                              \/ LoseRedis(p) \/ RequestStop(p) \/ Crash(p)
      PROVE written' = written
  BY <1>3 DEF Assign, Deliver, DeliveryFails, Start, LoseRedis, RequestStop, Crash
<1>4. Produce \/ (\E d \in Devices : Lapse(d)) \/ UNCHANGED vars => written' = written
  BY DEF Produce, Lapse, vars
<1>. QED BY <1>1, <1>2, <1>3, <1>4 DEF Next

LEMMA RowsNext == RowsInv /\ [Next]_vars => RowsInv'
<1> SUFFICES ASSUME RowsInv, [Next]_vars PROVE RowsInv'
  OBVIOUS
<1>1. TypeInv' /\ FlushOK'
  BY TypeNext, FlushNext DEF RowsInv
<1>2. ASSUME NEW e \in written PROVE Row(e)'
  BY <1>2, RowStays DEF RowsInv, TypeInv, TypeOK
<1>3. ASSUME NEW p \in Procs, CasWrite(p), NEW e, e = hand[p] PROVE Row(e)'
  <2>1. pc'[p] = "history" /\ hand'[p] = e
    BY <1>3 DEF CasWrite, RowsInv, TypeInv, TypeOK
  <2>. QED BY <2>1 DEF Row, Held
<1>4. \A e \in written' : Row(e)'
  <2>. SUFFICES ASSUME NEW e \in written', e \notin written PROVE Row(e)'
    BY <1>2
  <2>1. PICK p \in Procs : CasWrite(p) /\ e = hand[p]
    BY WrittenNext DEF RowsInv
  <2>. QED BY <2>1, <1>3
<1>. QED BY <1>1, <1>4 DEF RowsInv

LEMMA RowsInvariant == Spec => []RowsInv
  BY RowsInit, RowsNext, PTL DEF Spec

\* Every event the state store took is in PostGIS, dead-lettered, still held by
\* a process, died with one, or is a dead letter that was not delivered: no path of
\* buffer() and flush() drops a row.
THEOREM RowsAccounted == Spec => []HistoryAccounted
<1>1. RowsInv => HistoryAccounted
  BY DEF RowsInv, HistoryAccounted, Row
<1>. QED BY <1>1, RowsInvariant, PTL

\* ProcessorService::stop, at whichever step it meets the loop, and a new start after
\* it cost no row but those whose insert threw: what is not in the database by then
\* are dead letters the producer has not delivered.
THEOREM StopDrains == Spec => []StopLosesOnlyThrown
<1>1. RowsInv => StopLosesOnlyThrown
  BY StoppedHolds DEF RowsInv, FlushOK, StopLosesOnlyThrown
<1>. QED BY <1>1, RowsInvariant, PTL
-----------------------------------------------------------------------------
(* Commits, as long as no Redis connection breaks.                         *)

LinkOK == faults = 0 /\ \A p \in Procs : linked[p]

\* A record was written by an event at least as new, what the window holds and
\* what is about to be committed is covered.
CoverOK ==
    /\ \A d \in Devices : state[d] > 0 =>
           \E w \in written : w.dev = d /\ w.seq >= state[d]
    /\ \A p \in Procs : \A e \in window[p] :
           \/ Covered(e)
           \/ e = hand[p] /\ pc[p] \in {"guard", "cas", "hset"}
    /\ \A p \in Procs :
           /\ pc[p] \in {"history", "flush", "dlq", "commit"}
           /\ hand[p] \in Events
           => Covered(hand[p])
    /\ \A e \in settled : Covered(e)

CoverInv == TypeInv /\ LinkOK /\ CoverOK

LEMMA CoverInit == Init => CoverInv
  BY TypeInit, IngestionAssumption
  DEF Init, CoverInv, LinkOK, CoverOK

LEMMA FaultsCount ==
  ASSUME TypeInv, [Next]_vars
  PROVE  faults' = faults \/ (faults < MaxFaults /\ faults' = faults + 1)
<1>1. ASSUME NEW p \in Procs, Loop(p) PROVE faults' = faults
  BY <1>1, Zenon DEF Loop, Poll, Guard, CasRead, CasWrite, Buffer, FlushInsert,
     FlushFail, DeadLetter, Commit, CommitRefused, IdleFlush, Drain, countVars
<1>2. ASSUME NEW p \in Procs, \/ Assign(p) \/ Deliver(p) \/ DeliveryFails(p) \/ Start(p)
                              \/ RequestStop(p) \/ Crash(p)
      PROVE  faults' = faults
  BY <1>2 DEF Assign, Deliver, DeliveryFails, Start, RequestStop, Crash, countVars
<1>3. Produce \/ (\E d \in Devices : Lapse(d)) \/ UNCHANGED vars => faults' = faults
  BY DEF Produce, Lapse, vars, countVars
<1>. QED BY <1>1, <1>2, <1>3 DEF Next, LoseRedis

LEMMA LinkNext == ASSUME faults' = 0, TypeInv, LinkOK, [Next]_vars PROVE LinkOK'
<1> USE DEF LinkOK, TypeInv, TypeOK
<1>1. ASSUME NEW p \in Procs, Loop(p), UNCHANGED <<linked, faults>> PROVE LinkOK'
  BY <1>1
<1>2. ASSUME NEW p \in Procs, Loop(p), ~CommitRefused(p)
      PROVE  UNCHANGED <<linked, faults>>
  BY <1>2, Zenon DEF Loop, Poll, Guard, CasRead, CasWrite, Buffer, FlushInsert,
     FlushFail, DeadLetter, Commit, IdleFlush, Drain
<1>3. ASSUME NEW p \in Procs, Start(p) \/ Crash(p) \/ CommitRefused(p) PROVE LinkOK'
  BY <1>3 DEF Start, Crash, CommitRefused, Fresh
<1>4. ASSUME NEW p \in Procs, \/ Assign(p) \/ Deliver(p) \/ DeliveryFails(p)
                              \/ LoseRedis(p) \/ RequestStop(p)
      PROVE  LinkOK'
  BY <1>4 DEF Assign, Deliver, DeliveryFails, LoseRedis, RequestStop
<1>5. Produce \/ (\E d \in Devices : Lapse(d)) \/ UNCHANGED vars => LinkOK'
  BY DEF Produce, Lapse, vars
<1>. QED BY <1>1, <1>2, <1>3, <1>4, <1>5 DEF Next

\* Once covered, an event stays covered.
LEMMA CoveredStays == ASSUME TypeInv, [Next]_vars, NEW e, Covered(e) PROVE Covered(e)'
<1>1. written \subseteq written'
  BY WrittenNext
<1>. QED BY <1>1 DEF Covered

LEMMA CoverNext ==
  ASSUME faults' = 0, CoverInv, [Next]_vars
  PROVE  CoverInv'
<1>1. TypeInv' /\ LinkOK'
  BY TypeNext, LinkNext DEF CoverInv
<1> SUFFICES CoverOK'
  BY <1>1 DEF CoverInv
<1>2. \A e : Covered(e) => Covered(e)'
  BY CoveredStays DEF CoverInv
<1> USE DEF CoverInv, TypeInv, TypeOK, CoverOK
<1>3. CASE Produce
  BY <1>2, <1>3 DEF Produce
<1>4. ASSUME NEW p \in Procs, \/ Assign(p) \/ LoseRedis(p) \/ Deliver(p)
                              \/ DeliveryFails(p) \/ RequestStop(p)
      PROVE  CoverOK'
  <2>1. UNCHANGED <<state, settled, written, pc, hand, window>>
    BY <1>4 DEF Assign, LoseRedis, Deliver, DeliveryFails, RequestStop
  <2>. QED BY <1>2, <2>1
<1>5. ASSUME NEW p \in Procs, Poll(p) PROVE CoverOK'
  <2>1. /\ hand' = [hand EXCEPT ![p] = Head(queue)] /\ pc[p] = "poll"
        /\ UNCHANGED <<state, settled, written>>
        /\ \/ /\ pc' = [pc EXCEPT ![p] = "commit"]
              /\ Head(queue) = Garbage \/ Head(queue) \in window[p]
              /\ \E k \in SUBSET window[p] : window' = [window EXCEPT ![p] = k]
           \/ /\ pc' = [pc EXCEPT ![p] = "guard"]
              /\ \E k \in SUBSET window[p] :
                     window' = [window EXCEPT ![p] = k \cup {Head(queue)}]
    <3>1. window = [window EXCEPT ![p] = window[p]]
      OBVIOUS
    <3>. QED BY <1>5, <3>1, Zenon DEF Poll, Evictions
  <2>2. \A e \in window[p] : Covered(e)
    BY <2>1, MessageAssumption DEF HandOK
  <2>3. \A e \in window'[p] : Covered(e)' \/ (e = hand'[p] /\ pc'[p] = "guard")
    BY <1>2, <2>1, <2>2
  <2>4. pc'[p] = "commit" /\ hand'[p] \in Events => Covered(hand[p])'
    BY <1>2, <2>1, <2>2, MessageAssumption
  <2>. QED BY <1>2, <2>1, <2>3, <2>4
<1>6. ASSUME NEW p \in Procs, Guard(p) \/ CasRead(p) PROVE CoverOK'
  <2>1. /\ pc[p] \in {"guard", "cas"} /\ hand[p] \in Events
        /\ UNCHANGED <<state, settled, written, hand, window>>
        /\ \E at \in {"cas", "hset", "history", "commit"} :
              /\ pc' = [pc EXCEPT ![p] = at]
              /\ at \in {"history", "commit"} => hand[p].seq <= state[hand[p].dev]
    BY <1>6 DEF Guard, CasRead, AfterRefusal, HandOK, Seen, LinkOK, Events
  <2>2. hand[p].seq <= state[hand[p].dev] => Covered(hand[p])
    BY <2>1, IngestionAssumption DEF Events, Covered
  <2>. QED BY <1>2, <2>1, <2>2
<1>7. ASSUME NEW p \in Procs, CasWrite(p) PROVE CoverOK'
  <2>1. /\ pc[p] = "hset" /\ hand[p] \in Events
        /\ pc' = [pc EXCEPT ![p] = "history"]
        /\ state' = [state EXCEPT ![hand[p].dev] = hand[p].seq]
        /\ written' = written \cup {hand[p]}
        /\ UNCHANGED <<settled, hand, window>>
    BY <1>7 DEF CasWrite, Store, HandOK, LinkOK
  <2>2. Covered(hand[p])'
    BY <2>1, IngestionAssumption DEF Covered, Events
  <2>3. ASSUME NEW d \in Devices, state'[d] > 0
        PROVE  \E w \in written' : w.dev = d /\ w.seq >= state'[d]
    <3>1. CASE d = hand[p].dev
      <4>1. state'[d] = hand[p].seq /\ hand[p].seq \in Nat /\ hand[p] \in written'
        BY <2>1, <3>1 DEF Events
      <4>. QED BY <3>1, <4>1
    <3>2. CASE d # hand[p].dev
      <4>1. state'[d] = state[d] /\ written \subseteq written'
        BY <2>1, <3>2
      <4>. QED BY <2>3, <4>1
    <3>. QED BY <3>1, <3>2
  <2>. QED BY <1>2, <2>1, <2>2, <2>3
<1>8. ASSUME NEW p \in Procs, \/ Buffer(p) \/ FlushInsert(p) \/ FlushFail(p)
                              \/ DeadLetter(p)
      PROVE  CoverOK'
  <2>1. /\ pc[p] \in {"history", "flush", "dlq"}
        /\ UNCHANGED <<state, settled, written, hand, window>>
        /\ \E at \in {"flush", "dlq", "commit", "stopped", "poll"} :
               pc' = [pc EXCEPT ![p] = at]
    BY <1>8, AfterFlushIsPC DEF Buffer, FlushInsert, FlushFail, DeadLetter
  <2>. QED BY <1>2, <2>1 DEF HandOK
<1>9. ASSUME NEW p \in Procs, Commit(p) PROVE CoverOK'
  BY <1>2, <1>9 DEF Commit, HandOK
<1>10. ASSUME NEW p \in Procs, IdleFlush(p) \/ Drain(p) PROVE CoverOK'
  <2>1. /\ pc[p] = "poll" /\ hand[p] \notin Events
        /\ UNCHANGED <<state, settled, written, hand, window>>
        /\ \E at \in {"flush", "stopped"} : pc' = [pc EXCEPT ![p] = at]
    BY <1>10, MessageAssumption DEF IdleFlush, Drain, HandOK
  <2>. QED BY <1>2, <2>1
<1>11. ASSUME NEW p \in Procs, Start(p) \/ Crash(p) \/ CommitRefused(p) PROVE CoverOK'
  <2>1. /\ UNCHANGED <<state, settled, written>>
        /\ \E at \in {"poll", "down"} : pc' = [pc EXCEPT ![p] = at]
        /\ hand' = [hand EXCEPT ![p] = None]
        /\ window' = [window EXCEPT ![p] = {}]
    BY <1>11 DEF Start, Crash, CommitRefused, Fresh
  <2>2. \A q \in Procs : q # p => /\ pc'[q] = pc[q] /\ hand'[q] = hand[q]
                                 /\ window'[q] = window[q]
    BY <2>1
  <2>3. pc'[p] \in {"poll", "down"} /\ window'[p] = {}
    BY <2>1
  <2>. QED BY <1>2, <2>1, <2>2, <2>3
<1>12. ASSUME NEW d \in Devices, Lapse(d) PROVE CoverOK'
  <2>1. /\ state' = [state EXCEPT ![d] = 0]
        /\ UNCHANGED <<settled, written, pc, hand, window>>
    BY <1>12 DEF Lapse
  <2>. QED BY <1>2, <2>1
<1>13. CASE UNCHANGED vars
  BY <1>2, <1>13 DEF vars
<1>. QED
  BY <1>3, <1>4, <1>5, <1>6, <1>7, <1>8, <1>9, <1>10, <1>11, <1>12, <1>13 DEF Next, Loop

\* The invariant holds until the first connection breaks.
UntilFault == TypeInv /\ (faults = 0 => CoverInv)

LEMMA UntilFaultNext == UntilFault /\ [Next]_vars => UntilFault'
<1> SUFFICES ASSUME UntilFault, [Next]_vars PROVE UntilFault'
  OBVIOUS
<1>1. TypeInv'
  BY TypeNext DEF UntilFault
<1>2. ASSUME faults' = 0 PROVE CoverInv'
  <2>1. faults = 0
    BY <1>2, FaultsCount DEF UntilFault, TypeInv, TypeOK
  <2>. QED BY <1>2, <2>1, CoverNext DEF UntilFault
<1>. QED BY <1>1, <1>2 DEF UntilFault

\* No path of the loop commits an event the state store never reached, whatever
\* crashes, stops, reassignments and redeliveries happen, until a Redis connection
\* breaks.
THEOREM CommitsAreCovered == Spec => []SettledIsCovered
<1>1. Init => UntilFault
  BY CoverInit DEF UntilFault, CoverInv
<1>2. UntilFault => SettledIsCovered
  BY DEF UntilFault, CoverInv, CoverOK, SettledIsCovered
<1>. QED BY UntilFaultNext, <1>1, <1>2, PTL DEF Spec
-----------------------------------------------------------------------------
(* The register, with one handler per message: no zombies.                 *)

\* Only the owner has a message in hand.
AloneOK == zombies = 0 /\ \A p \in Procs : hand[p] # None => owner = p

\* The record is as new as everything written since it last lapsed, and what is
\* about to be written is newer.
LatestOK ==
    /\ \A w \in fresh : w.seq <= state[w.dev]
    /\ \A p \in Procs : pc[p] = "hset" => hand[p].seq > state[hand[p].dev]

LatestInv == CoverInv /\ AloneOK /\ LatestOK

LEMMA LatestInit == Init => LatestInv
  BY CoverInit DEF Init, LatestInv, AloneOK, LatestOK

LEMMA AloneNext ==
  ASSUME MaxZombies = 0, TypeInv, AloneOK, [Next]_vars
  PROVE  AloneOK'
<1> USE DEF TypeInv, TypeOK, AloneOK
<1>1. ASSUME NEW p \in Procs, Assign(p) PROVE AloneOK'
  <2>1. owner = None \/ (owner \in Procs /\ ~Live(owner))
    BY <1>1 DEF Assign
  <2>2. \A q \in Procs : hand[q] = None
    BY <2>1, IngestionAssumption DEF HandOK
  <2>. QED BY <1>1, <2>2 DEF Assign
<1>2. ASSUME NEW p \in Procs, Poll(p) PROVE AloneOK'
  <2>1. owner = p /\ hand' = [hand EXCEPT ![p] = Head(queue)]
        /\ UNCHANGED <<owner, zombies>>
    BY <1>2, Zenon DEF Poll, Owns
  <2>. QED BY <2>1
<1>3. ASSUME NEW p \in Procs, \/ Commit(p) \/ Start(p) \/ Crash(p) \/ CommitRefused(p)
      PROVE  AloneOK'
  BY <1>3 DEF Commit, Start, Crash, CommitRefused, Fresh
<1>4. ASSUME NEW p \in Procs,
             \/ Guard(p) \/ CasRead(p) \/ CasWrite(p) \/ Buffer(p) \/ FlushInsert(p)
             \/ FlushFail(p) \/ DeadLetter(p) \/ IdleFlush(p) \/ Drain(p)
             \/ LoseRedis(p) \/ Deliver(p) \/ DeliveryFails(p) \/ RequestStop(p)
      PROVE  AloneOK'
  <2>1. UNCHANGED <<owner, hand, zombies>>
    BY <1>4, Zenon DEF Guard, CasRead, CasWrite, Buffer, FlushInsert, FlushFail,
       DeadLetter, IdleFlush, Drain, LoseRedis, Deliver, DeliveryFails, RequestStop
  <2>. QED BY <2>1
<1>5. Produce \/ (\E d \in Devices : Lapse(d)) \/ UNCHANGED vars => AloneOK'
  BY DEF Produce, Lapse, vars
<1>. QED BY <1>1, <1>2, <1>3, <1>4, <1>5 DEF Next, Loop

LEMMA LatestNext ==
  ASSUME MaxFaults = 0, MaxZombies = 0, LatestInv, [Next]_vars
  PROVE  LatestInv'
<1>0. faults' = 0
  BY FaultsCount, IngestionAssumption DEF LatestInv, CoverInv, LinkOK
<1>1. CoverInv' /\ AloneOK'
  BY <1>0, CoverNext, AloneNext DEF LatestInv, CoverInv
<1> SUFFICES LatestOK'
  BY <1>1 DEF LatestInv
<1> USE DEF LatestInv, CoverInv, TypeInv, TypeOK
<1>2. ASSUME NEW p \in Procs, CasWrite(p) PROVE LatestOK'
  <2>1. /\ pc[p] = "hset" /\ hand[p] \in Events /\ owner = p
        /\ pc' = [pc EXCEPT ![p] = "history"]
        /\ state' = [state EXCEPT ![hand[p].dev] = hand[p].seq]
        /\ fresh' = fresh \cup {hand[p]}
        /\ UNCHANGED hand
    BY <1>2, MessageAssumption DEF CasWrite, Store, HandOK, LinkOK, AloneOK
  <2>2. hand[p].seq > state[hand[p].dev] /\ hand[p].seq \in Nat /\ hand[p].dev \in Devices
    BY <2>1 DEF LatestOK, Events
  <2>3. \A q \in Procs \ {p} : pc'[q] # "hset"
    BY <2>1, MessageAssumption DEF AloneOK, HandOK
  <2>4. ASSUME NEW w \in fresh' PROVE w.seq <= state'[w.dev]
    <3>1. w \in Events
      BY <2>1
    <3>2. w = hand[p] \/ w.seq <= state[w.dev]
      BY <2>1 DEF LatestOK
    <3>. QED BY <2>1, <2>2, <3>1, <3>2, IngestionAssumption DEF Events
  <2>. QED BY <2>1, <2>3, <2>4 DEF LatestOK
<1>3. ASSUME NEW p \in Procs, CasRead(p) PROVE LatestOK'
  BY <1>3 DEF CasRead, AfterRefusal, Seen, LatestOK, LinkOK
<1>4. ASSUME NEW p \in Procs, Poll(p) PROVE LatestOK'
  <2>1. /\ \E at \in {"commit", "guard"} : pc' = [pc EXCEPT ![p] = at]
        /\ hand' = [hand EXCEPT ![p] = Head(queue)]
        /\ UNCHANGED <<state, fresh>>
    BY <1>4, Zenon DEF Poll, Evictions
  <2>. QED BY <2>1 DEF LatestOK
<1>5. ASSUME NEW p \in Procs,
             \/ Guard(p) \/ Buffer(p) \/ FlushInsert(p) \/ FlushFail(p)
             \/ DeadLetter(p) \/ IdleFlush(p) \/ Drain(p)
      PROVE  LatestOK'
  <2>1. /\ UNCHANGED <<state, fresh, hand>>
        /\ \E at \in PC \ {"hset"} : pc' = [pc EXCEPT ![p] = at]
    BY <1>5, AfterFlushIsPC DEF Guard, Buffer, FlushInsert, FlushFail, DeadLetter,
       IdleFlush, Drain
  <2>. QED BY <2>1 DEF LatestOK
<1>6. ASSUME NEW p \in Procs, Commit(p) \/ Start(p) \/ Crash(p) \/ CommitRefused(p)
      PROVE  LatestOK'
  <2>1. /\ UNCHANGED <<state, fresh>>
        /\ \E at \in {"poll", "down"} : pc' = [pc EXCEPT ![p] = at]
        /\ hand' = [hand EXCEPT ![p] = None]
    BY <1>6 DEF Commit, Start, Crash, CommitRefused, Fresh
  <2>. QED BY <2>1 DEF LatestOK
<1>7. ASSUME NEW p \in Procs, \/ Assign(p) \/ LoseRedis(p) \/ Deliver(p)
                              \/ DeliveryFails(p) \/ RequestStop(p)
      PROVE  LatestOK'
  BY <1>7 DEF Assign, LoseRedis, Deliver, DeliveryFails, RequestStop, LatestOK
<1>8. ASSUME NEW d \in Devices, Lapse(d) PROVE LatestOK'
  <2>1. /\ state' = [state EXCEPT ![d] = 0] /\ state[d] > 0
        /\ fresh' = {e \in fresh : e.dev # d}
        /\ UNCHANGED <<pc, hand>>
    BY <1>8 DEF Lapse
  <2>. QED BY <2>1 DEF LatestOK, HandOK, Events
<1>9. Produce \/ UNCHANGED vars => LatestOK'
  BY DEF Produce, vars, LatestOK
<1>. QED
  BY <1>2, <1>3, <1>4, <1>5, <1>6, <1>7, <1>8, <1>9 DEF Next, Loop

LEMMA LatestInvariant == ASSUME MaxFaults = 0, MaxZombies = 0 PROVE Spec => []LatestInv
<1>1. LatestInv /\ [Next]_vars => LatestInv'
  BY LatestNext
<1>. QED BY LatestInit, <1>1, PTL DEF Spec

\* An event updates the state store a second time, by redelivery or retransmission,
\* only if the record of its device lapsed in between, while no connection breaks and
\* no reassignment leaves a zombie.
THEOREM WritesOnce ==
  ASSUME MaxFaults = 0, MaxZombies = 0 PROVE Spec => NoSecondWrite
<1>1. ASSUME LatestInv, NEW p \in Procs, CasWrite(p) PROVE hand[p] \notin fresh
  <2>1. hand[p] \in Events /\ hand[p].seq > state[hand[p].dev]
    BY <1>1 DEF CasWrite, LatestInv, LatestOK, CoverInv, TypeInv, HandOK
  <2>2. state[hand[p].dev] \in Nat /\ hand[p].seq \in Nat
    BY <1>1, <2>1, IngestionAssumption DEF Events, LatestInv, CoverInv, TypeInv, TypeOK
  <2>. QED BY <1>1, <2>1, <2>2 DEF LatestInv, LatestOK
<1>2. LatestInv /\ [Next]_vars
      => [\A p \in Procs : CasWrite(p) /\ linked[p] => hand[p] \notin fresh]_vars
  BY <1>1
<1>. QED BY LatestInvariant, <1>2, PTL DEF Spec, NoSecondWrite

\* Whatever is in the history or on its way there is stored, and a message that is
\* past the guard is newer than the record still.
StoredOK ==
    /\ trip \cup dlq \subseteq written
    /\ \A p \in Procs : /\ Held(p) \subseteq written
                        /\ pc[p] = "cas" => hand[p].seq > state[hand[p].dev]

LEMMA StoredNext ==
  ASSUME MaxFaults = 0, MaxZombies = 0, LatestInv, StoredOK, [Next]_vars
  PROVE  StoredOK'
<1> USE DEF LatestInv, CoverInv, TypeInv, TypeOK, StoredOK, Held
<1>1. ASSUME NEW p \in Procs, CasWrite(p) PROVE StoredOK'
  <2>1. /\ pc[p] = "hset" /\ owner = p
        /\ pc' = [pc EXCEPT ![p] = "history"]
        /\ written' = written \cup {hand[p]}
        /\ UNCHANGED <<trip, dlq, hand, buf, batch, outbox>>
    BY <1>1, MessageAssumption DEF CasWrite, Store, HandOK, LinkOK, AloneOK
  <2>2. \A q \in Procs \ {p} : pc[q] # "cas"
    BY <2>1, MessageAssumption DEF AloneOK, HandOK
  <2>. QED BY <2>1, <2>2
<1>2. ASSUME NEW p \in Procs, CasRead(p) PROVE StoredOK'
  <2>1. pc' = [pc EXCEPT ![p] = "hset"]
    BY <1>2 DEF CasRead, Seen, LinkOK
  <2>. QED BY <1>2, <2>1 DEF CasRead
<1>3. ASSUME NEW p \in Procs, Guard(p) PROVE StoredOK'
  BY <1>3 DEF Guard, Seen, LinkOK
<1>4. ASSUME NEW p \in Procs, Poll(p) PROVE StoredOK'
  <2>1. /\ \E at \in {"commit", "guard"} : pc' = [pc EXCEPT ![p] = at]
        /\ hand' = [hand EXCEPT ![p] = Head(queue)]
        /\ UNCHANGED <<state, trip, dlq, written, buf, batch, outbox>>
    BY <1>4, Zenon DEF Poll, Evictions
  <2>. QED BY <2>1
<1>5. ASSUME NEW p \in Procs,
             \/ Buffer(p) \/ FlushInsert(p) \/ FlushFail(p) \/ DeadLetter(p)
             \/ IdleFlush(p) \/ Drain(p)
      PROVE  StoredOK'
  <2>1. /\ UNCHANGED <<state, written, hand, dlq>>
        /\ \E at \in PC \ {"cas", "history"} : pc' = [pc EXCEPT ![p] = at]
    BY <1>5, AfterFlushIsPC DEF Buffer, FlushInsert, FlushFail, DeadLetter, IdleFlush, Drain
  <2>2. trip' \subseteq trip \cup buf[p]
    BY <1>5 DEF Buffer, FlushInsert, FlushFail, DeadLetter, IdleFlush, Drain
  <2>3. \A q \in Procs : (buf[q] \cup batch[q] \cup outbox[q])' \subseteq Held(q)
    <3>1. CASE Buffer(p)
      BY <3>1 DEF Buffer
    <3>2. CASE FlushInsert(p)
      BY <3>2 DEF FlushInsert
    <3>5. CASE FlushFail(p)
      BY <3>5 DEF FlushFail
    <3>3. CASE DeadLetter(p)
      BY <3>3 DEF DeadLetter
    <3>4. CASE IdleFlush(p) \/ Drain(p)
      BY <3>4 DEF IdleFlush, Drain
    <3>. QED BY <1>5, <3>1, <3>2, <3>3, <3>4, <3>5
  <2>. QED BY <2>1, <2>2, <2>3
<1>6. ASSUME NEW p \in Procs, Commit(p) \/ Start(p) \/ Crash(p) \/ CommitRefused(p)
      PROVE  StoredOK'
  <2>1. /\ UNCHANGED <<state, trip, dlq, written>>
        /\ \E at \in {"poll", "down"} : pc' = [pc EXCEPT ![p] = at]
        /\ hand' = [hand EXCEPT ![p] = None]
    BY <1>6 DEF Commit, Start, Crash, CommitRefused, Fresh
  <2>2. \A q \in Procs : (buf[q] \cup batch[q] \cup outbox[q])' \subseteq Held(q)
    BY <1>6 DEF Commit, Start, Crash, CommitRefused, Fresh
  <2>. QED BY <2>1, <2>2
<1>7. ASSUME NEW p \in Procs, \/ Assign(p) \/ LoseRedis(p) \/ Deliver(p)
                              \/ DeliveryFails(p) \/ RequestStop(p)
      PROVE  StoredOK'
  <2>1. CASE Deliver(p) \/ DeliveryFails(p)
    BY <2>1 DEF Deliver, DeliveryFails
  <2>2. CASE Assign(p) \/ LoseRedis(p) \/ RequestStop(p)
    BY <2>2 DEF Assign, LoseRedis, RequestStop
  <2>. QED BY <1>7, <2>1, <2>2
<1>8. ASSUME NEW d \in Devices, Lapse(d) PROVE StoredOK'
  <2>1. /\ state' = [state EXCEPT ![d] = 0] /\ state[d] > 0
        /\ UNCHANGED <<trip, dlq, written, pc, hand, buf, batch, outbox>>
    BY <1>8 DEF Lapse
  <2>2. \A p \in Procs : pc[p] = "cas" => hand[p].seq > state'[hand[p].dev]
    BY <2>1 DEF HandOK, Events
  <2>. QED BY <2>1, <2>2
<1>9. Produce \/ UNCHANGED vars => StoredOK'
  BY DEF Produce, vars
<1>. QED BY <1>1, <1>2, <1>3, <1>4, <1>5, <1>6, <1>7, <1>8, <1>9 DEF Next, Loop

\* The history has no row of an event that was refused, under the same conditions:
\* CasRead, whose refusal leads to a row all the same, never refuses what the guard
\* let through.
THEOREM HistoryIsStored ==
  ASSUME MaxFaults = 0, MaxZombies = 0 PROVE Spec => []HistoryWasWritten
<1>1. Init => StoredOK
  BY DEF Init, StoredOK, Held
<1>2. LatestInv /\ StoredOK /\ [Next]_vars => StoredOK'
  BY StoredNext
<1>3. StoredOK => HistoryWasWritten
  BY DEF StoredOK, HistoryWasWritten
<1>. QED BY LatestInvariant, <1>1, <1>2, <1>3, PTL DEF Spec

LEMMA PromiseInit == Init => Promise!Init
  BY DEF Init, Promise!Init

\* Every step moves the register by one event, lets it lapse, gives one event up that
\* the register has, or had, caught up with, or stutters.
LEMMA PromiseNext ==
  ASSUME LatestInv, [Next]_vars PROVE [Promise!Next]_(Promise!vars)
<1> USE DEF LatestInv, CoverInv, TypeInv, TypeOK
<1>1. ASSUME NEW p \in Procs, CasWrite(p) PROVE Promise!Apply(hand[p]) /\ hand[p] \in Events
  <2>1. /\ hand[p] \in Events /\ hand[p].seq > state[hand[p].dev]
        /\ state' = [state EXCEPT ![hand[p].dev] = hand[p].seq]
        /\ written' = written \cup {hand[p]}
        /\ UNCHANGED settled
    BY <1>1 DEF CasWrite, Store, HandOK, LinkOK, LatestOK
  <2>. QED BY <2>1 DEF Promise!Apply
<1>2. ASSUME NEW p \in Procs, Commit(p), hand[p] \in Events
      PROVE  Promise!GiveUp(hand[p])
  <2>1. /\ Covered(hand[p]) /\ UNCHANGED <<state, written>>
        /\ settled' = settled \cup {hand[p]}
    BY <1>2, MessageAssumption DEF Commit, CoverOK
  <2>. QED BY <2>1 DEF Covered, Promise!GiveUp
<1>3. ASSUME NEW p \in Procs, Commit(p), hand[p] \notin Events
      PROVE  UNCHANGED <<state, written, settled>>
  BY <1>3, MessageAssumption DEF Commit, HandOK
<1>4. ASSUME NEW p \in Procs, Loop(p), ~CasWrite(p), ~Commit(p)
      PROVE  UNCHANGED <<state, written, settled>>
  BY <1>4, Zenon DEF Loop, Poll, Guard, CasRead, Buffer, FlushInsert, FlushFail,
     DeadLetter, CommitRefused, Fresh, IdleFlush, Drain
<1>5. ASSUME NEW p \in Procs, \/ Assign(p) \/ Deliver(p) \/ DeliveryFails(p) \/ Start(p)
                              \/ LoseRedis(p) \/ RequestStop(p) \/ Crash(p)
      PROVE  UNCHANGED <<state, written, settled>>
  BY <1>5 DEF Assign, Deliver, DeliveryFails, Start, LoseRedis, RequestStop, Crash
<1>6. Produce \/ UNCHANGED vars => UNCHANGED <<state, written, settled>>
  BY DEF Produce, vars
<1>7. ASSUME NEW d \in Devices, Lapse(d) PROVE Promise!Lapse(d)
  BY <1>7 DEF Lapse, Promise!Lapse
<1>8. /\ \A e \in Events : Promise!Apply(e) \/ Promise!GiveUp(e) => Promise!Next
      /\ \A d \in Devices : Promise!Lapse(d) => Promise!Next
  BY DEF Promise!Next, Promise!Events, Events
<1>. QED
  BY <1>1, <1>2, <1>3, <1>4, <1>5, <1>6, <1>7, <1>8 DEF Next, Promise!vars

\* The processor implements the register of LatestValue: what readers see moves up,
\* event by event, until the record lapses, and no event is given up before it, or a
\* newer one, was in there.
THEOREM Implements ==
  ASSUME MaxFaults = 0, MaxZombies = 0 PROVE Spec => KeepsPromise
<1>1. LatestInv /\ [Next]_vars => [Promise!Next]_(Promise!vars)
  BY PromiseNext
<1>. QED BY LatestInvariant, PromiseInit, <1>1, PTL DEF Spec, KeepsPromise, Promise!Spec
=============================================================================
