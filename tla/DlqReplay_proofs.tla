-------------------------- MODULE DlqReplay_proofs --------------------------
(***************************************************************************)
(* Proofs about DlqReplay, for any rows, limits and numbers of crashes and *)
(* outages.                                                                *)
(***************************************************************************)
EXTENDS DlqReplay, TLAPS

\* A message in hand has not been committed, and its pass may handle it.
InHandOK ==
    pc \in {"write", "commit"} => committed < position /\ handled < MaxMessages

\* Everything the consumer has gone past is in PostGIS or was given up on.
PassedOK == \A o \in Offsets :
    /\ o < position
    /\ ~(pc = "write" /\ o = InHand)
    /\ Readable(o)
    => At(o) \in trip \/ o \in deferred

Inv == TypeOK /\ InHandOK /\ PassedOK

LEMMA InvInit == Init => Inv
  BY DlqAssumption DEF Init, Inv, TypeOK, InHandOK, PassedOK, Offsets

LEMMA InvNext == Inv /\ [Next]_vars => Inv'
<1> SUFFICES ASSUME Inv, [Next]_vars PROVE Inv'
  OBVIOUS
<1> USE DlqAssumption DEF Inv, TypeOK, InHandOK, PassedOK, InHand, Readable
<1>0. \A o \in Offsets : At(o) \in Rows
  BY DEF Offsets, At
<1>1. CASE Arrive
  <2>1. PICK r \in Rows : log' = Append(log, r)
    BY <1>1 DEF Arrive
  <2>2. /\ log' \in Seq(Rows) /\ Len(log') = Len(log) + 1
        /\ \A o \in Offsets : o \in Offsets' /\ At(o)' = At(o)
    BY <2>1 DEF Offsets, At
  <2>3. \A o \in Offsets' : o < position => o \in Offsets
    BY <2>2 DEF Offsets
  <2>4. PassedOK'
    BY <1>1, <2>2, <2>3 DEF Arrive
  <2>. QED BY <1>1, <2>2, <2>4 DEF Arrive
<1>2. CASE Flip
  BY <1>2 DEF Flip, Offsets, At
<1>3. CASE RunOnce \/ PassEnds
  <2>1. TypeOK' /\ InHandOK'
    <3>1. handled' \in 0..MaxMessages /\ pc' \in {"idle", "poll"}
      BY <1>3 DEF RunOnce, PassEnds
    <3>2. UNCHANGED <<log, position, committed, trip, up, attempt, deferred, crashes, flips>>
      BY <1>3 DEF RunOnce, PassEnds
    <3>. QED BY <3>1, <3>2
  <2>2. PassedOK'
    BY <1>3 DEF RunOnce, PassEnds, Offsets, At
  <2>. QED BY <2>1, <2>2
<1>4. CASE Poll
  <2>1. TypeOK' /\ InHandOK'
    BY <1>4 DEF Poll
  <2>2. /\ UNCHANGED <<log, trip, deferred>> /\ position' = position + 1 /\ pc = "poll"
        /\ pc' = IF At(position) \in Unreadable THEN "commit" ELSE "write"
    BY <1>4 DEF Poll
  <2>3. Offsets' = Offsets /\ \A o : At(o)' = At(o)
    BY <2>2 DEF Offsets, At
  <2>4. \A o \in Offsets : o < position + 1 => o < position \/ o = position
    BY DEF Offsets
  <2>5. PassedOK'
    BY <2>2, <2>3, <2>4
  <2>. QED BY <2>1, <2>5
<1>5. CASE WriteSucceeds
  <2>1. InHand \in Offsets
    BY <1>5 DEF WriteSucceeds, Offsets
  <2>2. Offsets' = Offsets /\ \A o : At(o)' = At(o)
    BY <1>5 DEF WriteSucceeds, Offsets, At
  <2>3. TypeOK' /\ InHandOK'
    BY <1>0, <1>5, <2>1 DEF WriteSucceeds
  <2>4. PassedOK'
    BY <1>5, <2>2 DEF WriteSucceeds
  <2>. QED BY <2>3, <2>4
<1>6. CASE WriteFails
  <2>1. InHand \in Offsets
    BY <1>6 DEF WriteFails, Offsets
  <2>2. Offsets' = Offsets /\ \A o : At(o)' = At(o)
    BY <1>6 DEF WriteFails, Offsets, At
  <2>3. TypeOK' /\ InHandOK'
    <3>1. trip' \subseteq Rows
      BY <1>0, <1>6, <2>1 DEF WriteFails
    <3>2. deferred' \subseteq Nat
      <4>1. deferred' = deferred \/ deferred' = deferred \cup {InHand}
        BY <1>6 DEF WriteFails
      <4>2. InHand \in Nat
        BY <2>1 DEF Offsets
      <4>. QED BY <4>1, <4>2
    <3>. QED BY <1>6, <3>1, <3>2 DEF WriteFails
  <2>4. PassedOK'
    BY <1>6, <2>2 DEF WriteFails
  <2>. QED BY <2>3, <2>4
<1>7. CASE Commit
  BY <1>7 DEF Commit, Offsets, At
<1>8. CASE Crash
  BY <1>8 DEF Crash, Offsets, At
<1>9. CASE UNCHANGED vars
  BY <1>9 DEF vars, Offsets, At
<1>. QED BY <1>1, <1>2, <1>3, <1>4, <1>5, <1>6, <1>7, <1>8, <1>9 DEF Next, Work

LEMMA Invariant == Spec => []Inv
  BY InvInit, InvNext, PTL DEF Spec

\* The replay worker's state is well typed, and its position never falls behind
\* its commit.
THEOREM TypeCorrect == Spec => []TypeOK
  BY Invariant, PTL DEF Inv

\* A row leaves the dead-letter topic for PostGIS, or because a pass gave up on
\* it: no crash between insert and commit and no failed insert loses another.
THEOREM OnlyDeferredIsLost == Spec => []LostOnlyWhenDeferred
<1>1. Inv => LostOnlyWhenDeferred
  BY DEF Inv, TypeOK, InHandOK, PassedOK, LostOnlyWhenDeferred, InHand, Offsets
<1>. QED BY <1>1, Invariant, PTL

\* The committed offset never goes back.
THEOREM CommitIsMonotone == Spec => CommitNeverGoesBack
<1>1. Inv /\ [Next]_vars => [committed' >= committed]_committed
  BY DEF Inv, TypeOK, InHandOK, InHand, Next, Work, Arrive, Flip, RunOnce, PassEnds, Poll,
     WriteSucceeds, WriteFails, Commit, Crash, vars
<1>. QED BY <1>1, Invariant, PTL DEF Spec, CommitNeverGoesBack
=============================================================================
