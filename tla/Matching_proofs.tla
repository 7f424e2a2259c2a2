--------------------------- MODULE Matching_proofs ---------------------------
(***************************************************************************)
(* Proofs about Matching, for any requests, agents, servers and topics.    *)
(***************************************************************************)
EXTENDS Matching, FiniteSetTheorems, TLAPS

USE DEF server, producers, Goto

\* The message in hand is the last one polled, and reservations, releases and
\* the outcome are where the loop says.
HandOK == \A s \in Servers :
    /\ pc[s] = "idle" => hand[s] = None
    /\ pc[s] # "idle" => /\ position[s] > committed[s]
                         /\ hand[s] = Inbox[s][position[s]]
    /\ pc[s] \notin {"idle", "commit"} => hand[s] \in Requests
    /\ pc[s] = "publish" => verdict[s] \in Verdicts
    /\ pc[s] = "commit" /\ hand[s] # Garbage => verdict[s] \in Verdicts
    /\ pc[s] = "del" => target[s] \in freeing[s]
    /\ freeing[s] \subseteq mine[s]

TypeInv == TypeOK /\ HandOK

LEMMA TypeInit == Init => TypeInv
  BY MatchingAssumption DEF Init, TypeInv, TypeOK, HandOK

LEMMA ClearType ==
  ASSUME TypeInv, NEW s \in Servers, Clear(s)
  PROVE  /\ pc' \in [Servers -> {"idle", "match", "free", "del", "publish", "commit"}]
         /\ hand' \in [Servers -> Requests \cup {Garbage, None}]
         /\ cands' \in [Servers -> SUBSET Agents] /\ mine' \in [Servers -> SUBSET Agents]
         /\ freeing' \in [Servers -> SUBSET Agents]
         /\ target' \in [Servers -> Agents \cup {None}]
         /\ verdict' \in [Servers -> Verdicts \cup {None}]
         /\ pc'[s] = "idle" /\ hand'[s] = None /\ freeing'[s] = {} /\ mine'[s] = {}
         /\ \A t \in Servers \ {s} :
              /\ pc'[t] = pc[t] /\ hand'[t] = hand[t] /\ verdict'[t] = verdict[t]
              /\ target'[t] = target[t] /\ freeing'[t] = freeing[t] /\ mine'[t] = mine[t]
  BY DEF Clear, TypeInv, TypeOK

LEMMA PolledType ==
  ASSUME NEW s \in Servers, NEW n \in Nat, n < Len(Inbox[s])
  PROVE  Inbox[s][n + 1] \in Requests \cup {Garbage}
<1>1. Inbox[s] \in Seq(Requests \cup {Garbage})
  BY MatchingAssumption
<1>. QED BY <1>1

LEMMA AddAgent ==
  ASSUME NEW f \in [Servers -> SUBSET Agents], NEW s \in Servers, NEW a \in Agents
  PROVE  [f EXCEPT ![s] = @ \cup {a}] \in [Servers -> SUBSET Agents]
<1>1. f[s] \cup {a} \in SUBSET Agents
  OBVIOUS
<1>. QED BY <1>1

LEMMA AddResult ==
  ASSUME NEW f \in [Servers -> SUBSET Results], NEW s \in Servers, NEW x \in Results
  PROVE  [f EXCEPT ![s] = @ \cup {x}] \in [Servers -> SUBSET Results]
<1>1. f[s] \cup {x} \in SUBSET Results
  OBVIOUS
<1>. QED BY <1>1

LEMMA TypeNext == TypeInv /\ [Next]_vars => TypeInv'
<1> SUFFICES ASSUME TypeInv, [Next]_vars PROVE TypeInv'
  OBVIOUS
<1> USE DEF TypeInv, TypeOK, HandOK
<1>1. ASSUME NEW s \in Servers, Poll(s) PROVE TypeInv'
  <2>. DEFINE m == Inbox[s][position[s] + 1]
  <2>1. /\ pc[s] = "idle" /\ position[s] < Len(Inbox[s])
        /\ position' = [position EXCEPT ![s] = @ + 1]
        /\ hand' = [hand EXCEPT ![s] = m]
        /\ UNCHANGED <<holder, committed, mine, freeing, target, producers, failed, lapses,
                       crashes>>
    BY <1>1 DEF Poll
  <2>2. m \in Requests \cup {Garbage} /\ m # None
    BY <2>1, PolledType, MatchingAssumption
  <2>3. \/ /\ m = Garbage /\ pc' = [pc EXCEPT ![s] = "commit"]
           /\ UNCHANGED <<cands, verdict>>
        \/ /\ m # Garbage /\ pc' = [pc EXCEPT ![s] = "publish"] /\ UNCHANGED cands
           /\ \E v \in Verdicts : verdict' = [verdict EXCEPT ![s] = v]
        \/ /\ m # Garbage /\ pc' = [pc EXCEPT ![s] = "match"] /\ UNCHANGED verdict
           /\ \E near \in SUBSET Agents : cands' = [cands EXCEPT ![s] = near]
    <3>1. \A status \in {"expired", "failed"} : Refused(status) \in Verdicts
      BY DEF Refused, Verdicts
    <3>. QED BY <1>1, <3>1, Zenon DEF Poll
  <2>4. TypeOK'
    <3>1. /\ pc' \in [Servers -> {"idle", "match", "free", "del", "publish", "commit"}]
          /\ cands' \in [Servers -> SUBSET Agents]
          /\ verdict' \in [Servers -> Verdicts \cup {None}]
      <4>1. /\ \E at \in {"commit", "publish", "match"} : pc' = [pc EXCEPT ![s] = at]
            /\ UNCHANGED cands \/ \E near \in SUBSET Agents : cands' = [cands EXCEPT ![s] = near]
            /\ UNCHANGED verdict \/ \E v \in Verdicts : verdict' = [verdict EXCEPT ![s] = v]
        BY <2>3, Zenon
      <4>2. pc' \in [Servers -> {"idle", "match", "free", "del", "publish", "commit"}]
        BY <4>1
      <4>3. cands' \in [Servers -> SUBSET Agents]
        BY <4>1
      <4>4. verdict' \in [Servers -> Verdicts \cup {None}]
        BY <4>1
      <4>. QED BY <4>2, <4>3, <4>4
    <3>2. hand' \in [Servers -> Requests \cup {Garbage, None}]
      BY <2>1, <2>2
    <3>3. /\ position' \in [Servers -> Nat]
          /\ \A t \in Servers : committed[t] <= position'[t] /\ position'[t] <= Len(Inbox[t])
      BY <2>1, MatchingAssumption
    <3>. QED BY <2>1, <3>1, <3>2, <3>3
  <2>5. HandOK'
    BY <2>1, <2>2, <2>3, MatchingAssumption
  <2>. QED BY <2>4, <2>5
<1>2. ASSUME NEW s \in Servers, Reserve(s) PROVE TypeInv'
  <2>1. /\ holder' \in [Agents -> Requests \cup {None}]
        /\ cands' \in [Servers -> SUBSET Agents] /\ mine' \in [Servers -> SUBSET Agents]
        /\ \A t \in Servers : mine[t] \subseteq mine'[t]
    <3>1. PICK a \in Agents :
             /\ cands' = [cands EXCEPT ![s] = @ \ {a}]
             /\ \/ UNCHANGED <<holder, mine>>
                \/ /\ holder' = [holder EXCEPT ![a] = hand[s]] /\ pc[s] = "match"
                   /\ mine' = [mine EXCEPT ![s] = @ \cup {a}]
      BY <1>2 DEF Reserve
    <3>2. holder' \in [Agents -> Requests \cup {None}]
      BY <3>1
    <3>3. cands' \in [Servers -> SUBSET Agents]
      BY <3>1
    <3>4. mine' = mine \/ mine' = [mine EXCEPT ![s] = @ \cup {a}]
      BY <3>1
    <3>5. mine' \in [Servers -> SUBSET Agents]
      <4>1. mine \in [Servers -> SUBSET Agents]
        OBVIOUS
      <4>2. [mine EXCEPT ![s] = @ \cup {a}] \in [Servers -> SUBSET Agents]
        BY <4>1, AddAgent, Zenon
      <4>. HIDE DEF TypeInv
      <4>. QED BY <3>4, <4>1, <4>2, Zenon
    <3>6. \A t \in Servers : mine[t] \subseteq mine'[t]
      BY <3>4
    <3>. QED BY <3>2, <3>3, <3>5, <3>6
  <2>2. UNCHANGED <<position, committed, pc, hand, freeing, target, verdict, producers,
                    failed, lapses, crashes>>
    BY <1>2 DEF Reserve
  <2>. QED BY <2>1, <2>2
<1>3. ASSUME NEW s \in Servers, Rollback(s) PROVE TypeInv'
  BY <1>3 DEF Rollback
<1>4. ASSUME NEW s \in Servers, Answer(s) PROVE TypeInv'
  <2>1. PICK v \in Verdicts, f \in SUBSET mine[s] :
           verdict' = [verdict EXCEPT ![s] = v] /\ freeing' = [freeing EXCEPT ![s] = f]
    BY <1>4 DEF Answer, Verdicts, Refused
  <2>. QED BY <1>4, <2>1 DEF Answer
<1>5. ASSUME NEW s \in Servers, GetHolder(s) PROVE TypeInv'
  <2>1. PICK a \in freeing[s] :
           \/ /\ target' = [target EXCEPT ![s] = a] /\ pc' = [pc EXCEPT ![s] = "del"]
              /\ UNCHANGED <<freeing, mine>>
           \/ Forget(s, a) /\ UNCHANGED <<target, pc>>
    BY <1>5 DEF GetHolder
  <2>2. UNCHANGED <<holder, position, committed, hand, cands, verdict, producers, failed,
                    lapses, crashes>> /\ pc[s] = "free"
    BY <1>5 DEF GetHolder
  <2>3. CASE target' = [target EXCEPT ![s] = a] /\ pc' = [pc EXCEPT ![s] = "del"]
             /\ UNCHANGED <<freeing, mine>>
    BY <2>2, <2>3
  <2>4. CASE Forget(s, a) /\ UNCHANGED <<target, pc>>
    BY <2>2, <2>4 DEF Forget
  <2>. QED BY <2>1, <2>3, <2>4
<1>6. ASSUME NEW s \in Servers, Del(s) PROVE TypeInv'
  BY <1>6 DEF Del, Forget
<1>7. ASSUME NEW s \in Servers, Freed(s) PROVE TypeInv'
  BY <1>7 DEF Freed
<1>8. ASSUME NEW s \in Servers, Publish(s) \/ PublishFails(s) PROVE TypeInv'
  <2>1. Outcome(s) \in Results
    BY <1>8 DEF Publish, PublishFails, Outcome, Results
  <2>2. CASE Publish(s)
    BY <2>1, <2>2 DEF Publish
  <2>3. CASE PublishFails(s)
    <3>1. /\ outbox' \in [Servers -> SUBSET Results] /\ failed' \subseteq Requests
          /\ UNCHANGED <<holder, position, committed, results, dropped, lapses, crashes>>
          /\ Clear(s)
      <4>1. /\ failed' = failed \cup {hand[s]} /\ hand[s] \in Requests
            /\ UNCHANGED <<holder, position, committed, results, dropped, lapses, crashes>>
            /\ Clear(s)
        BY <2>3 DEF PublishFails
      <4>2. outbox' = outbox \/ outbox' = [outbox EXCEPT ![s] = @ \cup {Outcome(s)}]
        BY <2>3 DEF PublishFails
      <4>3. outbox' \in [Servers -> SUBSET Results]
        <5>1. outbox \in [Servers -> SUBSET Results]
          OBVIOUS
        <5>2. [outbox EXCEPT ![s] = @ \cup {Outcome(s)}] \in [Servers -> SUBSET Results]
          BY <2>1, <5>1, AddResult, Zenon
        <5>. HIDE DEF TypeInv
        <5>. QED BY <4>2, <5>1, <5>2, Zenon
      <4>. QED BY <4>1, <4>3
    <3>2. TypeOK'
      BY <3>1, ClearType
    <3>3. HandOK'
      <4>1. UNCHANGED <<position, committed>> /\ Clear(s)
        BY <3>1
      <4>. HIDE DEF TypeOK
      <4>. QED BY <4>1, ClearType
    <3>. QED BY <3>2, <3>3
  <2>. QED BY <1>8, <2>2, <2>3
<1>9. ASSUME NEW s \in Servers, Commit(s) PROVE TypeInv'
  BY <1>9, ClearType DEF Commit
<1>10. ASSUME NEW s \in Servers, Crash(s) PROVE TypeInv'
  BY <1>10, ClearType DEF Crash
<1>11. ASSUME NEW a \in Agents, Lapse(a) PROVE TypeInv'
  BY <1>11 DEF Lapse
<1>12. CASE UNCHANGED vars
  BY <1>12 DEF vars
<1>13. ASSUME NEW s \in Servers, Deliver(s) PROVE TypeInv'
  BY <1>13 DEF Deliver
<1>14. ASSUME NEW s \in Servers, DeliveryFails(s) PROVE TypeInv'
  BY <1>14 DEF DeliveryFails
<1>. QED
  BY <1>1, <1>2, <1>3, <1>4, <1>5, <1>6, <1>7, <1>8, <1>9, <1>10, <1>11, <1>12, <1>13,
     <1>14
  DEF Next, Work, Ship

LEMMA TypeInvariant == Spec => []TypeInv
  BY TypeInit, TypeNext, PTL DEF Spec

\* The matching servers are well typed in every reachable state.
THEOREM TypeCorrect == Spec => []TypeOK
  BY TypeInvariant, PTL DEF TypeInv
-----------------------------------------------------------------------------
(* What a producer has accepted, wherever it is by now.                    *)

Sent == results \cup dropped \cup UNION {outbox[s] : s \in Servers}

LEMMA SentType == TypeInv => Sent \subseteq Results
  BY DEF TypeInv, TypeOK, Sent

LEMMA SentInit == Init => Sent = {}
  BY DEF Init, Sent

LEMMA SentPublish ==
  ASSUME TypeInv, NEW s \in Servers,
         outbox' = [outbox EXCEPT ![s] = @ \cup {Outcome(s)}],
         results' = results, dropped' = dropped
  PROVE  Sent' = Sent \cup {Outcome(s)}
<1> DEFINE o == Outcome(s)
<1>1. outbox'[s] = outbox[s] \cup {o} /\ \A t \in Servers \ {s} : outbox'[t] = outbox[t]
  BY DEF TypeInv, TypeOK
<1> HIDE DEF o
<1>2. Sent' = Sent \cup {o}
  BY <1>1 DEF Sent
<1>. QED BY <1>2 DEF o

LEMMA SentPublishFails ==
  ASSUME TypeInv, NEW s \in Servers, PublishFails(s)
  PROVE  Sent' \in {Sent, Sent \cup {Outcome(s)}}
<1>1. results' = results /\ dropped' = dropped
  BY DEF PublishFails
<1>2. outbox' = outbox \/ outbox' = [outbox EXCEPT ![s] = @ \cup {Outcome(s)}]
  BY DEF PublishFails
<1>3. CASE outbox' = outbox
  BY <1>1, <1>3 DEF Sent
<1>4. CASE outbox' = [outbox EXCEPT ![s] = @ \cup {Outcome(s)}]
  BY <1>1, <1>4, SentPublish
<1>. QED BY <1>2, <1>3, <1>4

\* A delivery, a failed one and a crash take results out of an outbox and keep them.
LEMMA SentMoves ==
  ASSUME TypeInv, NEW s \in Servers, Ship(s) \/ Crash(s)
  PROVE  Sent' = Sent
<1>1. PICK X \in SUBSET outbox[s] :
         /\ outbox' = [outbox EXCEPT ![s] = @ \ X]
         /\ results' \cup dropped' = results \cup dropped \cup X
  <2>1. CASE Deliver(s)
    <3>1. PICK x \in outbox[s] : /\ outbox' = [outbox EXCEPT ![s] = @ \ {x}]
                                 /\ results' = results \cup {x} /\ dropped' = dropped
      BY <2>1 DEF Deliver
    <3>2. {x} \in SUBSET outbox[s] /\ results' \cup dropped' = results \cup dropped \cup {x}
      BY <3>1
    <3>. QED BY <3>1, <3>2
  <2>2. CASE DeliveryFails(s)
    <3>1. PICK x \in outbox[s] : /\ outbox' = [outbox EXCEPT ![s] = @ \ {x}]
                                 /\ dropped' = dropped \cup {x} /\ results' = results
      BY <2>2 DEF DeliveryFails
    <3>2. {x} \in SUBSET outbox[s] /\ results' \cup dropped' = results \cup dropped \cup {x}
      BY <3>1
    <3>. QED BY <3>1, <3>2
  <2>3. CASE Crash(s)
    <3>1. /\ outbox' = [outbox EXCEPT ![s] = {}]
          /\ dropped' = dropped \cup outbox[s] /\ results' = results
      BY <2>3 DEF Crash
    <3>2. outbox' = [outbox EXCEPT ![s] = @ \ outbox[s]]
      BY <3>1 DEF TypeInv, TypeOK
    <3>. QED BY <3>1, <3>2
  <2>. QED BY <2>1, <2>2, <2>3 DEF Ship
<1>2. outbox'[s] = outbox[s] \ X /\ \A t \in Servers \ {s} : outbox'[t] = outbox[t]
  BY <1>1 DEF TypeInv, TypeOK
<1>. QED BY <1>1, <1>2 DEF Sent

\* The other steps leave the producers alone.
LEMMA SentStays ==
  ASSUME [Next]_vars, \A s \in Servers : ~Publish(s) /\ ~PublishFails(s),
         \A s \in Servers : ~Ship(s) /\ ~Crash(s)
  PROVE  Sent' = Sent /\ UNCHANGED crashes
<1>1. UNCHANGED <<producers, crashes>>
  BY DEF Next, Work, Poll, Reserve, Rollback, Answer, GetHolder, Del, Freed, Commit, Lapse,
     vars
<1>. QED BY <1>1 DEF Sent
-----------------------------------------------------------------------------
(* While no reservation lapses, an agent on a request's list is held by    *)
(* that request and by no other, and the agents of a published result stay *)
(* with it: what is released is always on a list, and a request that has   *)
(* published its result releases nothing any more.                         *)

ListOK(s) ==
    /\ pc[s] = "idle" => mine[s] = {}
    /\ pc[s] \in {"idle", "match"} => verdict[s] = None
    /\ pc[s] \notin {"free", "del"} => freeing[s] = {}
    /\ verdict[s] # None => verdict[s].agents \subseteq mine[s] \ freeing[s]
    /\ pc[s] = "publish" => verdict[s].agents \subseteq mine[s]
    /\ \A a \in mine[s] : holder[a] = hand[s] /\ holder[a] # None

AssignedOK ==
    \A x \in Sent : \A a \in x.answer.agents :
        /\ holder[a] = x.req
        /\ \A s \in Servers : a \in mine[s] => pc[s] = "commit"

HeldInv == /\ \A s \in Servers : ListOK(s)
           /\ \A s, t \in Servers : s # t => mine[s] \cap mine[t] = {}
           /\ AssignedOK

LEMMA NoneIsNone == None \notin Requests /\ None \notin Agents /\ Garbage \notin Requests
  BY MatchingAssumption

LEMMA HeldInit == Init => HeldInv
  BY SentInit DEF Init, HeldInv, ListOK, AssignedOK

\* What Clear leaves of the invariant when Redis stays as it is.
LEMMA HeldClear ==
  ASSUME TypeInv, HeldInv, NEW s \in Servers, Clear(s), holder' = holder,
         \A x \in Sent' : x \in Sent \/ x.answer.agents = {}
                             \/ (x.req = hand[s] /\ x.answer.agents \subseteq mine[s])
  PROVE  HeldInv'
<1>1. /\ \A t \in Servers \ {s} :
            /\ pc'[t] = pc[t] /\ hand'[t] = hand[t] /\ verdict'[t] = verdict[t]
            /\ freeing'[t] = freeing[t] /\ mine'[t] = mine[t]
      /\ pc'[s] = "idle" /\ mine'[s] = {} /\ freeing'[s] = {}
  BY ClearType
<1>2. verdict'[s] = None
  BY DEF Clear, TypeInv, TypeOK
<1>3. \A t \in Servers : ListOK(t)'
  BY <1>1, <1>2 DEF HeldInv, ListOK
<1>4. \A t, u \in Servers : t # u => mine'[t] \cap mine'[u] = {}
  BY <1>1 DEF HeldInv
<1>5. AssignedOK'
  <2>. SUFFICES ASSUME NEW x \in Sent', NEW a \in x.answer.agents
                PROVE  /\ holder[a] = x.req
                       /\ \A t \in Servers : a \in mine'[t] => pc'[t] = "commit"
    BY DEF AssignedOK
  <2>1. CASE x \in Sent
    BY <2>1, <1>1 DEF HeldInv, AssignedOK
  <2>2. CASE x.req = hand[s] /\ x.answer.agents \subseteq mine[s]
    BY <2>2, <1>1 DEF HeldInv, ListOK
  <2>. QED BY <2>1, <2>2
<1>. QED BY <1>3, <1>4, <1>5 DEF HeldInv

LEMMA HeldNext ==
  ASSUME lapses' = 0, TypeInv, HeldInv, [Next]_vars
  PROVE  HeldInv'
<1>0. /\ pc \in [Servers -> {"idle", "match", "free", "del", "publish", "commit"}]
      /\ mine \in [Servers -> SUBSET Agents] /\ freeing \in [Servers -> SUBSET Agents]
      /\ holder \in [Agents -> Requests \cup {None}]
      /\ hand \in [Servers -> Requests \cup {Garbage, None}]
      /\ verdict \in [Servers -> Verdicts \cup {None}]
      /\ lapses \in Nat
      /\ HandOK
  BY DEF TypeInv, TypeOK
<1>1. ASSUME NEW s \in Servers, Poll(s) PROVE HeldInv'
  <2>1. /\ UNCHANGED <<holder, mine, freeing, Sent>> /\ pc[s] = "idle"
        /\ hand' = [hand EXCEPT ![s] = Inbox[s][position[s] + 1]]
        /\ \/ pc' = [pc EXCEPT ![s] = "commit"] /\ UNCHANGED verdict
           \/ /\ pc' = [pc EXCEPT ![s] = "publish"]
              /\ \E status \in {"expired", "failed"} :
                    verdict' = [verdict EXCEPT ![s] = Refused(status)]
           \/ pc' = [pc EXCEPT ![s] = "match"] /\ UNCHANGED verdict
    BY <1>1 DEF Poll, Sent
  <2>. QED BY <1>0, <2>1 DEF HeldInv, ListOK, AssignedOK, Refused
<1>2. ASSUME NEW s \in Servers, Reserve(s) PROVE HeldInv'
  <2>1. PICK a \in Agents :
           \/ UNCHANGED <<holder, mine>>
           \/ /\ holder[a] = None
              /\ holder' = [holder EXCEPT ![a] = hand[s]]
              /\ mine' = [mine EXCEPT ![s] = @ \cup {a}]
    BY <1>0, <1>2 DEF Reserve, TypeInv, TypeOK
  <2>2. UNCHANGED <<pc, hand, freeing, verdict, Sent>> /\ pc[s] = "match"
    BY <1>2 DEF Reserve, Sent
  <2>3. hand[s] \in Requests
    BY <1>0, <2>2 DEF HandOK
  <2>4. CASE UNCHANGED <<holder, mine>>
    BY <2>2, <2>4 DEF HeldInv, ListOK, AssignedOK
  <2>5. CASE /\ holder[a] = None
             /\ holder' = [holder EXCEPT ![a] = hand[s]]
             /\ mine' = [mine EXCEPT ![s] = @ \cup {a}]
    <3>1. \A t \in Servers : a \notin mine[t]
      BY <2>5 DEF HeldInv, ListOK
    <3>2. \A x \in Sent : a \notin x.answer.agents
      <4>1. \A x \in Sent : x.req \in Requests
        BY SentType DEF Results
      <4>. QED BY <4>1, <2>5, NoneIsNone DEF HeldInv, AssignedOK
    <3>3. /\ \A b \in Agents \ {a} : holder'[b] = holder[b]
          /\ holder'[a] = hand[s] /\ hand[s] # None
          /\ mine'[s] = mine[s] \cup {a}
          /\ \A t \in Servers \ {s} : mine'[t] = mine[t]
      BY <1>0, <2>3, <2>5, NoneIsNone
    <3>4. \A t \in Servers : ListOK(t)'
      <4>. SUFFICES ASSUME NEW t \in Servers PROVE ListOK(t)'
        OBVIOUS
      <4>1. ListOK(t) /\ mine[t] \subseteq Agents
        BY <1>0 DEF HeldInv
      <4>2. CASE t = s
        BY <4>1, <4>2, <2>2, <3>3, <3>1 DEF ListOK
      <4>3. CASE t # s
        BY <4>1, <4>3, <2>2, <3>3, <3>1 DEF ListOK
      <4>. QED BY <4>2, <4>3
    <3>5. \A t, u \in Servers : t # u => mine'[t] \cap mine'[u] = {}
      BY <3>1, <3>3 DEF HeldInv
    <3>6. AssignedOK'
      <4>. SUFFICES ASSUME NEW x \in Sent, NEW b \in x.answer.agents
                    PROVE  /\ holder'[b] = x.req
                           /\ \A t \in Servers : b \in mine'[t] => pc[t] = "commit"
        BY <2>2 DEF AssignedOK
      <4>1. b # a /\ b \in Agents
        BY <3>2, SentType DEF Results, Verdicts
      <4>. QED BY <4>1, <3>3 DEF HeldInv, AssignedOK
    <3>. QED BY <3>4, <3>5, <3>6 DEF HeldInv
  <2>. QED BY <2>1, <2>4, <2>5
<1>3. ASSUME NEW s \in Servers, Rollback(s) PROVE HeldInv'
  <2>1. Sent' = Sent
    BY <1>3 DEF Rollback, Sent
  <2>. QED BY <1>0, <1>3, <2>1 DEF Rollback, HeldInv, ListOK, AssignedOK
<1>4. ASSUME NEW s \in Servers, Answer(s) PROVE HeldInv'
  <2>1. /\ UNCHANGED <<holder, hand, mine, Sent>> /\ pc[s] = "match"
        /\ pc' = [pc EXCEPT ![s] = "free"]
    BY <1>4 DEF Answer, Sent
  <2>2. \E v \in Verdicts, f \in SUBSET Agents :
           /\ verdict' = [verdict EXCEPT ![s] = v] /\ freeing' = [freeing EXCEPT ![s] = f]
           /\ v.agents \subseteq mine[s] \ f
    <3>1. PICK agents \in SUBSET Agents :
             IF agents # {} /\ agents \subseteq mine[s]
             THEN /\ verdict' = [verdict EXCEPT
                                   ![s] = [status |-> "matched", agents |-> agents]]
                  /\ freeing' = [freeing EXCEPT ![s] = mine[s] \ agents]
             ELSE /\ verdict' = [verdict EXCEPT ![s] = Refused("failed")]
                  /\ freeing' = [freeing EXCEPT ![s] = mine[s]]
      BY <1>4 DEF Answer, Sent
    <3>2. mine[s] \subseteq Agents
      BY <1>0
    <3>3. CASE agents # {} /\ agents \subseteq mine[s]
      <4>1. [status |-> "matched", agents |-> agents] \in Verdicts
        BY DEF Verdicts
      <4>2. [status |-> "matched", agents |-> agents].agents
                \subseteq mine[s] \ (mine[s] \ agents)
        BY <3>3
      <4>. QED BY <3>1, <3>2, <3>3, <4>1, <4>2
    <3>4. CASE ~(agents # {} /\ agents \subseteq mine[s])
      <4>1. Refused("failed") \in Verdicts /\ Refused("failed").agents = {}
        BY DEF Verdicts, Refused
      <4>. QED BY <3>1, <3>2, <3>4, <4>1
    <3>. QED BY <3>3, <3>4
  <2>. QED BY <1>0, <2>1, <2>2 DEF HeldInv, ListOK, AssignedOK
<1>5. ASSUME NEW s \in Servers, GetHolder(s) PROVE HeldInv'
  <2>1. /\ UNCHANGED <<holder, hand, verdict, Sent>> /\ pc[s] = "free"
        /\ \/ pc' = [pc EXCEPT ![s] = "del"] /\ UNCHANGED <<freeing, mine>>
           \/ \E a \in freeing[s] : holder[a] # hand[s] /\ Forget(s, a) /\ UNCHANGED pc
    BY <1>5 DEF GetHolder, Sent
  <2>2. \A a \in freeing[s] : holder[a] = hand[s]
    BY <1>0 DEF HandOK, HeldInv, ListOK
  <2>. QED BY <1>0, <2>1, <2>2 DEF HeldInv, ListOK, AssignedOK
<1>6. ASSUME NEW s \in Servers, Del(s) PROVE HeldInv'
  <2>. DEFINE a == target[s]
  <2>1. /\ UNCHANGED <<hand, verdict, Sent>> /\ pc[s] = "del"
        /\ pc' = [pc EXCEPT ![s] = "free"]
        /\ holder' = [holder EXCEPT ![a] = None]
        /\ freeing' = [freeing EXCEPT ![s] = @ \ {a}]
        /\ mine' = [mine EXCEPT ![s] = @ \ {a}]
    BY <1>6 DEF Del, Forget, Sent
  <2>2. a \in freeing[s] /\ a \in mine[s] /\ a \in Agents
    BY <1>0, <2>1 DEF HandOK
  <2>. HIDE DEF a
  <2>3. \A t \in Servers \ {s} : a \notin mine[t]
    BY <2>2 DEF HeldInv
  <2>4. \A x \in Sent : a \notin x.answer.agents
    BY <2>1, <2>2 DEF HeldInv, AssignedOK
  <2>5. /\ \A b \in Agents \ {a} : holder'[b] = holder[b]
        /\ mine'[s] = mine[s] \ {a} /\ freeing'[s] = freeing[s] \ {a} /\ pc'[s] = "free"
        /\ \A t \in Servers \ {s} :
              mine'[t] = mine[t] /\ freeing'[t] = freeing[t] /\ pc'[t] = pc[t]
    BY <1>0, <2>1, <2>2
  <2>6. \A t \in Servers : ListOK(t)'
    <3>. SUFFICES ASSUME NEW t \in Servers PROVE ListOK(t)'
      OBVIOUS
    <3>1. ListOK(t) /\ mine[t] \subseteq Agents
      BY <1>0 DEF HeldInv
    <3>2. CASE t = s
      BY <3>1, <3>2, <2>1, <2>2, <2>5 DEF ListOK
    <3>3. CASE t # s
      BY <3>1, <3>3, <2>1, <2>3, <2>5 DEF ListOK
    <3>. QED BY <3>2, <3>3
  <2>7. \A t, u \in Servers : t # u => mine'[t] \cap mine'[u] = {}
    BY <2>5 DEF HeldInv
  <2>8. AssignedOK'
    <3>. SUFFICES ASSUME NEW x \in Sent, NEW b \in x.answer.agents
                  PROVE  /\ holder'[b] = x.req
                         /\ \A t \in Servers : b \in mine'[t] => pc'[t] = "commit"
      BY <2>1 DEF AssignedOK
    <3>1. b # a /\ b \in Agents
      BY <2>4, SentType DEF Results, Verdicts
    <3>2. holder[b] = x.req /\ \A t \in Servers : b \in mine[t] => pc[t] = "commit"
      BY DEF HeldInv, AssignedOK
    <3>. QED BY <3>1, <3>2, <2>1, <2>5
  <2>. QED BY <2>6, <2>7, <2>8 DEF HeldInv
<1>7. ASSUME NEW s \in Servers, Freed(s) PROVE HeldInv'
  <2>1. /\ UNCHANGED <<holder, hand, mine, freeing, verdict, Sent>>
        /\ pc[s] = "free" /\ freeing[s] = {}
        /\ pc' = [pc EXCEPT ![s] = IF verdict[s] = None THEN "match" ELSE "publish"]
    BY <1>7 DEF Freed, Sent
  <2>. QED BY <1>0, <2>1 DEF HeldInv, ListOK, AssignedOK
<1>8. ASSUME NEW s \in Servers, Publish(s) \/ PublishFails(s) PROVE HeldInv'
  <2>1. /\ Sent' \subseteq Sent \cup {Outcome(s)} /\ pc[s] = "publish"
        /\ holder' = holder
    BY <1>8, SentPublish, SentPublishFails DEF Publish, PublishFails
  <2>2. /\ Outcome(s).req = hand[s] /\ Outcome(s).answer.agents \subseteq mine[s]
    BY <2>1 DEF Outcome, HeldInv, ListOK
  <2>3. CASE PublishFails(s)
    <3>1. Clear(s)
      BY <2>3 DEF PublishFails
    <3>. QED BY <3>1, <2>1, <2>2, HeldClear
  <2>4. CASE Publish(s)
    <3>1. /\ UNCHANGED <<hand, mine, freeing, verdict>>
          /\ pc' = [pc EXCEPT ![s] = "commit"]
      BY <2>4 DEF Publish
    <3>. QED BY <1>0, <2>1, <2>2, <3>1 DEF HeldInv, ListOK, AssignedOK
  <2>. QED BY <1>8, <2>3, <2>4
<1>9. ASSUME NEW s \in Servers, Commit(s) \/ Crash(s) PROVE HeldInv'
  <2>1. Clear(s) /\ holder' = holder /\ Sent' = Sent
    BY <1>9, SentMoves DEF Commit, Crash, Sent
  <2>. QED BY <2>1, HeldClear
<1>10. ASSUME NEW a \in Agents, Lapse(a) PROVE HeldInv'
  BY <1>0, <1>10 DEF Lapse
<1>11. CASE UNCHANGED vars
  <2>1. Sent' = Sent
    BY <1>11 DEF vars, Sent
  <2>. QED BY <1>11, <2>1 DEF vars, HeldInv, ListOK, AssignedOK
<1>12. ASSUME NEW s \in Servers, Ship(s) PROVE HeldInv'
  <2>1. Sent' = Sent /\ UNCHANGED <<holder, server>>
    BY <1>12, SentMoves DEF Ship, Deliver, DeliveryFails
  <2>. QED BY <2>1 DEF HeldInv, ListOK, AssignedOK
<1>. QED
  BY <1>1, <1>2, <1>3, <1>4, <1>5, <1>6, <1>7, <1>8, <1>9, <1>10, <1>11, <1>12
  DEF Next, Work

\* The invariant holds until the first reservation lapses.
UntilLapse == TypeInv /\ (lapses = 0 => HeldInv)

LEMMA LapsesStay == ASSUME TypeInv, [Next]_vars, lapses' = 0 PROVE lapses = 0
<1>1. UNCHANGED lapses \/ lapses' = lapses + 1
  BY DEF Next, Work, Poll, Reserve, Rollback, Answer, GetHolder, Del, Freed, Publish,
     PublishFails, Commit, Crash, Lapse, vars, Ship, Deliver, DeliveryFails
<1>. QED BY <1>1 DEF TypeInv, TypeOK

LEMMA HeldInvariant == Spec => []UntilLapse
<1>1. Init => UntilLapse
  BY TypeInit, HeldInit DEF UntilLapse
<1>2. UntilLapse /\ [Next]_vars => UntilLapse'
  BY TypeNext, HeldNext, LapsesStay DEF UntilLapse
<1>. QED BY <1>1, <1>2, PTL DEF Spec

\* Until a reservation outlives its time to live, no agent is in the results of
\* two requests, whatever servers crash and whichever publish fails.
THEOREM NoDoubleUnlessLapsed == Spec => []ReservationsExclude
<1>1. UntilLapse => ReservationsExclude
  BY DEF UntilLapse, HeldInv, AssignedOK, NoDoubleAssignment, ReservationsExclude, Sent
<1>. QED BY <1>1, HeldInvariant, PTL

\* Until a reservation outlives its time to live, release_agent's DEL removes
\* only a reservation of its own request.
THEOREM OwnReleaseUnlessLapsed == Spec => OnlyHolderReleases
<1>1. UntilLapse =>
         [\A s \in Servers :
             Del(s) /\ lapses = 0 => holder[target[s]] \in {hand[s], None}]_vars
  BY DEF UntilLapse, TypeInv, HandOK, HeldInv, ListOK, Del
<1>. QED BY <1>1, HeldInvariant, PTL DEF OnlyHolderReleases
-----------------------------------------------------------------------------
(* What is behind the message in hand has reached the producer.            *)

Had(s) == results \cup outbox[s] \cup dropped
Served(s, m) == m = Garbage \/ m \in failed \cup {x.req : x \in Had(s)}

BehindOK == \A s \in Servers : \A i \in 1..position[s] :
    i < position[s] \/ pc[s] \in {"idle", "commit"} => Served(s, Inbox[s][i])

LEMMA BehindInit == Init => BehindOK
  BY DEF Init, BehindOK

LEMMA HadGrows ==
  ASSUME TypeInv, [Next]_vars, NEW s \in Servers
  PROVE  Had(s) \subseteq Had(s)'
<1>0. outbox \in [Servers -> SUBSET Results]
  BY DEF TypeInv, TypeOK
<1>1. ASSUME NEW t \in Servers, Publish(t) \/ PublishFails(t) PROVE Had(s) \subseteq Had(s)'
  <2>1. results' = results /\ dropped' = dropped
    BY <1>1 DEF Publish, PublishFails
  <2>2. outbox' = outbox \/ outbox' = [outbox EXCEPT ![t] = @ \cup {Outcome(t)}]
    BY <1>1 DEF Publish, PublishFails
  <2>3. outbox[s] \subseteq outbox'[s]
    BY <1>0, <2>2
  <2>. QED BY <2>1, <2>3 DEF Had
<1>2. ASSUME NEW t \in Servers, Deliver(t) PROVE Had(s) \subseteq Had(s)'
  <2>1. PICK x \in outbox[t] : /\ outbox' = [outbox EXCEPT ![t] = @ \ {x}]
                               /\ results' = results \cup {x} /\ dropped' = dropped
    BY <1>2 DEF Deliver
  <2>2. outbox[s] \subseteq outbox'[s] \cup {x}
    BY <1>0, <2>1
  <2>. QED BY <2>1, <2>2 DEF Had
<1>3. ASSUME NEW t \in Servers, DeliveryFails(t) PROVE Had(s) \subseteq Had(s)'
  <2>1. PICK x \in outbox[t] : /\ outbox' = [outbox EXCEPT ![t] = @ \ {x}]
                               /\ dropped' = dropped \cup {x} /\ results' = results
    BY <1>3 DEF DeliveryFails
  <2>2. outbox[s] \subseteq outbox'[s] \cup {x}
    BY <1>0, <2>1
  <2>. QED BY <2>1, <2>2 DEF Had
<1>4. ASSUME NEW t \in Servers, Crash(t) PROVE Had(s) \subseteq Had(s)'
  <2>1. /\ outbox' = [outbox EXCEPT ![t] = {}]
        /\ dropped' = dropped \cup outbox[t] /\ results' = results
    BY <1>4 DEF Crash
  <2>2. outbox[s] \subseteq outbox'[s] \cup outbox[t]
    BY <1>0, <2>1
  <2>. QED BY <2>1, <2>2 DEF Had
<1>5. UNCHANGED producers => Had(s) \subseteq Had(s)'
  BY DEF Had
<1>6. \/ UNCHANGED producers
      \/ \E t \in Servers : Publish(t) \/ PublishFails(t) \/ Deliver(t) \/ DeliveryFails(t)
                             \/ Crash(t)
  BY DEF Next, Work, Poll, Reserve, Rollback, Answer, GetHolder, Del, Freed, Commit, Lapse,
     vars, Ship
<1>. QED BY <1>1, <1>2, <1>3, <1>4, <1>5, <1>6

LEMMA ServedStays ==
  ASSUME TypeInv, [Next]_vars, NEW s \in Servers, NEW m, Served(s, m)
  PROVE  Served(s, m)'
<1>1. failed \subseteq failed'
  BY DEF Next, Work, Poll, Reserve, Rollback, Answer, GetHolder, Del, Freed, Publish,
     PublishFails, Commit, Crash, Lapse, vars, Ship, Deliver, DeliveryFails
<1>. QED BY <1>1, HadGrows DEF Served

LEMMA BehindNext ==
  ASSUME TypeInv, BehindOK, [Next]_vars
  PROVE  BehindOK'
<1>0. /\ pc \in [Servers -> {"idle", "match", "free", "del", "publish", "commit"}]
      /\ position \in [Servers -> Nat] /\ committed \in [Servers -> Nat]
      /\ \A s \in Servers : committed[s] <= position[s]
      /\ HandOK
  BY DEF TypeInv, TypeOK
<1>. SUFFICES ASSUME NEW s \in Servers, NEW i \in 1..position'[s],
                     i < position'[s] \/ pc'[s] \in {"idle", "commit"}
              PROVE  Served(s, Inbox[s][i])'
  BY DEF BehindOK
<1>1. CASE i \in 1..position[s] /\ (i < position[s] \/ pc[s] \in {"idle", "commit"})
  BY <1>1, ServedStays DEF BehindOK
<1>2. CASE ~(i \in 1..position[s] /\ (i < position[s] \/ pc[s] \in {"idle", "commit"}))
  <2>1. CASE Poll(s)
    BY <1>0, <1>2, <2>1 DEF Poll, Served
  <2>2. CASE Publish(s) \/ PublishFails(s)
    <3>1. UNCHANGED position /\ pc[s] = "publish"
      BY <2>2 DEF Publish, PublishFails
    <3>2. i = position[s] /\ hand[s] = Inbox[s][i]
      BY <1>0, <1>2, <3>1 DEF HandOK
    <3>3. Outcome(s) \in Had(s)' \/ hand[s] \in failed'
      BY <2>2 DEF Publish, PublishFails, Had, TypeInv, TypeOK
    <3>4. Outcome(s).req = hand[s]
      BY DEF Outcome
    <3>. QED BY <3>2, <3>3, <3>4 DEF Served
  <2>3. CASE Commit(s)
    BY <1>0, <1>2, <2>3 DEF Commit
  <2>4. CASE Crash(s)
    BY <1>0, <1>2, <2>4 DEF Crash, HandOK
  <2>5. CASE UNCHANGED <<position, pc>>
    BY <1>2, <2>5
  <2>6. CASE \/ Reserve(s) \/ Rollback(s) \/ Answer(s) \/ GetHolder(s) \/ Del(s)
             \/ Freed(s)
    <3>1. UNCHANGED position /\ pc[s] \in {"match", "free", "del"}
          /\ pc'[s] \in {"match", "free", "del", "publish"}
      BY <1>0, <2>6 DEF Reserve, Rollback, Answer, GetHolder, Del, Freed
    <3>. QED BY <1>0, <1>2, <3>1
  <2>7. CASE \E t \in Servers \ {s} : Work(t) \/ Crash(t)
    <3>1. position'[s] = position[s] /\ pc'[s] = pc[s]
      BY <1>0, <2>7 DEF Work, Poll, Reserve, Rollback, Answer, GetHolder, Del, Freed,
         Publish, PublishFails, Commit, Crash, Clear
    <3>. QED BY <1>2, <3>1
  <2>8. CASE (\E a \in Agents : Lapse(a)) \/ \E t \in Servers : Ship(t)
    BY <1>2, <2>8 DEF Lapse, Ship, Deliver, DeliveryFails
  <2>. QED BY <2>1, <2>2, <2>3, <2>4, <2>5, <2>6, <2>7, <2>8 DEF Next, Work, vars
<1>. QED BY <1>1, <1>2

\* A request is committed only when its publish threw or its result has reached the
\* producer, whatever crashes, lapses and goes undelivered; from there it leaves only
\* for the topic, with a death or with a delivery that fails.
THEOREM CommittedRequestsAreAnswered == Spec => []CommittedIsAnswered
<1>1. TypeInv /\ BehindOK /\ [Next]_vars => BehindOK'
  BY BehindNext
<1>2. TypeInv /\ BehindOK => CommittedIsAnswered
  <2>. SUFFICES ASSUME TypeInv, BehindOK, NEW s \in Servers, NEW i \in 1..committed[s],
                       Inbox[s][i] # Garbage
                PROVE  Inbox[s][i] \in failed \cup {x.req : x \in Had(s)}
    BY DEF CommittedIsAnswered, Had
  <2>1. /\ committed[s] \in Nat /\ position[s] \in Nat /\ committed[s] <= position[s]
        /\ pc[s] \in {"idle", "commit"} \/ committed[s] < position[s]
    BY DEF TypeInv, TypeOK, HandOK
  <2>2. Served(s, Inbox[s][i])
    BY <2>1 DEF BehindOK
  <2>. QED BY <2>2 DEF Served
<1>. QED BY <1>1, <1>2, BehindInit, TypeInvariant, PTL DEF Spec
-----------------------------------------------------------------------------
(* How often a request is answered.                                        *)

\* The results of r a producer has accepted; those on the topic are among them.
Answers(r) == {x \in Sent : x.req = r}

\* The message of r has been polled and is not in hand any more, but for its commit.
Passed(r) == \E s \in Servers : \E i \in 1..position[s] :
    Inbox[s][i] = r /\ (i < position[s] \/ pc[s] \in {"idle", "commit"})

CountOK == \A r \in Requests :
    /\ IsFiniteSet(Answers(r))
    /\ Cardinality(Answers(r)) <= crashes + 1
    /\ ~Passed(r) => Cardinality(Answers(r)) <= crashes

LEMMA PassedStays ==
  ASSUME TypeInv, [Next]_vars, \A s \in Servers : ~Crash(s),
         NEW r \in Requests, Passed(r)
  PROVE  Passed(r)'
<1>0. /\ pc \in [Servers -> {"idle", "match", "free", "del", "publish", "commit"}]
      /\ position \in [Servers -> Nat]
  BY DEF TypeInv, TypeOK
<1>. PICK s \in Servers : \E i \in 1..position[s] :
         Inbox[s][i] = r /\ (i < position[s] \/ pc[s] \in {"idle", "commit"})
  BY DEF Passed
<1>1. PICK i \in 1..position[s] :
          Inbox[s][i] = r /\ (i < position[s] \/ pc[s] \in {"idle", "commit"})
  OBVIOUS
<1>2. i \in 1..position'[s] /\ (i < position'[s] \/ pc'[s] \in {"idle", "commit"})
  <2>1. CASE Poll(s)
    BY <1>0, <1>1, <2>1 DEF Poll
  <2>2. CASE Publish(s) \/ PublishFails(s) \/ Commit(s)
    BY <1>0, <1>1, <2>2 DEF Publish, PublishFails, Commit, Clear, Goto
  <2>3. CASE \/ Reserve(s) \/ Rollback(s) \/ Answer(s) \/ GetHolder(s) \/ Del(s)
             \/ Freed(s)
    BY <1>0, <1>1, <2>3 DEF Reserve, Rollback, Answer, GetHolder, Del, Freed
  <2>4. CASE \E t \in Servers \ {s} : Work(t)
    <3>1. position'[s] = position[s] /\ pc'[s] = pc[s]
      BY <1>0, <2>4 DEF Work, Poll, Reserve, Rollback, Answer, GetHolder, Del, Freed,
         Publish, PublishFails, Commit, Clear, Goto
    <3>. QED BY <1>1, <3>1
  <2>5. CASE UNCHANGED <<position, pc>>
    BY <1>1, <2>5
  <2>6. (\E a \in Agents : Lapse(a)) \/ (\E t \in Servers : Ship(t)) \/ UNCHANGED vars
          => UNCHANGED <<position, pc>>
    BY DEF Lapse, vars, server, Ship, Deliver, DeliveryFails
  <2>. QED BY <2>1, <2>2, <2>3, <2>4, <2>5, <2>6 DEF Next, Work
<1>. QED BY <1>1, <1>2 DEF Passed

LEMMA CountNext ==
  ASSUME TypeInv, CountOK, [Next]_vars
  PROVE  CountOK'
<1>0. /\ position \in [Servers -> Nat] /\ crashes \in Nat
      /\ HandOK
  BY DEF TypeInv, TypeOK
<1> SUFFICES ASSUME NEW r \in Requests
             PROVE  /\ IsFiniteSet(Answers(r)')
                    /\ Cardinality(Answers(r)') <= crashes' + 1
                    /\ ~Passed(r)' => Cardinality(Answers(r)') <= crashes'
  BY DEF CountOK
<1>1. /\ IsFiniteSet(Answers(r)) /\ Cardinality(Answers(r)) \in Nat
      /\ Cardinality(Answers(r)) <= crashes + 1
      /\ ~Passed(r) => Cardinality(Answers(r)) <= crashes
  BY FS_CardinalityType DEF CountOK
<1>2. ASSUME NEW s \in Servers, Crash(s)
      PROVE  Answers(r)' = Answers(r) /\ crashes' = crashes + 1
  BY <1>2, SentMoves DEF Crash, Answers
<1>3. ASSUME NEW s \in Servers, Publish(s) \/ PublishFails(s), r = hand[s]
      PROVE  /\ crashes' = crashes /\ ~Passed(r) /\ Passed(r)'
             /\ Answers(r)' \in {Answers(r), Answers(r) \cup {Outcome(s)}}
  <2>1. /\ pc[s] = "publish" /\ UNCHANGED <<position, crashes>>
        /\ pc'[s] \in {"idle", "commit"}
        /\ Sent' \in {Sent, Sent \cup {Outcome(s)}}
    BY <1>3, SentPublish, SentPublishFails
    DEF Publish, PublishFails, Clear, Goto, TypeInv, TypeOK
  <2>2. position[s] \in 1..position[s] /\ Inbox[s][position[s]] = r
        /\ position[s] \in DOMAIN Inbox[s]
    <3>1. /\ position[s] \in Nat /\ committed[s] \in Nat /\ position[s] <= Len(Inbox[s])
      BY DEF TypeInv, TypeOK
    <3>2. position[s] > committed[s] /\ hand[s] = Inbox[s][position[s]]
      BY <1>0, <2>1 DEF HandOK
    <3>3. DOMAIN Inbox[s] = 1..Len(Inbox[s])
      BY MatchingAssumption
    <3>. QED BY <1>3, <3>1, <3>2, <3>3
  <2>3. ~Passed(r)
    <3> SUFFICES ASSUME NEW t \in Servers, NEW i \in 1..position[t], Inbox[t][i] = r,
                        i < position[t] \/ pc[t] \in {"idle", "commit"}
                 PROVE  FALSE
      BY DEF Passed
    <3>1. i \in DOMAIN Inbox[t]
      BY <1>0, MatchingAssumption DEF TypeInv, TypeOK
    <3>2. t = s /\ i = position[s]
      BY <2>2, <3>1, OnceAssumption, MatchingAssumption
    <3>. QED BY <1>0, <2>1, <3>2
  <2>4. Passed(r)'
    BY <2>1, <2>2 DEF Passed
  <2>5. Outcome(s).req = r
    BY <1>3 DEF Outcome
  <2>. QED BY <2>1, <2>3, <2>4, <2>5 DEF Answers
<1>4. ASSUME \A s \in Servers : ~Crash(s),
             \A s \in Servers : ~(r = hand[s] /\ (Publish(s) \/ PublishFails(s)))
      PROVE  Answers(r)' = Answers(r) /\ crashes' = crashes
  <2>1. ASSUME NEW s \in Servers, Publish(s) \/ PublishFails(s)
        PROVE  Answers(r)' = Answers(r) /\ crashes' = crashes
    <3>1. Outcome(s).req # r
      BY <1>4, <2>1 DEF Outcome
    <3>2. Sent' \in {Sent, Sent \cup {Outcome(s)}} /\ crashes' = crashes
      BY <2>1, SentPublish, SentPublishFails DEF Publish, PublishFails
    <3>. QED BY <3>1, <3>2 DEF Answers
  <2>2. ASSUME NEW s \in Servers, Ship(s)
        PROVE  Answers(r)' = Answers(r) /\ crashes' = crashes
    BY <2>2, SentMoves DEF Answers, Ship, Deliver, DeliveryFails
  <2>3. CASE \A s \in Servers : ~Publish(s) /\ ~PublishFails(s) /\ ~Ship(s)
    BY <1>4, <2>3, SentStays DEF Answers
  <2>. QED BY <2>1, <2>2, <2>3
<1>5. CASE \E s \in Servers : Crash(s)
  BY <1>0, <1>1, <1>2, <1>5
<1>6. CASE \E s \in Servers : r = hand[s] /\ (Publish(s) \/ PublishFails(s))
  <2>1. PICK s \in Servers : r = hand[s] /\ (Publish(s) \/ PublishFails(s))
    BY <1>6
  <2>2. /\ crashes' = crashes /\ Passed(r)' /\ Cardinality(Answers(r)) <= crashes
        /\ Answers(r)' \in {Answers(r), Answers(r) \cup {Outcome(s)}}
    BY <1>1, <1>3, <2>1
  <2>3. ASSUME NEW A, NEW B, NEW x, IsFiniteSet(A), B \in {A, A \cup {x}}
        PROVE  IsFiniteSet(B) /\ Cardinality(B) <= Cardinality(A) + 1
    <3>1. Cardinality(A) \in Nat
      BY <2>3, FS_CardinalityType
    <3>2. CASE x \in A
      <4>1. B = A
        BY <2>3, <3>2
      <4>. QED BY <2>3, <3>1, <4>1
    <3>3. CASE x \notin A
      <4>1. IsFiniteSet(A \cup {x}) /\ Cardinality(A \cup {x}) = Cardinality(A) + 1
        BY <2>3, <3>3, FS_AddElement
      <4>2. B = A \/ B = A \cup {x}
        BY <2>3
      <4>3. IsFiniteSet(B) /\ (Cardinality(B) = Cardinality(A) \/ Cardinality(B) = Cardinality(A) + 1)
        BY <2>3, <4>1, <4>2
      <4>. QED BY <3>1, <4>3
    <3>. QED BY <3>2, <3>3
  <2>4. IsFiniteSet(Answers(r)') /\ Cardinality(Answers(r)') <= Cardinality(Answers(r)) + 1
    <3> HIDE DEF Answers, Outcome
    <3>. QED BY <1>1, <2>2, <2>3
  <2>5. Cardinality(Answers(r)') \in Nat
    BY <2>4, FS_CardinalityType
  <2>. QED BY <1>0, <1>1, <2>2, <2>4, <2>5
<1>7. CASE /\ \A s \in Servers : ~Crash(s)
           /\ \A s \in Servers : ~(r = hand[s] /\ (Publish(s) \/ PublishFails(s)))
  <2>1. Answers(r)' = Answers(r) /\ crashes' = crashes
    BY <1>4, <1>7
  <2>2. ~Passed(r)' => ~Passed(r)
    BY <1>7, PassedStays
  <2>. QED BY <1>1, <2>1, <2>2
<1>. QED BY <1>5, <1>6, <1>7

\* However many servers there are and wherever they die, a request has at most one
\* answer for every life of a server that began after a death, and one.
THEOREM RequestsAreAnsweredOnce == Spec => []AnsweredOncePerLife
<1>1. Init => CountOK
  <2> SUFFICES ASSUME Init PROVE CountOK
    OBVIOUS
  <2>1. \A r \in Requests : Answers(r) = {}
    BY SentInit DEF Answers
  <2>. QED BY <2>1, FS_EmptySet DEF Init, CountOK
<1>2. TypeInv /\ CountOK /\ [Next]_vars => CountOK'
  BY CountNext
<1>3. TypeInv /\ CountOK => AnsweredOncePerLife
  <2> SUFFICES ASSUME CountOK, crashes \in Nat, NEW r \in Requests
               PROVE  Cardinality({x \in results : x.req = r}) <= crashes + 1
    BY DEF AnsweredOncePerLife, TypeInv, TypeOK
  <2>1. IsFiniteSet(Answers(r)) /\ Cardinality(Answers(r)) <= crashes + 1
    BY DEF CountOK
  <2>2. {x \in results : x.req = r} \subseteq Answers(r)
    BY DEF Answers, Sent
  <2>3. /\ Cardinality({x \in results : x.req = r}) <= Cardinality(Answers(r))
        /\ IsFiniteSet({x \in results : x.req = r})
    BY <2>1, <2>2, FS_Subset
  <2>. QED BY <2>1, <2>3, FS_CardinalityType
<1>. QED BY TypeInvariant, <1>1, <1>2, <1>3, PTL DEF Spec
-----------------------------------------------------------------------------
(* Until a server crashes: what is reserved for the request in hand is on  *)
(* its list, and once the outcome stands, in it or on the way out.         *)

KeptOK(s) ==
    /\ pc[s] \in {"idle", "match"} => verdict[s] = None
    /\ pc[s] \notin {"free", "del"} => freeing[s] = {}
    /\ \A a \in Agents : holder[a] = hand[s] =>
         /\ pc[s] \in {"match", "free", "del"} => a \in mine[s]
         /\ verdict[s] # None => a \in freeing[s] \cup verdict[s].agents

\* A reservation is of a request that was polled.
PolledOK ==
    \A a \in Agents : holder[a] # None =>
        \E s \in Servers : \E i \in 1..position[s] : Inbox[s][i] = holder[a]

KeptInv == TypeInv /\ (crashes = 0 => PolledOK /\ \A s \in Servers : KeptOK(s))

LEMMA CrashesStay == ASSUME TypeInv, [Next]_vars, crashes' = 0 PROVE crashes = 0
<1>1. UNCHANGED crashes \/ crashes' = crashes + 1
  BY DEF Next, Work, Poll, Reserve, Rollback, Answer, GetHolder, Del, Freed, Publish,
     PublishFails, Commit, Crash, Lapse, vars, Ship, Deliver, DeliveryFails
<1>. QED BY <1>1 DEF TypeInv, TypeOK

\* No two servers have the same request in hand.
LEMMA HandsDiffer ==
  ASSUME TypeInv, NEW s \in Servers, NEW t \in Servers, hand[s] = hand[t], hand[s] \in Requests
  PROVE  s = t
<1>1. pc[s] # "idle" /\ pc[t] # "idle"
  BY MatchingAssumption DEF TypeInv, HandOK
<1>2. /\ hand[s] = Inbox[s][position[s]] /\ hand[t] = Inbox[t][position[t]]
      /\ position[s] \in 1..Len(Inbox[s]) /\ position[t] \in 1..Len(Inbox[t])
  BY <1>1 DEF TypeInv, TypeOK, HandOK
<1>3. DOMAIN Inbox[s] = 1..Len(Inbox[s]) /\ DOMAIN Inbox[t] = 1..Len(Inbox[t])
  BY MatchingAssumption
<1>4. hand[s] # Garbage
  BY MatchingAssumption
<1>. QED BY <1>2, <1>3, <1>4, OnceAssumption

\* A step in which server s changes nothing but its own, and Redis at most forgets.
LEMMA KeptOthers ==
  ASSUME TypeInv, NEW s \in Servers, \A t \in Servers : KeptOK(t),
         \A t \in Servers \ {s} :
             /\ pc'[t] = pc[t] /\ hand'[t] = hand[t] /\ verdict'[t] = verdict[t]
             /\ freeing'[t] = freeing[t] /\ mine'[t] = mine[t],
         \A a \in Agents : holder'[a] \in {holder[a], None}
  PROVE  \A t \in Servers \ {s} : KeptOK(t)'
<1> SUFFICES ASSUME NEW t \in Servers \ {s} PROVE KeptOK(t)'
  OBVIOUS
<1>1. pc[t] # "idle" => hand[t] # None
  BY MatchingAssumption DEF TypeInv, HandOK, TypeOK
<1>2. KeptOK(t)
  OBVIOUS
<1>. QED BY <1>1, <1>2 DEF KeptOK

LEMMA PolledNext ==
  ASSUME TypeInv, [Next]_vars, crashes' = crashes, PolledOK
  PROVE  PolledOK'
<1>1. \A s \in Servers : position[s] \in Nat /\ position'[s] \in Nat /\ position[s] <= position'[s]
  <2>1. UNCHANGED position \/ \E s \in Servers : position' = [position EXCEPT ![s] = @ + 1]
    <3>1. crashes \in Nat
      BY DEF TypeInv, TypeOK
    <3>2. \A s \in Servers : ~Crash(s)
      BY <3>1 DEF Crash
    <3>. QED BY <3>2 DEF Next, Work, Poll, Reserve, Rollback, Answer, GetHolder, Del, Freed,
         Publish, PublishFails, Commit, Lapse, vars, Ship, Deliver, DeliveryFails
  <2>2. position \in [Servers -> Nat]
    BY DEF TypeInv, TypeOK
  <2>3. CASE UNCHANGED position
    BY <2>2, <2>3
  <2>4. CASE \E s \in Servers : position' = [position EXCEPT ![s] = @ + 1]
    BY <2>2, <2>4
  <2>. QED BY <2>1, <2>3, <2>4
<1>2. \A a \in Agents : holder'[a] \in {holder[a], None}
                        \/ \E s \in Servers : holder'[a] = hand[s] /\ pc[s] = "match"
  BY DEF Next, Work, Poll, Reserve, Rollback, Answer, GetHolder, Del, Freed, Publish,
     PublishFails, Commit, Crash, Lapse, vars, Ship, Deliver, DeliveryFails, TypeInv, TypeOK
<1>3. \A s \in Servers : pc[s] = "match" =>
         \E i \in 1..position[s] : Inbox[s][i] = hand[s]
  <2> SUFFICES ASSUME NEW s \in Servers, pc[s] = "match"
               PROVE  \E i \in 1..position[s] : Inbox[s][i] = hand[s]
    OBVIOUS
  <2>1. position[s] > committed[s] /\ position[s] \in Nat /\ committed[s] \in Nat
    BY DEF TypeInv, TypeOK, HandOK
  <2>2. hand[s] = Inbox[s][position[s]]
    BY DEF TypeInv, HandOK
  <2>. QED BY <2>1, <2>2
<1>4. ASSUME NEW a \in Agents, holder'[a] # None
      PROVE  \E s \in Servers : \E i \in 1..position[s] : Inbox[s][i] = holder'[a]
  BY <1>2, <1>3, <1>4 DEF PolledOK
<1>. QED BY <1>1, <1>4 DEF PolledOK

\* A message that is polled for the first time has reserved nothing.
LEMMA NothingReserved ==
  ASSUME TypeInv, PolledOK, NEW s \in Servers, pc[s] = "idle", position[s] < Len(Inbox[s])
  PROVE  \A a \in Agents : holder[a] # Inbox[s][position[s] + 1]
<1> SUFFICES ASSUME NEW a \in Agents, holder[a] = Inbox[s][position[s] + 1] PROVE FALSE
  OBVIOUS
<1>1. position \in [Servers -> Nat] /\ \A t \in Servers : position[t] <= Len(Inbox[t])
  BY DEF TypeInv, TypeOK
<1>2. Inbox[s][position[s] + 1] \in Requests \cup {Garbage} /\ holder[a] \in Requests \cup {None}
  BY <1>1, PolledType DEF TypeInv, TypeOK
<1>3. holder[a] # None /\ holder[a] # Garbage
  BY <1>2, MatchingAssumption
<1>4. PICK t \in Servers : \E i \in 1..position[t] : Inbox[t][i] = holder[a]
  BY <1>3 DEF PolledOK
<1>. PICK i \in 1..position[t] : Inbox[t][i] = holder[a]
  BY <1>4
<1>5. \A u \in Servers : DOMAIN Inbox[u] = 1..Len(Inbox[u]) /\ Len(Inbox[u]) \in Nat
  BY MatchingAssumption
<1>6. i \in DOMAIN Inbox[t] /\ position[s] + 1 \in DOMAIN Inbox[s]
  BY <1>1, <1>4, <1>5
<1>7. t = s /\ i = position[s] + 1
  BY <1>3, <1>4, <1>6, OnceAssumption
<1>. QED BY <1>1, <1>4, <1>7

LEMMA KeptNext ==
  ASSUME TypeInv, [Next]_vars, crashes' = crashes, PolledOK, \A s \in Servers : KeptOK(s)
  PROVE  \A s \in Servers : KeptOK(s)'
<1>0. /\ pc \in [Servers -> {"idle", "match", "free", "del", "publish", "commit"}]
      /\ mine \in [Servers -> SUBSET Agents] /\ freeing \in [Servers -> SUBSET Agents]
      /\ holder \in [Agents -> Requests \cup {None}]
      /\ hand \in [Servers -> Requests \cup {Garbage, None}]
      /\ verdict \in [Servers -> Verdicts \cup {None}]
      /\ target \in [Servers -> Agents \cup {None}]
      /\ HandOK
  BY DEF TypeInv, TypeOK
<1>1. ASSUME NEW s \in Servers, Poll(s) PROVE \A t \in Servers : KeptOK(t)'
  <2>1. /\ UNCHANGED <<holder, mine, freeing>> /\ pc[s] = "idle" /\ position[s] < Len(Inbox[s])
        /\ hand' = [hand EXCEPT ![s] = Inbox[s][position[s] + 1]]
        /\ \E at \in {"commit", "publish", "match"} : pc' = [pc EXCEPT ![s] = at]
        /\ \A t \in Servers \ {s} : verdict'[t] = verdict[t]
        /\ pc'[s] = "match" => verdict' = verdict
    BY <1>0, <1>1 DEF Poll
  <2>2. \A a \in Agents : holder'[a] # hand'[s]
    BY <1>0, <2>1, NothingReserved
  <2>3. KeptOK(s)'
    BY <1>0, <2>1, <2>2 DEF KeptOK
  <2>4. \A t \in Servers \ {s} : KeptOK(t)'
    BY <1>0, <2>1, KeptOthers
  <2>. QED BY <2>3, <2>4
<1>2. ASSUME NEW s \in Servers, Reserve(s) PROVE \A t \in Servers : KeptOK(t)'
  <2>1. PICK a \in Agents :
           \/ UNCHANGED <<holder, mine>>
           \/ /\ holder' = [holder EXCEPT ![a] = hand[s]]
              /\ mine' = [mine EXCEPT ![s] = @ \cup {a}]
    BY <1>0, <1>2 DEF Reserve, TypeInv, TypeOK
  <2>2. UNCHANGED <<pc, hand, freeing, verdict>> /\ pc[s] = "match"
    BY <1>2 DEF Reserve
  <2>3. CASE UNCHANGED <<holder, mine>>
    BY <2>2, <2>3 DEF KeptOK
  <2>4. CASE /\ holder' = [holder EXCEPT ![a] = hand[s]]
             /\ mine' = [mine EXCEPT ![s] = @ \cup {a}]
    <3>1. \A t \in Servers : t # s => hand[t] # hand[s]
      BY <1>0, <2>2, HandsDiffer DEF HandOK
    <3>2. verdict[s] = None
      BY <2>2 DEF KeptOK
    <3>. QED BY <1>0, <2>2, <2>4, <3>1, <3>2 DEF KeptOK
  <2>. QED BY <2>1, <2>3, <2>4
<1>3. ASSUME NEW s \in Servers, Rollback(s) PROVE \A t \in Servers : KeptOK(t)'
  BY <1>0, <1>3 DEF Rollback, KeptOK
<1>4. ASSUME NEW s \in Servers, Answer(s) PROVE \A t \in Servers : KeptOK(t)'
  <2>1. PICK v \in Verdicts : /\ verdict' = [verdict EXCEPT ![s] = v]
                              /\ freeing' = [freeing EXCEPT ![s] = mine[s] \ v.agents]
    <3>1. PICK agents \in SUBSET Agents :
            IF agents # {} /\ agents \subseteq mine[s]
            THEN /\ verdict' = [verdict EXCEPT ![s] = [status |-> "matched", agents |-> agents]]
                 /\ freeing' = [freeing EXCEPT ![s] = mine[s] \ agents]
            ELSE /\ verdict' = [verdict EXCEPT ![s] = Refused("failed")]
                 /\ freeing' = [freeing EXCEPT ![s] = mine[s]]
      BY <1>4 DEF Answer
    <3>2. CASE agents # {} /\ agents \subseteq mine[s]
      <4> DEFINE v == [status |-> "matched", agents |-> agents]
      <4>1. v \in Verdicts /\ mine[s] \ agents = mine[s] \ v.agents
        BY DEF Verdicts
      <4>2. verdict' = [verdict EXCEPT ![s] = v] /\ freeing' = [freeing EXCEPT ![s] = mine[s] \ v.agents]
        BY <3>1, <3>2, <4>1
      <4>. QED BY <4>1, <4>2
    <3>3. CASE ~(agents # {} /\ agents \subseteq mine[s])
      <4>1. Refused("failed") \in Verdicts /\ mine[s] = mine[s] \ Refused("failed").agents
        BY DEF Verdicts, Refused
      <4>2. /\ verdict' = [verdict EXCEPT ![s] = Refused("failed")]
            /\ freeing' = [freeing EXCEPT ![s] = mine[s] \ Refused("failed").agents]
        BY <3>1, <3>3, <4>1
      <4>. QED BY <4>1, <4>2
    <3>. QED BY <3>2, <3>3
  <2>2. pc[s] = "match" /\ pc' = [pc EXCEPT ![s] = "free"] /\ UNCHANGED <<holder, hand, mine>>
    BY <1>4 DEF Answer
  <2>. QED BY <1>0, <2>1, <2>2 DEF KeptOK
<1>5. ASSUME NEW s \in Servers, GetHolder(s) PROVE \A t \in Servers : KeptOK(t)'
  <2>1. PICK a \in freeing[s] :
           \/ pc' = [pc EXCEPT ![s] = "del"] /\ UNCHANGED <<freeing, mine>>
           \/ holder[a] # hand[s] /\ Forget(s, a) /\ UNCHANGED pc
    BY <1>5 DEF GetHolder
  <2>2. UNCHANGED <<holder, hand, verdict>> /\ pc[s] = "free"
    BY <1>5 DEF GetHolder
  <2>. QED BY <1>0, <2>1, <2>2 DEF KeptOK, Forget
<1>6. ASSUME NEW s \in Servers, Del(s) PROVE \A t \in Servers : KeptOK(t)'
  <2>1. /\ holder' = [holder EXCEPT ![target[s]] = None] /\ pc[s] = "del"
        /\ freeing' = [freeing EXCEPT ![s] = @ \ {target[s]}]
        /\ mine' = [mine EXCEPT ![s] = @ \ {target[s]}]
        /\ pc' = [pc EXCEPT ![s] = "free"] /\ UNCHANGED <<hand, verdict>>
    BY <1>6 DEF Del, Forget
  <2>2. target[s] \in Agents /\ hand[s] # None
    BY <1>0, <2>1, MatchingAssumption DEF HandOK
  <2>3. KeptOK(s)'
    BY <1>0, <2>1, <2>2 DEF KeptOK
  <2>4. \A t \in Servers \ {s} : KeptOK(t)'
    BY <1>0, <2>1, <2>2, KeptOthers
  <2>. QED BY <2>3, <2>4
<1>7. ASSUME NEW s \in Servers, Freed(s) PROVE \A t \in Servers : KeptOK(t)'
  BY <1>0, <1>7 DEF Freed, KeptOK
<1>8. ASSUME NEW s \in Servers, Publish(s) PROVE \A t \in Servers : KeptOK(t)'
  BY <1>0, <1>8 DEF Publish, KeptOK
<1>9. ASSUME NEW s \in Servers, PublishFails(s) \/ Commit(s) PROVE \A t \in Servers : KeptOK(t)'
  <2>1. Clear(s) /\ UNCHANGED holder
    BY <1>9 DEF Commit, PublishFails
  <2>2. verdict'[s] = None
    BY <1>0, <2>1 DEF Clear
  <2>3. KeptOK(s)'
    BY <2>1, <2>2, ClearType DEF KeptOK
  <2>4. \A t \in Servers \ {s} : KeptOK(t)'
    BY <2>1, ClearType, KeptOthers
  <2>. QED BY <2>3, <2>4
<1>10. ASSUME NEW a \in Agents, Lapse(a) PROVE \A t \in Servers : KeptOK(t)'
  <2>1. holder' = [holder EXCEPT ![a] = None] /\ UNCHANGED <<pc, hand, mine, freeing, verdict>>
    BY <1>10 DEF Lapse
  <2>2. ASSUME NEW t \in Servers, pc[t] # "idle" PROVE hand[t] # None
    <3>1. /\ position[t] > committed[t] /\ hand[t] = Inbox[t][position[t]]
          /\ position[t] \in Nat /\ committed[t] \in Nat /\ position[t] <= Len(Inbox[t])
      BY <2>2 DEF TypeInv, TypeOK, HandOK
    <3>2. position[t] - 1 \in Nat /\ position[t] - 1 < Len(Inbox[t])
          /\ (position[t] - 1) + 1 = position[t]
      BY <3>1, MatchingAssumption
    <3>. QED BY <3>1, <3>2, PolledType, MatchingAssumption
  <2>. QED BY <1>0, <2>1, <2>2 DEF KeptOK
<1>11. CASE UNCHANGED vars
  BY <1>11 DEF vars, KeptOK
<1>12. ASSUME NEW s \in Servers, Crash(s) PROVE FALSE
  BY <1>12 DEF Crash, TypeInv, TypeOK
<1>13. ASSUME NEW s \in Servers, Ship(s) PROVE \A t \in Servers : KeptOK(t)'
  BY <1>13 DEF Ship, Deliver, DeliveryFails, KeptOK
<1>. QED
  BY <1>1, <1>2, <1>3, <1>4, <1>5, <1>6, <1>7, <1>8, <1>9, <1>10, <1>11, <1>12, <1>13
  DEF Next, Work

\* Once the outcome of a request stands no other agent stays reserved for it, on
\* every path of process_requests_once, until a server crashes.
THEOREM NothingStaysReserved == Spec => []UnassignedReleased
<1>1. Init => KeptInv
  <2>1. Init => PolledOK /\ \A s \in Servers : KeptOK(s)
    BY DEF Init, PolledOK, KeptOK
  <2>. QED BY <2>1, TypeInit DEF KeptInv
<1>2. KeptInv /\ [Next]_vars => KeptInv'
  <2> SUFFICES ASSUME KeptInv, [Next]_vars, crashes' = 0
               PROVE  PolledOK' /\ \A s \in Servers : KeptOK(s)'
    BY TypeNext DEF KeptInv
  <2>1. crashes = 0
    BY CrashesStay DEF KeptInv
  <2>. QED BY <2>1, PolledNext, KeptNext DEF KeptInv
<1>3. KeptInv => UnassignedReleased
  BY DEF KeptInv, KeptOK, UnassignedReleased
<1>. QED BY <1>1, <1>2, <1>3, PTL DEF Spec
=============================================================================
