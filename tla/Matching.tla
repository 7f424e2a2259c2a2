------------------------------ MODULE Matching ------------------------------
(***************************************************************************)
(* The matching servers: MatchingService::process_requests_once with the   *)
(* strategy it calls, TrackingMatchContext, and the reservations in Redis, *)
(* one Redis command per step.  Every server consumes a partition of its   *)
(* own; a strategy may do whatever IMatchStrategy lets it do.              *)
(***************************************************************************)
EXTENDS Naturals, Sequences, FiniteSets

CONSTANTS Requests, Agents, Servers,
          Inbox,       \* per server, the messages of its partition
          MaxAgents,   \* max_agents of a request, 1 when it names none
          MaxLapses,   \* bound: reservations whose time to live runs out
          MaxCrashes,  \* bound: deaths of servers
          Garbage,     \* a payload decode_match_request_payload refuses
          None

ASSUME MatchingAssumption ==
    /\ Inbox \in [Servers -> Seq(Requests \cup {Garbage})]
    /\ MaxAgents \in Nat \ {0}
    /\ MaxLapses \in Nat /\ MaxCrashes \in Nat
    /\ Garbage \notin Requests /\ None \notin Requests \cup Agents \cup {Garbage}

\* A request is on the topic once.
ASSUME OnceAssumption ==
    \A s, t \in Servers : \A i \in DOMAIN Inbox[s] : \A j \in DOMAIN Inbox[t] :
        Inbox[s][i] = Inbox[t][j] /\ Inbox[s][i] # Garbage => s = t /\ i = j

VARIABLES
    holder,     \* per agent: the request its reservation key names, or None
    position,   \* per server: messages its consumer has polled
    committed,  \* per server: offset of the group
    pc,         \* per server: where process_requests_once is
    hand,       \*   the message in hand
    cands,      \*   candidates the strategy has not tried
    mine,       \*   TrackingMatchContext::reserved_
    freeing,    \*   agents release() has still to go through
    target,     \*   the agent whose key release() has decided to delete
    verdict,    \*   the outcome: status and agents, or None
    outbox,     \* per server: results its producer has accepted and not delivered
    results,    \* the result topic
    dropped,    \* history: results that left an outbox and never reached the topic
    failed,     \* history: requests whose produce or commit threw
    lapses, crashes

server == <<pc, hand, cands, mine, freeing, target, verdict>>
producers == <<outbox, results, dropped>>
vars == <<holder, position, committed, server, producers, failed, lapses, crashes>>

Verdicts == [status : {"matched", "failed", "expired"}, agents : SUBSET Agents]
Results == [req : Requests, answer : Verdicts]
Refused(status) == [status |-> status, agents |-> {}]

Init ==
    /\ holder = [a \in Agents |-> None]
    /\ position = [s \in Servers |-> 0] /\ committed = [s \in Servers |-> 0]
    /\ pc = [s \in Servers |-> "idle"]
    /\ hand = [s \in Servers |-> None]
    /\ cands = [s \in Servers |-> {}]
    /\ mine = [s \in Servers |-> {}]
    /\ freeing = [s \in Servers |-> {}]
    /\ target = [s \in Servers |-> None]
    /\ verdict = [s \in Servers |-> None]
    /\ outbox = [s \in Servers |-> {}] /\ results = {} /\ dropped = {} /\ failed = {}
    /\ lapses = 0 /\ crashes = 0

Goto(s, at) == pc' = [pc EXCEPT ![s] = at]
-----------------------------------------------------------------------------
(* A request: poll, decode, validate, search, strategy.                    *)

\* Mutant: an expired request is committed without a result.
PollDropsExpired(s) ==
    /\ pc[s] = "idle" /\ position[s] < Len(Inbox[s])
    /\ position' = [position EXCEPT ![s] = @ + 1]
    /\ hand' = [hand EXCEPT ![s] = Inbox[s][position[s] + 1]]
    /\ Goto(s, "commit")
    /\ UNCHANGED <<holder, committed, cands, mine, freeing, target, verdict, producers,
                   failed, lapses, crashes>>

\* What does not decode is committed; an expired or invalid request is answered
\* at once; the others go to the strategy with what nearby() found.
Poll(s) ==
    /\ pc[s] = "idle" /\ position[s] < Len(Inbox[s])
    /\ position' = [position EXCEPT ![s] = @ + 1]
    /\ LET m == Inbox[s][position[s] + 1] IN
       /\ hand' = [hand EXCEPT ![s] = m]
       /\ \/ m = Garbage /\ Goto(s, "commit") /\ UNCHANGED <<cands, verdict>>
          \/ /\ m # Garbage /\ Goto(s, "publish") /\ UNCHANGED cands
             /\ \E status \in {"expired", "failed"} :
                    verdict' = [verdict EXCEPT ![s] = Refused(status)]
          \/ /\ m # Garbage /\ Goto(s, "match") /\ UNCHANGED verdict
             /\ \E near \in SUBSET Agents : cands' = [cands EXCEPT ![s] = near]
    /\ UNCHANGED <<holder, committed, mine, freeing, target, producers, failed,
                   lapses, crashes>>

\* Mutant: SET without NX.
ReserveAlways(s) ==
    /\ pc[s] = "match"
    /\ \E a \in cands[s] :
        /\ cands' = [cands EXCEPT ![s] = @ \ {a}]
        /\ holder' = [holder EXCEPT ![a] = hand[s]]
        /\ mine' = [mine EXCEPT ![s] = @ \cup {a}]
    /\ UNCHANGED <<position, committed, pc, hand, freeing, target, verdict, producers,
                   failed, lapses, crashes>>

\* context.reserve: SET NX PX
Reserve(s) ==
    /\ pc[s] = "match"
    /\ \E a \in cands[s] :
        /\ cands' = [cands EXCEPT ![s] = @ \ {a}]
        /\ IF holder[a] = None
           THEN /\ holder' = [holder EXCEPT ![a] = hand[s]]
                /\ mine' = [mine EXCEPT ![s] = @ \cup {a}]
           ELSE UNCHANGED <<holder, mine>>
    /\ UNCHANGED <<position, committed, pc, hand, freeing, target, verdict, producers, failed,
                   lapses, crashes>>

\* context.release by the strategy
Rollback(s) ==
    /\ pc[s] = "match"
    /\ \E a \in mine[s] : freeing' = [freeing EXCEPT ![s] = {a}]
    /\ Goto(s, "free")
    /\ UNCHANGED <<holder, position, committed, hand, cands, mine, target, verdict,
                   producers, failed, lapses, crashes>>

\* Mutant: an answer that is refused releases nothing.
AnswerKeepsRefused(s) ==
    /\ pc[s] = "match"
    /\ \E agents \in SUBSET Agents :
        /\ Cardinality(agents) <= MaxAgents
        /\ IF agents # {} /\ agents \subseteq mine[s]
           THEN /\ verdict' = [verdict EXCEPT
                                 ![s] = [status |-> "matched", agents |-> agents]]
                /\ freeing' = [freeing EXCEPT ![s] = mine[s] \ agents]
           ELSE /\ verdict' = [verdict EXCEPT ![s] = Refused("failed")]
                /\ UNCHANGED freeing
    /\ cands' = [cands EXCEPT ![s] = {}]
    /\ Goto(s, "free")
    /\ UNCHANGED <<holder, position, committed, hand, mine, target, producers, failed,
                   lapses, crashes>>

\* The strategy is done, out of time, or has thrown (no agents).  Its answer is
\* cut to max_agents and refused unless the request reserved all of it;
\* release_all or release_unassigned follows.  The candidates end with the strategy.
Answer(s) ==
    /\ pc[s] = "match"
    /\ \E agents \in SUBSET Agents :
        /\ Cardinality(agents) <= MaxAgents
        /\ IF agents # {} /\ agents \subseteq mine[s]
           THEN /\ verdict' = [verdict EXCEPT
                                 ![s] = [status |-> "matched", agents |-> agents]]
                /\ freeing' = [freeing EXCEPT ![s] = mine[s] \ agents]
           ELSE /\ verdict' = [verdict EXCEPT ![s] = Refused("failed")]
                /\ freeing' = [freeing EXCEPT ![s] = mine[s]]
    /\ cands' = [cands EXCEPT ![s] = {}]
    /\ Goto(s, "free")
    /\ UNCHANGED <<holder, position, committed, hand, mine, target, producers, failed,
                   lapses, crashes>>
-----------------------------------------------------------------------------
(* RedisClient::release_agent, for every agent of "freeing".               *)

Forget(s, a) == /\ freeing' = [freeing EXCEPT ![s] = @ \ {a}]
                /\ mine' = [mine EXCEPT ![s] = @ \ {a}]

\* Mutant: an agent somebody else holds stays on the list.
GetHolderKeeps(s) ==
    /\ pc[s] = "free"
    /\ \E a \in freeing[s] : holder[a] = hand[s] /\ target' = [target EXCEPT ![s] = a]
    /\ Goto(s, "del")
    /\ UNCHANGED <<holder, position, committed, hand, cands, mine, freeing, verdict,
                   producers, failed, lapses, crashes>>

\* GET
GetHolder(s) ==
    /\ pc[s] = "free"
    /\ \E a \in freeing[s] :
        IF holder[a] = hand[s]
        THEN /\ target' = [target EXCEPT ![s] = a]
             /\ Goto(s, "del")
             /\ UNCHANGED <<freeing, mine>>
        ELSE Forget(s, a) /\ UNCHANGED <<target, pc>>
    /\ UNCHANGED <<holder, position, committed, hand, cands, verdict, producers, failed,
                   lapses, crashes>>

\* DEL, whoever the key names by now
Del(s) ==
    /\ pc[s] = "del"
    /\ holder' = [holder EXCEPT ![target[s]] = None]
    /\ Forget(s, target[s])
    /\ target' = [target EXCEPT ![s] = None]
    /\ Goto(s, "free")
    /\ UNCHANGED <<position, committed, hand, cands, verdict, producers, failed, lapses,
                   crashes>>

Freed(s) ==
    /\ pc[s] = "free" /\ freeing[s] = {}
    /\ Goto(s, IF verdict[s] = None THEN "match" ELSE "publish")
    /\ UNCHANGED <<holder, position, committed, hand, cands, mine, freeing, target, verdict,
                   producers, failed, lapses, crashes>>
-----------------------------------------------------------------------------
(* The result.                                                             *)

Outcome(s) == [req |-> hand[s], answer |-> verdict[s]]

\* The members of the loop's iteration end with it.
Clear(s) == /\ hand' = [hand EXCEPT ![s] = None]
            /\ cands' = [cands EXCEPT ![s] = {}]
            /\ mine' = [mine EXCEPT ![s] = {}]
            /\ freeing' = [freeing EXCEPT ![s] = {}]
            /\ target' = [target EXCEPT ![s] = None]
            /\ verdict' = [verdict EXCEPT ![s] = None]
            /\ Goto(s, "idle")

\* produce, which only hands the result to the producer.  flush(5000) gives the
\* steps Deliver and DeliveryFails their time and does not say whether that was
\* enough; the commit follows anyhow.
Publish(s) ==
    /\ pc[s] = "publish"
    /\ outbox' = [outbox EXCEPT ![s] = @ \cup {Outcome(s)}]
    /\ Goto(s, "commit")
    /\ UNCHANGED <<holder, position, committed, hand, cands, mine, freeing, target, verdict,
                   results, dropped, failed, lapses, crashes>>

\* Mutant: a message whose result was not published is polled again.
PublishFailsRetries(s) ==
    /\ pc[s] = "publish"
    /\ outbox' \in {outbox, [outbox EXCEPT ![s] = @ \cup {Outcome(s)}]}
    /\ failed' = failed \cup {hand[s]}
    /\ position' = [position EXCEPT ![s] = @ - 1]
    /\ Clear(s)
    /\ UNCHANGED <<holder, committed, results, dropped, lapses, crashes>>

\* produce throws, or the commit after it: on to the next message.
PublishFails(s) ==
    /\ pc[s] = "publish"
    /\ outbox' \in {outbox, [outbox EXCEPT ![s] = @ \cup {Outcome(s)}]}
    /\ failed' = failed \cup {hand[s]}
    /\ Clear(s)
    /\ UNCHANGED <<holder, position, committed, results, dropped, lapses, crashes>>

Commit(s) ==
    /\ pc[s] = "commit"
    /\ committed' = [committed EXCEPT ![s] = position[s]]
    /\ Clear(s)
    /\ UNCHANGED <<holder, position, producers, failed, lapses, crashes>>

\* The producer's own thread hands a result to the broker,
Deliver(s) ==
    \E x \in outbox[s] :
        /\ outbox' = [outbox EXCEPT ![s] = @ \ {x}]
        /\ results' = results \cup {x}
        /\ UNCHANGED <<holder, position, committed, server, dropped, failed, lapses, crashes>>

\* or gives it up, which nobody hears: produce was called without a callback.
DeliveryFails(s) ==
    \E x \in outbox[s] :
        /\ outbox' = [outbox EXCEPT ![s] = @ \ {x}]
        /\ dropped' = dropped \cup {x}
        /\ UNCHANGED <<holder, position, committed, server, results, failed, lapses, crashes>>

\* The process dies, its outbox with it, and comes back at its commit; its
\* reservations stay.
Crash(s) ==
    /\ crashes < MaxCrashes
    /\ position' = [position EXCEPT ![s] = committed[s]]
    /\ Clear(s)
    /\ dropped' = dropped \cup outbox[s]
    /\ outbox' = [outbox EXCEPT ![s] = {}]
    /\ crashes' = crashes + 1
    /\ UNCHANGED <<holder, committed, results, failed, lapses>>

\* Redis drops a reservation whose time to live is over.
Lapse(a) ==
    /\ holder[a] # None /\ lapses < MaxLapses
    /\ holder' = [holder EXCEPT ![a] = None]
    /\ lapses' = lapses + 1
    /\ UNCHANGED <<position, committed, server, producers, failed, crashes>>
-----------------------------------------------------------------------------
Work(s) == \/ Poll(s) \/ Reserve(s) \/ Rollback(s) \/ Answer(s) \/ GetHolder(s)
           \/ Del(s) \/ Freed(s) \/ Publish(s) \/ PublishFails(s) \/ Commit(s)

\* The producer of a server is not its loop.
Ship(s) == Deliver(s) \/ DeliveryFails(s)

Next == \/ \E s \in Servers : Work(s) \/ Ship(s) \/ Crash(s)
        \/ \E a \in Agents : Lapse(a)

Spec == Init /\ [][Next]_vars

\* run_request_loop calls process_requests_once again and again; librdkafka keeps
\* no message for ever, it delivers it or gives it up.
FairSpec == Spec /\ \A s \in Servers : WF_vars(Work(s)) /\ WF_vars(Ship(s))
-----------------------------------------------------------------------------
(* Properties.                                                             *)

TypeOK ==
    /\ holder \in [Agents -> Requests \cup {None}]
    /\ position \in [Servers -> Nat] /\ committed \in [Servers -> Nat]
    /\ \A s \in Servers : committed[s] <= position[s] /\ position[s] <= Len(Inbox[s])
    /\ pc \in [Servers -> {"idle", "match", "free", "del", "publish", "commit"}]
    /\ hand \in [Servers -> Requests \cup {Garbage, None}]
    /\ cands \in [Servers -> SUBSET Agents] /\ mine \in [Servers -> SUBSET Agents]
    /\ freeing \in [Servers -> SUBSET Agents]
    /\ target \in [Servers -> Agents \cup {None}]
    /\ verdict \in [Servers -> Verdicts \cup {None}]
    /\ outbox \in [Servers -> SUBSET Results]
    /\ results \subseteq Results /\ dropped \subseteq Results /\ failed \subseteq Requests
    /\ lapses \in Nat /\ crashes \in Nat

\* "Prevents double-assignment of agents across concurrent match requests".
NoDoubleAssignment ==
    \A x, y \in results :
        x.req # y.req => x.answer.agents \cap y.answer.agents = {}

\* That is so until a reservation lapses, crashes included: a crashed server
\* leaves its reservations behind, and the next one does not get them.
ReservationsExclude == lapses = 0 => NoDoubleAssignment

\* Releasing removes the reservation of the releasing request and no other: until
\* a reservation lapses, nobody comes between the GET and the DEL.
OnlyHolderReleases ==
    [][\A s \in Servers :
          Del(s) /\ lapses = 0 => holder[target[s]] \in {hand[s], None}]_vars

\* "Released all reservations", "released non-chosen reservations": once the
\* outcome of a request stands, on whichever path, no other agent stays reserved
\* for it, until a crash makes a request's own old reservations foreign to it.
UnassignedReleased ==
    crashes = 0 => \A s \in Servers :
        pc[s] \in {"publish", "commit"} /\ verdict[s] # None =>
            \A a \in Agents : holder[a] = hand[s] => a \in verdict[s].agents

\* A request is committed, and so never handled again, only when its publish threw
\* or its result has reached the producer, whatever the requests around it did.  It
\* need not have reached the topic: flush may have run out of time.  Then it waits
\* in the outbox of the server that committed, and it is gone only with a death
\* that found it there or a delivery that failed.
CommittedIsAnswered ==
    \A s \in Servers : \A i \in 1..committed[s] :
        Inbox[s][i] # Garbage =>
            Inbox[s][i] \in failed \cup {x.req : x \in results \cup outbox[s] \cup dropped}

\* Every death of a server may have a request answered once more, with another
\* answer: its result was out before its offset was committed.  Nothing else does,
\* neither a failed publish, after which the message is left behind uncommitted, nor
\* the servers' racing for agents.
AnsweredOncePerLife ==
    \A r \in Requests : Cardinality({x \in results : x.req = r}) <= crashes + 1

\* Every request is answered on the topic, unless its publish threw or the
\* producer lost the result.
EveryRequestServed ==
    \A s \in Servers : \A i \in DOMAIN Inbox[s] :
        Inbox[s][i] # Garbage =>
            <>(Inbox[s][i] \in failed \cup {x.req : x \in results \cup dropped})
=============================================================================
