--------------------------- MODULE Gateway_proofs ---------------------------
(* Proofs about Gateway, for any number of transport threads, any calls,    *)
(* limits, rates and windows.                                               *)
EXTENDS Gateway, FiniteSetTheorems, TLAPS

USE DEF Producer, Limiter

(********************************** types **********************************)
LEMMA AskFacts ==
  ASSUME NEW a \in AllAsks
  PROVE  /\ a.events \in Seq([dev : STRING, kind : Kinds])
         /\ a.call \in {"one", "batch"}
         /\ Len(a.events) \in Nat
         /\ Charge(a) \in Nat
         /\ \A i \in 1..Len(a.events) : a.events[i].dev \in Devices
<1>1. a.events \in Seq([dev : STRING, kind : Kinds]) /\ a.call \in {"one", "batch"}
  BY GatewayAssumption
<1>2. \A i \in 1..Len(a.events) : a.events[i].dev \in Devices
  <2> TAKE i \in 1..Len(a.events)
  <2> DEFINE S == {a.events[k].dev : k \in 1..Len(a.events)}
  <2>1. a.events[i].dev \in S
    OBVIOUS
  <2>2. S \in {{b.events[k].dev : k \in 1..Len(b.events)} : b \in AllAsks}
    OBVIOUS
  <2>. QED BY <2>1, <2>2 DEF Devices
<1>3. Len(a.events) \in Nat
  BY <1>1
<1>. QED BY <1>1, <1>2, <1>3 DEF Charge

LEMMA JobFacts ==
  ASSUME TypeOK, NEW r \in Requests
  PROVE  /\ job[r] \in JobType
         /\ Len(job[r].ask.events) \in Nat
         /\ Charge(job[r].ask) \in Nat
         /\ job[r].at # "idle" => job[r].ask \in AllAsks
         /\ job[r].at \in {"limit", "produce"} => Event(r).dev \in Devices
<1>1. job[r] \in JobType
  BY DEF TypeOK
<1>2. job[r].at # "idle" => job[r].ask \in AllAsks
  BY <1>1 DEF TypeOK, JobType, NoAsk
<1>3. Len(NoAsk.events) = 0 /\ Charge(NoAsk) = 1
  BY DEF NoAsk, Charge
<1>4. Len(job[r].ask.events) \in Nat /\ Charge(job[r].ask) \in Nat
  BY <1>1, <1>3, AskFacts DEF JobType
<1>5. ASSUME job[r].at \in {"limit", "produce"} PROVE Event(r).dev \in Devices
  <2>1. job[r].ask \in AllAsks /\ job[r].next \in 1..Len(job[r].ask.events)
    BY <1>1, <1>2, <1>4, <1>5 DEF TypeOK, JobType
  <2>. QED BY <2>1, AskFacts DEF Event
<1>. QED BY <1>1, <1>2, <1>4, <1>5

LEMMA TypeInit == Init => TypeOK
<1> SUFFICES ASSUME Init PROVE TypeOK
  OBVIOUS
<1>1. job \in [Requests -> JobType]
  BY DEF Init, JobType, Ends
<1>2. \A r \in Requests : job[r].at = "idle" /\ job[r].ask.call = "none"
  BY DEF Init, NoAsk
<1>3. windows \in [Devices -> [since : Nat, count : Nat]]
  BY DEF Init
<1>4. /\ produced \in Seq([req : Requests, pos : Nat \ {0}])
      /\ passed \in Seq([dev : Devices, read : Nat, at : Nat])
  BY DEF Init
<1>5. /\ Reported \subseteq 1..Len(produced) /\ delivered \intersect failed = {}
      /\ served \subseteq Reported
  BY DEF Init, Reported
<1>6. /\ life \in {"ready", "draining", "stopped"} /\ flight \in Int /\ clock \in Nat
      /\ told \in [received : Nat, rejected : Nat, queued : Nat, pressed : Nat]
  BY DEF Init
<1>. QED BY <1>1, <1>2, <1>3, <1>4, <1>5, <1>6 DEF TypeOK

\* A thread at an event is within its batch, and only an idle one has no call.
JobOK(j) ==
  /\ j \in JobType
  /\ j.at \in {"limit", "produce"} => j.next <= Len(j.ask.events)
  /\ j.at = "idle" <=> j.ask.call = "none"

JobsOK == job \in [Requests -> JobType] /\ \A r \in Requests : JobOK(job[r])

LEMMA TypeParts == TypeOK => JobsOK
  BY DEF TypeOK, JobsOK, JobOK

\* The step of a thread is a step of its own record only.
LEMMA OneJob ==
  ASSUME JobsOK, NEW r \in Requests, NEW j, JobOK(j), job' = [job EXCEPT ![r] = j]
  PROVE  JobsOK'
  BY DEF JobsOK, JobOK

LEMMA JobsNext == TypeOK /\ [Next]_vars => JobsOK'
<1> SUFFICES ASSUME TypeOK, [Next]_vars PROVE JobsOK'
  OBVIOUS
<1>0. JobsOK /\ \A r \in Requests : JobOK(job[r])
  BY TypeParts DEF JobsOK
<1>1. ASSUME NEW r \in Requests, Call(r) PROVE JobsOK'
  <2>1. PICK a \in Asks[r] :
          LET bad == a.via = "grpc" /\ \E i \in 1..Len(a.events) : ~WireValid(a.events[i])
          IN job' = [job EXCEPT ![r].ask = a,
                                ![r].at = IF bad THEN "answered" ELSE "authorize",
                                ![r].rejected = IF bad THEN Len(a.events) ELSE 0]
    BY <1>1 DEF Call
  <2>2. a \in AllAsks /\ Len(a.events) \in Nat /\ a.call # "none"
    BY AskFacts DEF AllAsks
  <2>3. PICK at \in {"answered", "authorize"}, n \in Nat :
          job' = [job EXCEPT ![r].ask = a, ![r].at = at, ![r].rejected = n]
    BY <2>1, <2>2
  <2> DEFINE j == [job[r] EXCEPT !.ask = a, !.at = at, !.rejected = n]
  <2>4. job' = [job EXCEPT ![r] = j]
    BY <2>3
  <2>5. JobOK(j)
    BY <1>0, <2>2 DEF JobOK, JobType, Ends
  <2>. QED BY <1>0, <2>4, <2>5, OneJob
<1>2. ASSUME NEW r \in Requests, NEW pressed \in BOOLEAN, ~At(r, "idle"), Refuse(r, pressed)
      PROVE  JobsOK'
  <2> DEFINE j == [job[r] EXCEPT !.at = "answered", !.rejected = Charge(job[r].ask)]
  <2>1. job' = [job EXCEPT ![r] = j]
    BY <1>2 DEF Refuse
  <2>2. JobOK(j)
    BY <1>0, <1>2, JobFacts DEF At, JobOK, JobType, Ends
  <2>. QED BY <1>0, <2>1, <2>2, OneJob
<1>3. ASSUME NEW r \in Requests, Authorize(r), ~\E pressed \in BOOLEAN : Refuse(r, pressed)
      PROVE  JobsOK'
  <2> DEFINE j == [job[r] EXCEPT !.at = IF Limit <= 0 THEN "receive" ELSE "admit",
                                 !.seen = flight]
  <2>1. job' = [job EXCEPT ![r] = j]
    BY <1>3 DEF Authorize
  <2>2. JobOK(j)
    <3>1. JobOK(job[r]) /\ job[r].at = "authorize" /\ flight \in Int
      BY <1>0, <1>3 DEF Authorize, At, TypeOK
    <3>2. \A at \in {"receive", "admit"} : JobOK([job[r] EXCEPT !.at = at, !.seen = flight])
      BY <3>1 DEF JobOK, JobType
    <3>. QED BY <3>2
  <2>. QED BY <1>0, <2>1, <2>2, OneJob
<1>4. ASSUME NEW r \in Requests, TryAcquire(r), ~Refuse(r, TRUE) PROVE JobsOK'
  <2> DEFINE j == IF flight = job[r].seen
                    THEN [job[r] EXCEPT !.at = "receive", !.leased = TRUE]
                    ELSE [job[r] EXCEPT !.seen = flight]
  <2>1. job' = [job EXCEPT ![r] = j]
    BY <1>4 DEF TryAcquire
  <2>2. JobOK(j)
    BY <1>0, <1>4 DEF TryAcquire, At, JobOK, JobType, TypeOK
  <2>. QED BY <1>0, <2>1, <2>2, OneJob
<1>5. ASSUME NEW r \in Requests, Receive(r) PROVE JobsOK'
  <2> DEFINE n == Len(job[r].ask.events)
             j == IF job[r].ask.call = "batch" /\ n > MaxBatch
                    THEN [job[r] EXCEPT !.at = "answered", !.rejected = n, !.leased = FALSE]
                    ELSE [job[r] EXCEPT !.at = "check"]
  <2>1. job' = [job EXCEPT ![r] = j]
    BY <1>5 DEF Receive
  <2>2. JobOK(j)
    BY <1>0, <1>5, JobFacts DEF Receive, At, JobOK, JobType, Ends
  <2>. QED BY <1>0, <2>1, <2>2, OneJob
<1>6. ASSUME NEW r \in Requests, job[r].at \in {"check", "limit"}, job' = Rejected(r)
      PROVE  JobsOK'
  <2> DEFINE j == [job[r] EXCEPT !.at = "check", !.next = @ + 1, !.rejected = @ + 1]
  <2>1. job' = [job EXCEPT ![r] = j]
    BY <1>6 DEF Rejected
  <2>2. JobOK(j)
    <3>1. job[r].next + 1 \in Nat \ {0} /\ job[r].rejected + 1 \in Nat
      BY <1>0 DEF JobOK, JobType
    <3>. QED BY <1>0, <1>6, <3>1 DEF JobOK, JobType
  <2>. QED BY <1>0, <2>1, <2>2, OneJob
<1>7. ASSUME NEW r \in Requests, Check(r), job' # Rejected(r) PROVE JobsOK'
  <2> DEFINE j == [job[r] EXCEPT !.at = "limit", !.stamp = clock]
  <2>1. job' = [job EXCEPT ![r] = j]
    BY <1>7 DEF Check
  <2>2. JobOK(j)
    BY <1>0, <1>7 DEF Check, At, JobOK, JobType, TypeOK
  <2>. QED BY <1>0, <2>1, <2>2, OneJob
<1>8. ASSUME NEW r \in Requests, Allow(r), job' # Rejected(r) PROVE JobsOK'
  <2> DEFINE j == [job[r] EXCEPT !.at = "produce"]
  <2>1. job' = [job EXCEPT ![r] = j]
    BY <1>8 DEF Allow
  <2>2. JobOK(j)
    BY <1>0, <1>8 DEF Allow, At, JobOK, JobType
  <2>. QED BY <1>0, <2>1, <2>2, OneJob
<1>9. ASSUME NEW r \in Requests, Produce(r) PROVE JobsOK'
  <2> DEFINE j == [job[r] EXCEPT !.at = "check", !.next = @ + 1, !.accepted = @ + 1]
  <2>1. job' = [job EXCEPT ![r] = j]
    BY <1>9 DEF Produce
  <2>2. JobOK(j)
    <3>1. job[r].next + 1 \in Nat \ {0} /\ job[r].accepted + 1 \in Nat
      BY <1>0 DEF JobOK, JobType
    <3>. QED BY <1>0, <1>9, <3>1 DEF Produce, At, JobOK, JobType
  <2>. QED BY <1>0, <2>1, <2>2, OneJob
<1>10. ASSUME NEW r \in Requests, NEW end \in Ends, ~At(r, "idle"),
              job' = [job EXCEPT ![r].at = end, ![r].leased = FALSE]
       PROVE  JobsOK'
  <2> DEFINE j == [job[r] EXCEPT !.at = end, !.leased = FALSE]
  <2>1. job' = [job EXCEPT ![r] = j]
    BY <1>10
  <2>2. JobOK(j)
    BY <1>0, <1>10 DEF At, JobOK, JobType, Ends
  <2>. QED BY <1>0, <2>1, <2>2, OneJob
<1>11. ASSUME UNCHANGED job PROVE JobsOK'
  BY <1>0, <1>11 DEF JobsOK, JobOK
<1>12. ASSUME NEW r \in Requests, Thread(r) PROVE JobsOK'
  <2>1. CASE Authorize(r) \/ TryAcquire(r)
    BY <1>2, <1>3, <1>4, <2>1 DEF Authorize, TryAcquire, At
  <2>2. CASE Check(r) \/ Allow(r)
    BY <1>6, <1>7, <1>8, <2>2 DEF Check, Allow, At
  <2>3. CASE ProduceThrows(r) \/ Answer(r)
    BY <1>10, <2>3 DEF ProduceThrows, Answer, At, Ends
  <2>. QED BY <1>5, <1>9, <1>12, <2>1, <2>2, <2>3 DEF Thread
<1>13. Report \/ Tick \/ BeginStop \/ Flush \/ EndStop \/ UNCHANGED vars => UNCHANGED job
  BY DEF Report, Decided, Deliver, DeliveryFails, Tick, BeginStop, Flush, EndStop, vars
<1>. QED BY <1>1, <1>11, <1>12, <1>13 DEF Next

LEMMA AppendTyped ==
  ASSUME NEW S, NEW s \in Seq(S), NEW x \in S
  PROVE  /\ Append(s, x) \in Seq(S)
         /\ Len(s) \in Nat /\ Len(Append(s, x)) = Len(s) + 1
         /\ \A i \in 1..Len(s) : Append(s, x)[i] = s[i]
         /\ Append(s, x)[Len(s) + 1] = x
  OBVIOUS

LEMMA ElementTyped ==
  ASSUME NEW S, NEW s \in Seq(S)
  PROVE  Len(s) \in Nat /\ \A i \in 1..Len(s) : s[i] \in S
  OBVIOUS

LEMMA TypeNext == TypeOK /\ [Next]_vars => TypeOK'
<1> SUFFICES ASSUME TypeOK, [Next]_vars PROVE TypeOK'
  OBVIOUS
<1>0. JobsOK'
  BY JobsNext
<1>1. flight' \in Int /\ life' \in {"ready", "draining", "stopped"} /\ clock' \in Nat
  <2>1. ASSUME NEW r \in Requests, Call(r) \/ Thread(r) PROVE flight' \in Int /\ UNCHANGED <<life, clock>>
    <3>1. CASE Call(r) \/ Authorize(r) \/ Check(r) \/ Allow(r) \/ Produce(r)
      BY <3>1 DEF TypeOK, Call, Authorize, Refuse, Check, Allow, Produce
    <3>2. CASE TryAcquire(r)
      BY <3>2 DEF TypeOK, TryAcquire, Refuse
    <3>3. CASE Receive(r) \/ ProduceThrows(r) \/ Answer(r)
      BY <3>3 DEF TypeOK, Receive, Release, ProduceThrows, Answer
    <3>. QED BY <2>1, <3>1, <3>2, <3>3 DEF Thread
  <2>. QED BY <2>1 DEF TypeOK, Next, Report, Decided, Deliver, DeliveryFails, Tick, BeginStop, Flush, EndStop, vars
<1>2. told' \in [received : Nat, rejected : Nat, queued : Nat, pressed : Nat]
  <2>0. /\ told \in [received : Nat, rejected : Nat, queued : Nat, pressed : Nat]
        /\ \A n \in Nat : /\ told.received + n \in Nat /\ told.rejected + n \in Nat
                          /\ told.queued + n \in Nat /\ told.pressed + n \in Nat
    BY DEF TypeOK
  <2>1. ASSUME NEW r \in Requests, NEW pressed \in BOOLEAN, Refuse(r, pressed)
        PROVE  told' \in [received : Nat, rejected : Nat, queued : Nat, pressed : Nat]
    <3>1. Charge(job[r].ask) \in Nat
      BY JobFacts
    <3>2. PICK k \in {0, 1} :
            told' = [told EXCEPT !.rejected = @ + Charge(job[r].ask), !.pressed = @ + k]
      BY <2>1 DEF Refuse
    <3>. QED BY <2>0, <3>1, <3>2
  <2>2. ASSUME NEW r \in Requests, Thread(r), ~\E pressed \in BOOLEAN : Refuse(r, pressed)
        PROVE  told' \in [received : Nat, rejected : Nat, queued : Nat, pressed : Nat]
    <3>1. Len(job[r].ask.events) \in Nat
      BY JobFacts
    <3>2. CASE Authorize(r) \/ TryAcquire(r) \/ ProduceThrows(r) \/ Answer(r)
      BY <2>0, <2>2, <3>2 DEF Authorize, TryAcquire, ProduceThrows, Answer
    <3>3. CASE Receive(r)
      <4> DEFINE n == Len(job[r].ask.events)
      <4>1. told' \in {told, [told EXCEPT !.received = @ + n],
                       [told EXCEPT !.received = @ + n, !.rejected = @ + n]}
        BY <3>3 DEF Receive
      <4>. QED BY <2>0, <3>1, <4>1
    <3>4. CASE Check(r) \/ Allow(r) \/ Produce(r)
      <4>1. told' \in {told, [told EXCEPT !.rejected = @ + 1], [told EXCEPT !.queued = @ + 1],
                       [told EXCEPT !.rejected = @ + 1, !.pressed = @ + 1]}
        BY <3>4 DEF Check, Allow, Produce
      <4>2. \A k \in {0, 1} : [told EXCEPT !.rejected = @ + 1, !.pressed = @ + k]
              \in [received : Nat, rejected : Nat, queued : Nat, pressed : Nat]
        BY <2>0
      <4>3. [told EXCEPT !.rejected = @ + 1] \in [received : Nat, rejected : Nat, queued : Nat, pressed : Nat]
        BY <2>0
      <4>4. [told EXCEPT !.queued = @ + 1] \in [received : Nat, rejected : Nat, queued : Nat, pressed : Nat]
        BY <2>0
      <4>. QED BY <2>0, <4>1, <4>2, <4>3, <4>4
    <3>. QED BY <2>2, <3>2, <3>3, <3>4 DEF Thread
  <2>3. ASSUME NEW r \in Requests, Call(r) PROVE UNCHANGED told
    BY <2>3 DEF Call
  <2>. QED BY <2>0, <2>1, <2>2, <2>3 DEF Next, Report, Decided, Deliver, DeliveryFails, Tick, BeginStop, Flush, EndStop, vars
<1>3. /\ windows' \in [Devices -> [since : Nat, count : Nat]]
      /\ passed' \in Seq([dev : Devices, read : Nat, at : Nat])
  <2>1. ASSUME NEW r \in Requests, Allow(r)
        PROVE  /\ windows' \in [Devices -> [since : Nat, count : Nat]]
               /\ passed' \in Seq([dev : Devices, read : Nat, at : Nat])
    <3> DEFINE d == Event(r).dev
               w == Restarted(windows[d], job[r].stamp)
    <3>1. d \in Devices /\ job[r].stamp \in Nat
      BY <2>1, JobFacts DEF Allow, At, JobType
    <3>2. w \in [since : Nat, count : Nat] /\ [w EXCEPT !.count = @ + 1] \in [since : Nat, count : Nat]
      <4>1. windows[d] \in [since : Nat, count : Nat]
        BY <3>1 DEF TypeOK
      <4>2. w \in [since : Nat, count : Nat]
        BY <3>1, <4>1 DEF Restarted
      <4>3. w.count + 1 \in Nat
        BY <4>2
      <4>. QED BY <4>2, <4>3
    <3>3. [dev |-> d, read |-> job[r].stamp, at |-> clock] \in [dev : Devices, read : Nat, at : Nat]
      BY <3>1 DEF TypeOK
    <3>4. /\ windows' \in {[windows EXCEPT ![d] = w], [windows EXCEPT ![d] = [w EXCEPT !.count = @ + 1]]}
          /\ passed' \in {passed, Append(passed, [dev |-> d, read |-> job[r].stamp, at |-> clock])}
      BY <2>1 DEF Allow
    <3> HIDE DEF d, w
    <3>5. windows' \in [Devices -> [since : Nat, count : Nat]]
      BY <3>1, <3>2, <3>4 DEF TypeOK
    <3>6. passed' \in Seq([dev : Devices, read : Nat, at : Nat])
      <4> DEFINE x == [dev |-> d, read |-> job[r].stamp, at |-> clock]
      <4>1. passed \in Seq([dev : Devices, read : Nat, at : Nat]) /\ passed' \in {passed, Append(passed, x)}
        BY <3>4 DEF TypeOK
      <4>2. x \in [dev : Devices, read : Nat, at : Nat]
        BY <3>3
      <4> DEFINE S == [dev : Devices, read : Nat, at : Nat]
      <4>3. Append(passed, x) \in Seq(S)
        <5> HIDE DEF S, x
        <5>. QED BY <4>1, <4>2, AppendTyped DEF S
      <4>4. passed' = passed \/ passed' = Append(passed, x)
        BY <4>1
      <4> HIDE DEF S, x
      <4>. QED BY <4>1, <4>3, <4>4, Zenon DEF S
    <3>. QED BY <3>5, <3>6
  <2>2. ASSUME NEW r \in Requests,
               \/ Call(r) \/ Authorize(r) \/ TryAcquire(r) \/ Receive(r) \/ Check(r) \/ Produce(r)
               \/ ProduceThrows(r) \/ Answer(r)
        PROVE  UNCHANGED <<windows, passed>>
    BY <2>2 DEF Call, Authorize, TryAcquire, Receive, Check, Produce, ProduceThrows, Answer
  <2>3. Report \/ Tick \/ BeginStop \/ Flush \/ EndStop \/ UNCHANGED vars => UNCHANGED <<windows, passed>>
    BY DEF Report, Decided, Deliver, DeliveryFails, Tick, BeginStop, Flush, EndStop, vars
  <2>. QED BY <2>1, <2>2, <2>3 DEF Next, Thread, TypeOK
<1>4. /\ produced' \in Seq([req : Requests, pos : Nat \ {0}])
      /\ Reported' \subseteq 1..Len(produced') /\ delivered' \intersect failed' = {}
      /\ served' \subseteq Reported'
  <2>0. /\ produced \in Seq([req : Requests, pos : Nat \ {0}]) /\ Len(produced) \in Nat
        /\ delivered \subseteq 1..Len(produced) /\ failed \subseteq 1..Len(produced)
        /\ delivered \intersect failed = {} /\ served \subseteq delivered \union failed
    <3>1. produced \in Seq([req : Requests, pos : Nat \ {0}])
      BY DEF TypeOK
    <3>2. /\ delivered \union failed \subseteq 1..Len(produced)
          /\ delivered \intersect failed = {} /\ served \subseteq delivered \union failed
      BY Zenon DEF TypeOK, Reported
    <3>3. Len(produced) \in Nat
      BY <3>1, ElementTyped, Zenon
    <3>. QED BY <3>1, <3>2, <3>3, Zenon
  <2>1. CASE UNCHANGED <<produced, delivered, failed, served>>
    BY <2>1 DEF TypeOK, Reported
  <2>2. ASSUME NEW r \in Requests, Produce(r)
        PROVE  /\ produced' \in Seq([req : Requests, pos : Nat \ {0}])
               /\ Reported' \subseteq 1..Len(produced') /\ delivered' \intersect failed' = {}
               /\ served' \subseteq Reported'
    <3> DEFINE m == [req |-> r, pos |-> job[r].next]
    <3>1. m \in [req : Requests, pos : Nat \ {0}]
      BY JobFacts DEF JobType
    <3>2. produced' = Append(produced, m) /\ UNCHANGED <<delivered, failed, served>>
      BY <2>2 DEF Produce
    <3> HIDE DEF m
    <3>3. produced' \in Seq([req : Requests, pos : Nat \ {0}]) /\ Len(produced') = Len(produced) + 1
      BY <2>0, <3>1, <3>2, AppendTyped
    <3>4. 1..Len(produced) \subseteq 1..Len(produced')
      BY <2>0, <3>3
    <3>. QED BY <2>0, <3>2, <3>3, <3>4 DEF Reported
  <2>3. CASE Report
    <3>1. PICK i \in 1..Len(produced) : Deliver(i) \/ DeliveryFails(i)
      BY <2>3 DEF Report
    <3>2. /\ UNCHANGED <<produced, served>> /\ i \notin delivered /\ i \notin failed
          /\ \/ delivered' = delivered \union {i} /\ UNCHANGED failed
             \/ failed' = failed \union {i} /\ UNCHANGED delivered
      BY <3>1 DEF Deliver, DeliveryFails, Decided, Reported
    <3>. QED BY <2>0, <3>2 DEF Reported
  <2>4. CASE Flush
    BY <2>0, <2>4 DEF Flush, Reported
  <2>5. ASSUME NEW r \in Requests, Call(r) \/ Thread(r), ~Produce(r)
        PROVE  UNCHANGED <<produced, delivered, failed, served>>
    BY <2>5 DEF Thread, Call, Authorize, TryAcquire, Receive, Check, Allow, ProduceThrows, Answer
  <2>6. Tick \/ BeginStop \/ EndStop \/ UNCHANGED vars => UNCHANGED <<produced, delivered, failed, served>>
    BY DEF Tick, BeginStop, EndStop, vars
  <2>. QED BY <2>1, <2>2, <2>3, <2>4, <2>5, <2>6 DEF Next, Thread
<1>. QED BY <1>0, <1>1, <1>2, <1>3, <1>4 DEF TypeOK, JobsOK, JobOK

\* The gateway, its threads and its producer are well typed in every reachable
\* state; in particular a thread at an event is within its batch.
THEOREM TypeCorrect == Spec => []TypeOK
  BY TypeInit, TypeNext, PTL DEF Spec

(************************* what a step does to a job ***********************)
\* The fields of a thread's record that the invariants below speak of.
Same(r, fields) == \A x \in fields : job'[r][x] = job[r][x]

LEMMA Others ==
  ASSUME TypeOK, NEW r \in Requests, Call(r) \/ Thread(r), NEW q \in Requests \ {r}
  PROVE  job'[q] = job[q]
<1>1. CASE Call(r) \/ Authorize(r) \/ Check(r) \/ Allow(r)
  BY <1>1 DEF TypeOK, Call, Authorize, Refuse, Check, Rejected, Allow
<1>2. CASE TryAcquire(r) \/ Receive(r) \/ Produce(r) \/ ProduceThrows(r) \/ Answer(r)
  BY <1>2 DEF TypeOK, TryAcquire, Refuse, Receive, Produce, ProduceThrows, Answer
<1>. QED BY <1>1, <1>2 DEF Thread

LEMMA Called ==
  ASSUME TypeOK, NEW r \in Requests, Call(r)
  PROVE  /\ Same(r, {"leased", "next", "accepted"})
         /\ \/ job'[r].at = "authorize" /\ job'[r].rejected = 0
            \/ job'[r].at = "answered" /\ job'[r].rejected = Len(job'[r].ask.events)
<1>1. PICK a \in Asks[r] :
        LET bad == a.via = "grpc" /\ \E i \in 1..Len(a.events) : ~WireValid(a.events[i])
        IN job' = [job EXCEPT ![r].ask = a,
                              ![r].at = IF bad THEN "answered" ELSE "authorize",
                              ![r].rejected = IF bad THEN Len(a.events) ELSE 0]
  BY DEF Call
<1>2. CASE job' = [job EXCEPT ![r].ask = a, ![r].at = "authorize", ![r].rejected = 0]
  BY <1>2 DEF TypeOK, JobType, Same
<1>3. CASE job' = [job EXCEPT ![r].ask = a, ![r].at = "answered", ![r].rejected = Len(a.events)]
  BY <1>3 DEF TypeOK, JobType, Same
<1>. QED BY <1>1, <1>2, <1>3

LEMMA Refused ==
  ASSUME TypeOK, NEW r \in Requests, NEW pressed, Refuse(r, pressed)
  PROVE  /\ Same(r, {"leased", "next", "accepted", "ask"})
         /\ job'[r].at = "answered" /\ job'[r].rejected = Charge(job[r].ask)
  BY DEF Refuse, TypeOK, JobType, Same

LEMMA Authorized ==
  ASSUME TypeOK, NEW r \in Requests, Authorize(r), ~\E pressed \in BOOLEAN : Refuse(r, pressed)
  PROVE  /\ Same(r, {"leased", "next", "accepted", "rejected", "ask"})
         /\ job'[r].at \in {"receive", "admit"}
<1>1. PICK at \in {"receive", "admit"} : job' = [job EXCEPT ![r].at = at, ![r].seen = flight]
  BY DEF Authorize
<1>. QED BY <1>1 DEF TypeOK, JobType, Same

LEMMA Admitted ==
  ASSUME TypeOK, NEW r \in Requests, TryAcquire(r), ~Refuse(r, TRUE)
  PROVE  /\ Same(r, {"next", "accepted", "rejected", "ask"})
         /\ \/ job'[r].at = "receive" /\ job'[r].leased = TRUE /\ flight < Limit /\ flight' = flight + 1
            \/ job'[r].at = "admit" /\ job'[r].leased = job[r].leased /\ UNCHANGED flight
<1>1. \/ /\ job' = [job EXCEPT ![r].at = "receive", ![r].leased = TRUE]
         /\ flight < Limit /\ flight' = flight + 1
      \/ job' = [job EXCEPT ![r].seen = flight] /\ UNCHANGED flight
  BY DEF TryAcquire
<1>2. job[r].at = "admit"
  BY DEF TryAcquire, At
<1>3. CASE job' = [job EXCEPT ![r].at = "receive", ![r].leased = TRUE] /\ flight < Limit /\ flight' = flight + 1
  BY <1>3 DEF TypeOK, JobType, Same
<1>4. CASE job' = [job EXCEPT ![r].seen = flight] /\ UNCHANGED flight
  BY <1>2, <1>4 DEF TypeOK, JobType, Same
<1>. QED BY <1>1, <1>3, <1>4

LEMMA Received ==
  ASSUME TypeOK, NEW r \in Requests, Receive(r)
  PROVE  /\ Same(r, {"next", "accepted", "ask"})
         /\ \/ /\ job'[r].at = "answered" /\ job'[r].rejected = Len(job[r].ask.events)
               /\ job'[r].leased = FALSE /\ Release(r)
            \/ /\ job'[r].at = "check" /\ Same(r, {"rejected", "leased"}) /\ UNCHANGED flight
<1>1. \/ /\ job' = [job EXCEPT ![r].at = "answered", ![r].rejected = Len(job[r].ask.events), ![r].leased = FALSE]
         /\ Release(r)
      \/ job' = [job EXCEPT ![r].at = "check"] /\ UNCHANGED flight
  BY DEF Receive
<1>2. CASE job' = [job EXCEPT ![r].at = "answered", ![r].rejected = Len(job[r].ask.events), ![r].leased = FALSE]
  BY <1>1, <1>2 DEF TypeOK, JobType, Same
<1>3. CASE job' = [job EXCEPT ![r].at = "check"] /\ UNCHANGED flight
  BY <1>3 DEF TypeOK, JobType, Same
<1>. QED BY <1>1, <1>2, <1>3

LEMMA EventRejected ==
  ASSUME TypeOK, NEW r \in Requests, job' = Rejected(r)
  PROVE  /\ Same(r, {"accepted", "ask", "leased"}) /\ job'[r].at = "check"
         /\ job'[r].next = job[r].next + 1 /\ job'[r].rejected = job[r].rejected + 1
  BY DEF Rejected, TypeOK, JobType, Same

LEMMA EventPassed ==
  ASSUME TypeOK, NEW r \in Requests, Check(r) \/ Allow(r), job' # Rejected(r)
  PROVE  /\ Same(r, {"accepted", "rejected", "next", "ask", "leased"})
         /\ job'[r].at = IF At(r, "check") THEN "limit" ELSE "produce"
<1>1. CASE Check(r)
  <2>1. job' = [job EXCEPT ![r].at = "limit", ![r].stamp = clock] /\ At(r, "check")
    BY <1>1 DEF Check
  <2>. QED BY <2>1 DEF At, TypeOK, JobType, Same
<1>2. CASE Allow(r)
  <2>1. job' = [job EXCEPT ![r].at = "produce"] /\ At(r, "limit")
    BY <1>2 DEF Allow
  <2>. QED BY <2>1 DEF At, TypeOK, JobType, Same
<1>. QED BY <1>1, <1>2

LEMMA Produced ==
  ASSUME TypeOK, NEW r \in Requests, Produce(r)
  PROVE  /\ Same(r, {"rejected", "ask", "leased"}) /\ job'[r].at = "check"
         /\ job'[r].next = job[r].next + 1 /\ job'[r].accepted = job[r].accepted + 1
  BY DEF Produce, TypeOK, JobType, Same

LEMMA Ended ==
  ASSUME TypeOK, NEW r \in Requests, ProduceThrows(r) \/ Answer(r)
  PROVE  /\ Same(r, {"next", "accepted", "rejected", "ask"})
         /\ job'[r].at = (IF Answer(r) THEN "answered" ELSE "failed")
         /\ job'[r].leased = FALSE /\ Release(r)
<1>1. CASE Answer(r)
  BY <1>1 DEF Answer, TypeOK, JobType, Same
<1>2. CASE ProduceThrows(r)
  <2>1. ~Answer(r)
    BY <1>2 DEF ProduceThrows, Answer, At
  <2>. QED BY <1>2, <2>1 DEF ProduceThrows, TypeOK, JobType, Same
<1>. QED BY <1>1, <1>2
-----------------------------------------------------------------------------
(********************************* leases **********************************)
\* A lease is held between admission and the end of the call.
HeldOK == \A r \in Requests : job[r].leased => job[r].at \in {"receive", "check", "limit", "produce"}

LeaseInv == TypeOK /\ LeasesBounded /\ HeldOK

\* How many leases there are after the lease of one thread changed.
LEMMA OneLease ==
  ASSUME TypeOK, TypeOK', NEW r \in Requests,
         \A q \in Requests \ {r} : job'[q].leased <=> job[q].leased
  PROVE  /\ Cardinality(Leased) \in Nat
         /\ (job'[r].leased <=> job[r].leased) => Cardinality(Leased') = Cardinality(Leased)
         /\ ~job[r].leased /\ job'[r].leased => Cardinality(Leased') = Cardinality(Leased) + 1
         /\ job[r].leased /\ ~job'[r].leased => Cardinality(Leased') = Cardinality(Leased) - 1
<1>1. IsFiniteSet(Leased)
  BY GatewayAssumption, FS_Subset DEF Leased
<1>2. (job'[r].leased <=> job[r].leased) => Leased' = Leased
  BY DEF Leased
<1>3. ~job[r].leased /\ job'[r].leased => Leased' = Leased \cup {r} /\ r \notin Leased
  BY DEF Leased
<1>4. job[r].leased /\ ~job'[r].leased => Leased' = Leased \ {r} /\ r \in Leased
  BY DEF Leased
<1>. QED BY <1>1, <1>2, <1>3, <1>4, FS_CardinalityType, FS_AddElement, FS_RemoveElement

LEMMA LeaseInit == Init => LeaseInv
<1> SUFFICES ASSUME Init PROVE LeaseInv
  OBVIOUS
<1>1. TypeOK
  BY TypeInit
<1>2. Leased = {} /\ HeldOK /\ flight = 0
  BY DEF Init, Leased, HeldOK
<1>3. Cardinality(Leased) = 0
  BY <1>2, FS_EmptySet
<1>. QED BY <1>1, <1>2, <1>3, GatewayAssumption DEF LeaseInv, LeasesBounded, Leased

LEMMA LeaseNext == LeaseInv /\ [Next]_vars => LeaseInv'
<1> SUFFICES ASSUME LeaseInv, [Next]_vars PROVE LeaseInv'
  OBVIOUS
<1>0. TypeOK /\ TypeOK' /\ flight \in Int /\ Limit \in Int
  BY TypeNext, GatewayAssumption DEF LeaseInv, TypeOK
<1> SUFFICES LeasesBounded' /\ HeldOK'
  BY <1>0 DEF LeaseInv
<1>1. ASSUME NEW r \in Requests, Call(r) \/ Thread(r), UNCHANGED flight, Same(r, {"leased"}),
             job[r].leased => job'[r].at \in {"receive", "check", "limit", "produce"}
      PROVE  LeasesBounded' /\ HeldOK'
  <2>1. \A q \in Requests : job'[q].leased = job[q].leased
    BY <1>0, <1>1, Others DEF Same
  <2>2. HeldOK'
    BY <1>0, <1>1, <2>1, Others DEF LeaseInv, HeldOK
  <2>3. Leased' = Leased
    BY <2>1 DEF Leased
  <2>. QED BY <1>1, <2>2, <2>3 DEF LeaseInv, LeasesBounded, HeldOK, Ends
\* The lease is given back on every way out.
<1>2. ASSUME NEW r \in Requests, Thread(r), Release(r), job'[r].leased = FALSE
      PROVE  LeasesBounded' /\ HeldOK'
  <2>1. \A q \in Requests \ {r} : job'[q] = job[q]
    BY <1>0, <1>2, Others
  <2>2. job[r].leased \in BOOLEAN
    BY <1>0 DEF TypeOK, JobType
  <2>3. Cardinality(Leased) = flight
    BY DEF LeaseInv, LeasesBounded
  <2>4. Cardinality(Leased') = flight'
    <3>1. CASE job[r].leased
      BY <1>0, <1>2, <2>1, <2>3, <3>1, OneLease DEF Release
    <3>2. CASE ~job[r].leased
      BY <1>0, <1>2, <2>1, <2>3, <3>2, OneLease DEF Release
    <3>. QED BY <3>1, <3>2
  <2>5. flight' <= flight
    BY <1>0, <1>2 DEF Release
  <2>6. HeldOK'
    BY <1>2, <2>1 DEF LeaseInv, HeldOK
  <2>7. Limit > 0 => flight' <= Limit
    BY <1>0, <2>5 DEF LeaseInv, LeasesBounded, TypeOK
  <2>. QED BY <2>4, <2>6, <2>7 DEF LeasesBounded, HeldOK, Ends
<1>3. ASSUME NEW r \in Requests, TryAcquire(r), ~Refuse(r, TRUE) PROVE LeasesBounded' /\ HeldOK'
  <2>1. CASE job'[r].at = "receive" /\ job'[r].leased = TRUE /\ flight < Limit /\ flight' = flight + 1
    <3>1. ~job[r].leased
      BY <1>3 DEF TryAcquire, At, LeaseInv, HeldOK
    <3>2. \A q \in Requests \ {r} : job'[q] = job[q]
      BY <1>0, <1>3, Others DEF Thread
    <3>3. Cardinality(Leased') = flight'
      BY <1>0, <2>1, <3>1, <3>2, OneLease DEF LeaseInv, LeasesBounded
    <3>4. HeldOK'
      BY <2>1, <3>2 DEF LeaseInv, HeldOK
    <3>. QED BY <1>0, <2>1, <3>3, <3>4 DEF LeasesBounded, HeldOK, Ends
  <2>2. CASE job'[r].at = "admit" /\ job'[r].leased = job[r].leased /\ UNCHANGED flight
    BY <1>1, <1>3, <2>2 DEF Thread, TryAcquire, At, LeaseInv, HeldOK, Same
  <2>. QED BY <1>0, <1>3, <2>1, <2>2, Admitted
<1>4. ASSUME NEW r \in Requests, NEW pressed, Call(r) \/ Thread(r), Refuse(r, pressed),
             job[r].at \in {"authorize", "admit"}
      PROVE  LeasesBounded' /\ HeldOK'
  <2>1. Same(r, {"leased"}) /\ UNCHANGED flight
    BY <1>0, <1>4, Refused DEF Same, Refuse
  <2>2. ~job[r].leased
    BY <1>4 DEF LeaseInv, HeldOK
  <2>. QED BY <1>1, <1>4, <2>1, <2>2
<1>5. ASSUME NEW r \in Requests, Call(r) PROVE LeasesBounded' /\ HeldOK'
  BY <1>0, <1>1, <1>5, Called DEF Call, At, LeaseInv, HeldOK, Same
<1>6. ASSUME NEW r \in Requests, Authorize(r), ~\E pressed \in BOOLEAN : Refuse(r, pressed)
      PROVE  LeasesBounded' /\ HeldOK'
  <2>1. UNCHANGED flight /\ job[r].at = "authorize"
    BY <1>6 DEF Authorize, At
  <2>. QED BY <1>0, <1>1, <1>6, <2>1, Authorized DEF Thread, LeaseInv, HeldOK, Same
<1>7. ASSUME NEW r \in Requests, Receive(r) PROVE LeasesBounded' /\ HeldOK'
  BY <1>0, <1>1, <1>2, <1>7, Received DEF Thread, Same
<1>8. ASSUME NEW r \in Requests, Check(r) \/ Allow(r) PROVE LeasesBounded' /\ HeldOK'
  <2>1. UNCHANGED flight
    BY <1>8 DEF Check, Allow
  <2>. QED BY <1>0, <1>1, <1>8, <2>1, EventRejected, EventPassed DEF Thread, Same
<1>9. ASSUME NEW r \in Requests, Produce(r) PROVE LeasesBounded' /\ HeldOK'
  BY <1>0, <1>1, <1>9, Produced DEF Thread, Same, Produce
<1>10. ASSUME NEW r \in Requests, ProduceThrows(r) \/ Answer(r) PROVE LeasesBounded' /\ HeldOK'
  BY <1>0, <1>2, <1>10, Ended DEF Thread
<1>11. Report \/ Tick \/ BeginStop \/ Flush \/ EndStop \/ UNCHANGED vars => LeasesBounded' /\ HeldOK'
  BY DEF Report, Decided, Deliver, DeliveryFails, Tick, BeginStop, Flush, EndStop, vars, LeaseInv, HeldOK, LeasesBounded, Leased
<1>12. ASSUME NEW r \in Requests, Authorize(r) \/ TryAcquire(r) PROVE LeasesBounded' /\ HeldOK'
  BY <1>3, <1>4, <1>6, <1>12 DEF Thread, Authorize, TryAcquire, At
<1>. QED BY <1>5, <1>7, <1>8, <1>9, <1>10, <1>11, <1>12 DEF Next, Thread

\* However calls and refusals interleave, the counter of calls in flight is the
\* number of leases held and never passes the limit, and no call that has ended
\* keeps one, failed ones included.
THEOREM AdmissionIsBounded == Spec => []LeasesBounded
<1>1. LeaseInv => LeasesBounded
  BY DEF LeaseInv
<1>. QED BY LeaseInit, LeaseNext, <1>1, PTL DEF Spec
-----------------------------------------------------------------------------
(********************************** books **********************************)
\* A thread's messages are counted and in the order of its batch.
Counted(r) ==
  /\ job[r].accepted = Cardinality(Of(r))
  /\ \A i, j \in Of(r) : i < j => produced[i].pos < produced[j].pos
  /\ \A i \in Of(r) : produced[i].pos < job[r].next

\* The events before the one at hand are accepted or rejected.
SumOK(r) ==
  /\ job[r].at \in {"idle", "authorize", "admit", "receive"} =>
       job[r].next = 1 /\ job[r].accepted = 0 /\ job[r].rejected = 0
  /\ job[r].at \in {"check", "limit", "produce"} =>
       job[r].accepted + job[r].rejected = job[r].next - 1 /\ job[r].next <= Len(job[r].ask.events) + 1
  /\ job[r].at = "answered" =>
       job[r].accepted + job[r].rejected \in {Len(job[r].ask.events), Charge(job[r].ask)}

BookInv == /\ TypeOK
           /\ told.queued = Len(produced)
           /\ \A r \in Requests : Counted(r) /\ SumOK(r)

LEMMA ProducedFacts ==
  ASSUME TypeOK
  PROVE  /\ Len(produced) \in Nat
         /\ \A i \in 1..Len(produced) : produced[i].req \in Requests /\ produced[i].pos \in Nat \ {0}
<1>1. produced \in Seq([req : Requests, pos : Nat \ {0}])
  BY DEF TypeOK
<1>2. Len(produced) \in Nat /\ \A i \in 1..Len(produced) : produced[i] \in [req : Requests, pos : Nat \ {0}]
  BY <1>1, ElementTyped, Zenon
<1>. QED BY <1>2

LEMMA BookInit == Init => BookInv
<1> SUFFICES ASSUME Init PROVE BookInv
  OBVIOUS
<1>1. Len(produced) = 0 /\ told.queued = 0
  BY DEF Init
<1>2. \A r \in Requests : Of(r) = {}
  BY <1>1 DEF Of
<1>3. \A r \in Requests : job[r].at = "idle" /\ job[r].next = 1 /\ job[r].accepted = 0 /\ job[r].rejected = 0
  BY DEF Init
<1>. QED BY <1>1, <1>2, <1>3, TypeInit, FS_EmptySet DEF BookInv, Counted, SumOK

LEMMA CountKept ==
  ASSUME TypeOK, TypeOK', UNCHANGED produced, NEW r \in Requests, Counted(r),
         job'[r].accepted = job[r].accepted, job'[r].next >= job[r].next
  PROVE  Counted(r)'
<1>1. Of(r)' = Of(r)
  BY DEF Of
<1>2. \A i \in Of(r) : produced[i].pos \in Nat
  BY ProducedFacts DEF Of
<1>3. job[r].next \in Nat /\ job'[r].next \in Nat
  BY DEF TypeOK, JobType
<1>. QED BY <1>1, <1>2, <1>3 DEF Counted

LEMMA CountGrows ==
  ASSUME TypeOK, TypeOK', NEW r \in Requests, Produce(r), \A q \in Requests : Counted(q)
  PROVE  \A q \in Requests : Counted(q)'
<1> DEFINE m == [req |-> r, pos |-> job[r].next]
           n == Len(produced) + 1
<1>1. /\ produced' = Append(produced, m) /\ n \in Nat /\ n \notin 1..Len(produced)
      /\ Len(produced') = n /\ produced'[n] = m /\ \A i \in 1..Len(produced) : produced'[i] = produced[i]
      /\ 1..n = 1..Len(produced) \cup {n}
  <2>1. produced' = Append(produced, m)
    BY DEF Produce
  <2>2. produced \in Seq([req : Requests, pos : Nat \ {0}]) /\ m \in [req : Requests, pos : Nat \ {0}]
    BY DEF TypeOK, JobType
  <2> HIDE DEF m
  <2>3. /\ Len(produced) \in Nat /\ Len(produced') = n /\ produced'[n] = m
        /\ \A i \in 1..Len(produced) : produced'[i] = produced[i]
    BY <2>1, <2>2, AppendTyped
  <2>. QED BY <2>1, <2>3
<1>2. Of(r)' = Of(r) \cup {n} /\ n \notin Of(r)
  BY <1>1 DEF Of
<1>3. IsFiniteSet(Of(r))
  <2>1. IsFiniteSet(1..Len(produced))
    BY <1>1, ProducedFacts, FS_Interval
  <2>. QED BY <2>1, FS_Subset DEF Of
<1>4. job'[r].accepted = job[r].accepted + 1 /\ job'[r].next = job[r].next + 1 /\ job[r].next \in Nat
  BY Produced DEF TypeOK, JobType
<1>5. job'[r].accepted = Cardinality(Of(r)')
  BY <1>2, <1>3, <1>4, FS_AddElement DEF Counted
<1>6. \A i \in Of(r) : i < n /\ produced'[i] = produced[i] /\ produced[i].pos < job[r].next
                        /\ produced[i].pos \in Nat
  <2>1. Of(r) \subseteq 1..Len(produced)
    BY DEF Of
  <2>2. \A i \in Of(r) : produced[i].pos < job[r].next
    BY DEF Counted
  <2>3. \A i \in 1..Len(produced) : i < n /\ produced'[i] = produced[i] /\ produced[i].pos \in Nat
    BY <1>1, ProducedFacts
  <2>. QED BY <2>1, <2>2, <2>3, Zenon
<1>7. Counted(r)'
  <2>0. produced'[n].pos = job[r].next /\ Len(produced) \in Nat
    BY <1>1, ProducedFacts
  <2>1. ASSUME NEW i \in Of(r), NEW j \in Of(r), i < j PROVE produced'[i].pos < produced'[j].pos
    <3>1. produced[i].pos < produced[j].pos
      BY <2>1 DEF Counted
    <3>. QED BY <1>6, <3>1
  <2>2. ASSUME NEW i \in Of(r)'
        PROVE  (i < n /\ i \in Of(r) /\ produced'[i].pos < job[r].next) \/ i = n
    BY <1>2, <1>6
  <2>3. \A i \in Of(r)' : produced'[i].pos < job'[r].next
    <3>1. \A i \in Of(r) : produced'[i].pos < job[r].next + 1
      BY <1>4, <1>6
    <3>2. produced'[n].pos < job[r].next + 1
      BY <1>4, <2>0
    <3>. QED BY <1>2, <1>4, <3>1, <3>2
  <2>4. ASSUME NEW i \in Of(r)', NEW j \in Of(r)', i < j PROVE produced'[i].pos < produced'[j].pos
    <3>1. i \in Of(r)
      <4>1. j = n \/ j < n
        BY <1>2, <1>6, Zenon
      <4>2. i = n => FALSE
        <5>1. n \in Nat
          BY <1>1
        <5>. QED BY <2>4, <4>1, <5>1
      <4>. QED BY <1>2, <4>2, Zenon
    <3>2. CASE j = n
      BY <1>6, <2>0, <3>1, <3>2
    <3>. QED BY <1>2, <2>1, <2>2, <2>4, <3>1, <3>2
  <2>. QED BY <1>5, <2>3, <2>4 DEF Counted
<1>8. ASSUME NEW q \in Requests \ {r} PROVE Counted(q)'
  <2>1. Of(q)' = Of(q) /\ \A i \in Of(q) : produced'[i] = produced[i]
    BY <1>1 DEF Of
  <2>2. job'[q] = job[q]
    BY Others DEF Thread
  <2>. QED BY <2>1, <2>2 DEF Counted
<1>. QED BY <1>7, <1>8

LEMMA OneMore ==
  ASSUME NEW n \in Nat, NEW a \in Nat, NEW b \in Nat, NEW len \in Nat,
         a + b = n - 1, n <= len
  PROVE  /\ n + 1 >= n /\ n >= n /\ n <= len + 1 /\ n + 1 <= len + 1
         /\ (a + 1) + b = (n + 1) - 1 /\ a + (b + 1) = (n + 1) - 1
  OBVIOUS

\* An event is done with, or more is found out about it.
LEMMA SumMoves ==
  ASSUME NEW r \in Requests, SumOK(r), job[r].at \in {"check", "limit", "produce"},
         job[r].next <= Len(job[r].ask.events),
         Len(job[r].ask.events) \in Nat, job[r].next \in Nat,
         job[r].accepted \in Nat, job[r].rejected \in Nat,
         job'[r].ask = job[r].ask, job'[r].at \in {"check", "limit", "produce"},
         \/ /\ job'[r].next = job[r].next + 1
            /\ \/ job'[r].accepted = job[r].accepted + 1 /\ job'[r].rejected = job[r].rejected
               \/ job'[r].accepted = job[r].accepted /\ job'[r].rejected = job[r].rejected + 1
         \/ /\ job'[r].next = job[r].next
            /\ job'[r].accepted = job[r].accepted /\ job'[r].rejected = job[r].rejected
  PROVE  SumOK(r)' /\ job'[r].next >= job[r].next
<1>1. job[r].accepted + job[r].rejected = job[r].next - 1
  BY DEF SumOK
<1>2. /\ job'[r].next >= job[r].next
      /\ job'[r].accepted + job'[r].rejected = job'[r].next - 1
      /\ job'[r].next <= Len(job[r].ask.events) + 1
  <2> DEFINE k == job[r].next  a == job[r].accepted  b == job[r].rejected
             len == Len(job[r].ask.events)
             k2 == job'[r].next  a2 == job'[r].accepted  b2 == job'[r].rejected
  <2>0. /\ k + 1 >= k /\ k >= k /\ k <= len + 1 /\ k + 1 <= len + 1
        /\ (a + 1) + b = (k + 1) - 1 /\ a + (b + 1) = (k + 1) - 1 /\ a + b = k - 1
    <3>1. k \in Nat /\ a \in Nat /\ b \in Nat /\ len \in Nat /\ a + b = k - 1 /\ k <= len
      BY <1>1, Zenon
    <3> HIDE DEF k, a, b, len
    <3>. QED BY <3>1, OneMore
  <2>4. k2 >= k /\ a2 + b2 = k2 - 1 /\ k2 <= len + 1
    <3>1. CASE k2 = k + 1 /\ a2 = a + 1 /\ b2 = b
      BY <2>0, <3>1, Zenon
    <3>2. CASE k2 = k + 1 /\ a2 = a /\ b2 = b + 1
      BY <2>0, <3>2, Zenon
    <3>3. CASE k2 = k /\ a2 = a /\ b2 = b
      BY <2>0, <3>3, Zenon
    <3>. QED BY <3>1, <3>2, <3>3, Zenon
  <2>. QED BY <2>4
<1>3. job'[r].at \notin {"idle", "authorize", "admit", "receive", "answered"}
  OBVIOUS
<1>. QED BY <1>2, <1>3 DEF SumOK

LEMMA BookNext == BookInv /\ [Next]_vars => BookInv'
<1> SUFFICES ASSUME BookInv, [Next]_vars PROVE BookInv'
  OBVIOUS
<1>0. TypeOK /\ TypeOK'
  BY TypeNext DEF BookInv
\* A step of r that produces nothing
<1>1. ASSUME NEW r \in Requests, Call(r) \/ Thread(r), UNCHANGED <<produced, told.queued>>,
             job'[r].accepted = job[r].accepted, job'[r].next >= job[r].next, SumOK(r)'
      PROVE  BookInv'
  <2>1. ASSUME NEW q \in Requests \ {r} PROVE Counted(q)' /\ SumOK(q)'
    <3>1. job'[q] = job[q]
      BY <1>0, <1>1, <2>1, Others
    <3>2. job[q].next \in Nat
      BY <1>0 DEF TypeOK, JobType
    <3>. QED BY <1>0, <1>1, <3>1, <3>2, CountKept DEF BookInv, SumOK
  <2>2. Counted(r)'
    BY <1>0, <1>1, CountKept DEF BookInv
  <2>. QED BY <1>0, <1>1, <2>1, <2>2 DEF BookInv
<1>2. ASSUME NEW r \in Requests
      PROVE  /\ Counted(r) /\ SumOK(r) /\ Len(job[r].ask.events) \in Nat
             /\ job[r].next \in Nat \ {0} /\ job[r].accepted \in Nat /\ job[r].rejected \in Nat
  BY <1>0, JobFacts DEF BookInv, TypeOK, JobType
<1>3. ASSUME NEW r \in Requests, Call(r) PROVE BookInv'
  <2>1. job[r].at = "idle" /\ UNCHANGED <<produced, told.queued>>
    BY <1>3 DEF Call, At
  <2>2. Len(job'[r].ask.events) \in Nat
    <3>1. job'[r].ask \in AllAsks \union {NoAsk}
      BY <1>0 DEF TypeOK, JobType
    <3>. QED BY <3>1, AskFacts DEF NoAsk
  <2>3. SumOK(r)' /\ job'[r].accepted = job[r].accepted /\ job'[r].next >= job[r].next
    BY <1>0, <1>2, <1>3, <2>1, <2>2, Called DEF SumOK, Same
  <2>. QED BY <1>1, <1>3, <2>1, <2>3
<1>4. ASSUME NEW r \in Requests, NEW pressed \in BOOLEAN, Thread(r), Refuse(r, pressed),
             job[r].at \in {"authorize", "admit"}, UNCHANGED produced
      PROVE  BookInv'
  <2>1. UNCHANGED told.queued
    BY <1>0, <1>4 DEF Refuse, TypeOK
  <2>2. SumOK(r)' /\ job'[r].accepted = job[r].accepted /\ job'[r].next >= job[r].next
    BY <1>0, <1>2, <1>4, Refused, JobFacts DEF SumOK, Same
  <2>. QED BY <1>1, <1>4, <2>1, <2>2
<1>5. ASSUME NEW r \in Requests, Authorize(r) \/ TryAcquire(r) PROVE BookInv'
  <2>1. UNCHANGED produced /\ job[r].at \in {"authorize", "admit"} /\ Thread(r)
    BY <1>5 DEF Authorize, TryAcquire, At, Thread
  <2>2. CASE \E pressed \in BOOLEAN : Refuse(r, pressed)
    BY <1>4, <2>1, <2>2
  <2>3. CASE ~\E pressed \in BOOLEAN : Refuse(r, pressed)
    <3>1. UNCHANGED told
      BY <1>5, <2>3 DEF Authorize, TryAcquire
    <3>2. SumOK(r)' /\ job'[r].accepted = job[r].accepted /\ job'[r].next >= job[r].next
      <4>1. job'[r].at \in {"receive", "admit"} /\ Same(r, {"next", "accepted", "rejected", "ask"})
        BY <1>0, <1>5, <2>3, Authorized, Admitted DEF Same
      <4>2. /\ job'[r].next = job[r].next /\ job'[r].accepted = job[r].accepted
            /\ job'[r].rejected = job[r].rejected
        BY <4>1 DEF Same
      <4>3. job[r].next = 1 /\ job[r].accepted = 0 /\ job[r].rejected = 0
        BY <1>2, <2>1 DEF SumOK
      <4>4. job'[r].at \in {"receive", "admit"}
        BY <4>1
      <4>5. job'[r].next = 1 /\ job'[r].accepted = 0 /\ job'[r].rejected = 0
        BY <4>2, <4>3
      <4>. QED BY <4>2, <4>3, <4>4, <4>5 DEF SumOK
    <3>. QED BY <1>1, <2>1, <3>1, <3>2
  <2>. QED BY <2>2, <2>3
<1>6. ASSUME NEW r \in Requests, Receive(r) PROVE BookInv'
  <2>1. UNCHANGED produced /\ job[r].at = "receive" /\ Thread(r) /\ UNCHANGED told.queued
    BY <1>0, <1>6 DEF Receive, At, Thread, TypeOK
  <2>2. SumOK(r)' /\ job'[r].accepted = job[r].accepted /\ job'[r].next >= job[r].next
    <3>1. Same(r, {"next", "accepted", "ask"})
      BY <1>0, <1>6, Received
    <3>2. \/ job'[r].at = "answered" /\ job'[r].rejected = Len(job[r].ask.events)
          \/ job'[r].at = "check" /\ job'[r].rejected = job[r].rejected
      BY <1>0, <1>6, Received DEF Same
    <3>3. /\ job'[r].next = job[r].next /\ job'[r].accepted = job[r].accepted
          /\ job'[r].ask = job[r].ask
      BY <3>1 DEF Same
    <3>4. job[r].next = 1 /\ job[r].accepted = 0 /\ job[r].rejected = 0
      BY <1>2, <2>1 DEF SumOK
    <3>5. Len(job[r].ask.events) \in Nat
      BY <1>2
    <3>6. job'[r].next = 1 /\ job'[r].accepted = 0 /\ job'[r].ask = job[r].ask
      BY <3>3, <3>4
    <3>7. CASE job'[r].at = "answered" /\ job'[r].rejected = Len(job[r].ask.events)
      <4>1. job'[r].accepted + job'[r].rejected = Len(job'[r].ask.events)
        BY <3>5, <3>6, <3>7
      <4>. QED BY <3>3, <3>4, <3>7, <4>1 DEF SumOK
    <3>8. CASE job'[r].at = "check" /\ job'[r].rejected = job[r].rejected
      <4>1. job'[r].accepted + job'[r].rejected = job'[r].next - 1
            /\ job'[r].next <= Len(job'[r].ask.events) + 1
        BY <3>4, <3>5, <3>6, <3>8
      <4>. QED BY <3>3, <3>4, <3>8, <4>1 DEF SumOK
    <3>. QED BY <3>2, <3>7, <3>8
  <2>. QED BY <1>1, <2>1, <2>2
<1>7. ASSUME NEW r \in Requests, Check(r) \/ Allow(r) PROVE BookInv'
  <2>1. UNCHANGED produced /\ Thread(r) /\ UNCHANGED told.queued
    BY <1>0, <1>7 DEF Check, Allow, Thread, TypeOK
  <2>2. job[r].at \in {"check", "limit"} /\ job[r].next <= Len(job[r].ask.events)
    BY <1>0, <1>7 DEF Check, Allow, At, TypeOK
  <2>3. CASE job' = Rejected(r)
    <3>1. /\ job'[r].accepted = job[r].accepted /\ job'[r].ask = job[r].ask /\ job'[r].at = "check"
          /\ job'[r].next = job[r].next + 1 /\ job'[r].rejected = job[r].rejected + 1
      BY <1>0, <2>3, EventRejected DEF Same
    <3>. QED BY <1>1, <1>2, <2>1, <2>2, <3>1, SumMoves DEF SumOK
  <2>4. CASE job' # Rejected(r)
    <3>1. /\ job'[r].accepted = job[r].accepted /\ job'[r].rejected = job[r].rejected
          /\ job'[r].next = job[r].next /\ job'[r].ask = job[r].ask /\ job'[r].at \in {"limit", "produce"}
      BY <1>0, <1>7, <2>4, EventPassed DEF Same
    <3>. QED BY <1>1, <1>2, <2>1, <2>2, <3>1, SumMoves
  <2>. QED BY <2>3, <2>4
<1>8. ASSUME NEW r \in Requests, Produce(r) PROVE BookInv'
  <2>1. told'.queued = Len(produced')
    BY <1>0, <1>8 DEF Produce, TypeOK, BookInv
  <2>2. \A q \in Requests : Counted(q)'
    BY <1>0, <1>8, CountGrows DEF BookInv
  <2>3. job[r].at = "produce" /\ job[r].next <= Len(job[r].ask.events)
    BY <1>0, <1>8 DEF Produce, At, TypeOK
  <2>4. SumOK(r)'
    <3>1. /\ job'[r].rejected = job[r].rejected /\ job'[r].ask = job[r].ask /\ job'[r].at = "check"
          /\ job'[r].next = job[r].next + 1 /\ job'[r].accepted = job[r].accepted + 1
      BY <1>0, <1>8, Produced DEF Same
    <3>. QED BY <1>2, <2>3, <3>1, SumMoves
  <2>5. \A q \in Requests \ {r} : SumOK(q)'
    BY <1>0, <1>2, <1>8, Others DEF SumOK, Thread
  <2>. QED BY <1>0, <2>1, <2>2, <2>4, <2>5 DEF BookInv
<1>9. ASSUME NEW r \in Requests, ProduceThrows(r) \/ Answer(r) PROVE BookInv'
  <2>1. UNCHANGED produced /\ Thread(r) /\ UNCHANGED told
    BY <1>9 DEF ProduceThrows, Answer, Thread
  <2>2. Answer(r) => job[r].at = "check" /\ job[r].next > Len(job[r].ask.events)
    BY DEF Answer, At
  <2>3. SumOK(r)' /\ job'[r].accepted = job[r].accepted /\ job'[r].next >= job[r].next
    <3>1. Same(r, {"next", "accepted", "rejected", "ask"})
      BY <1>0, <1>9, Ended
    <3>2. (Answer(r) /\ job'[r].at = "answered") \/ job'[r].at = "failed"
      BY <1>0, <1>9, Ended
    <3>3. /\ job'[r].next = job[r].next /\ job'[r].accepted = job[r].accepted
          /\ job'[r].ask = job[r].ask /\ job'[r].rejected = job[r].rejected
      BY <3>1 DEF Same
    <3>4. job'[r].next >= job[r].next
      BY <1>2, <3>3
    <3>5. CASE job'[r].at = "failed"
      BY <3>3, <3>4, <3>5 DEF SumOK
    <3>6. CASE Answer(r) /\ job'[r].at = "answered"
      <4>1. job[r].accepted + job[r].rejected = job[r].next - 1 /\ job[r].next <= Len(job[r].ask.events) + 1
        BY <1>2, <2>2, <3>6 DEF SumOK
      <4>2. job[r].accepted + job[r].rejected = Len(job[r].ask.events)
        BY <1>2, <2>2, <3>6, <4>1
      <4>. QED BY <3>3, <3>4, <3>6, <4>2 DEF SumOK
    <3>. QED BY <3>2, <3>5, <3>6
  <2>. QED BY <1>1, <2>1, <2>3
<1>10. ASSUME UNCHANGED <<job, produced, told>> PROVE BookInv'
  <2>1. \A r \in Requests : Counted(r)' /\ SumOK(r)'
    BY <1>0, <1>2, <1>10, CountKept DEF SumOK
  <2>. QED BY <1>0, <1>10, <2>1 DEF BookInv
<1>11. Report \/ Tick \/ BeginStop \/ Flush \/ EndStop \/ UNCHANGED vars => UNCHANGED <<job, produced, told>>
  BY DEF Report, Decided, Deliver, DeliveryFails, Tick, BeginStop, Flush, EndStop, vars
<1>. QED BY <1>3, <1>5, <1>6, <1>7, <1>8, <1>9, <1>10, <1>11 DEF Next, Thread

-----------------------------------------------------------------------------
(************************ nothing invalid is produced ***********************)
\* The event at hand past its check is valid, and so is what was produced.
Sound == /\ \A r \in Requests : job[r].at \in {"limit", "produce"} => Valid(Event(r))
         /\ \A i \in 1..Len(produced) : Valid(Message(produced[i]))

SoundInv == BookInv /\ Sound

\* A thread's call stays what it is until it ends.
LEMMA AskKept ==
  ASSUME TypeOK, NEW r \in Requests, Thread(r)
  PROVE  job'[r].ask = job[r].ask
<1>1. CASE Authorize(r) \/ TryAcquire(r)
  <2>1. CASE \E pressed \in BOOLEAN : Refuse(r, pressed)
    BY <2>1, Refused DEF Same
  <2>2. CASE ~\E pressed \in BOOLEAN : Refuse(r, pressed)
    BY <1>1, <2>2, Authorized, Admitted DEF Same
  <2>. QED BY <2>1, <2>2
<1>2. CASE Receive(r)
  BY <1>2, Received DEF Same
<1>3. CASE Check(r) \/ Allow(r)
  BY <1>3, EventRejected, EventPassed DEF Same
<1>4. CASE Produce(r)
  BY <1>4, Produced DEF Same
<1>5. CASE ProduceThrows(r) \/ Answer(r)
  BY <1>5, Ended DEF Same
<1>. QED BY <1>1, <1>2, <1>3, <1>4, <1>5 DEF Thread

\* A call that has just arrived has no messages.
LEMMA NothingYet ==
  ASSUME BookInv, NEW r \in Requests, Call(r), NEW i \in 1..Len(produced)
  PROVE  produced[i].req # r
<1>1. TypeOK /\ Counted(r) /\ SumOK(r)
  BY DEF BookInv
<1>2. job[r].next = 1
  BY <1>1 DEF SumOK, Call, At
<1>3. produced[i].pos \in Nat \ {0}
  BY <1>1, ProducedFacts
<1>4. produced[i].req = r => produced[i].pos < 1
  BY <1>1, <1>2 DEF Counted, Of
<1>. QED BY <1>3, <1>4

\* The messages there are keep their events.
LEMMA MessagesKept ==
  ASSUME BookInv, Sound, NEW r \in Requests, Call(r) \/ Thread(r), NEW i \in 1..Len(produced),
         produced'[i] = produced[i]
  PROVE  Valid(Message(produced[i]))'
<1>1. TypeOK /\ produced[i].req \in Requests
  BY ProducedFacts DEF BookInv
<1>2. job'[produced[i].req].ask = job[produced[i].req].ask
  <2>1. CASE produced[i].req = r
    BY <1>1, <2>1, AskKept, NothingYet
  <2>2. CASE produced[i].req # r
    BY <1>1, <2>2, Others
  <2>. QED BY <2>1, <2>2
<1>3. Valid(Message(produced[i]))
  BY DEF Sound
<1>. QED BY <1>2, <1>3 DEF Message, Valid

LEMMA SoundNext == SoundInv /\ [Next]_vars => SoundInv'
<1> SUFFICES ASSUME SoundInv, [Next]_vars PROVE Sound'
  BY BookNext DEF SoundInv
<1>0. BookInv /\ Sound /\ TypeOK
  BY DEF SoundInv, BookInv
\* Only a check lets an event to the limiter, only the limiter to the producer.
<1>1. ASSUME NEW r \in Requests, Call(r) \/ Thread(r), job'[r].at \in {"limit", "produce"}
      PROVE  Valid(Event(r))'
  <2>1. Check(r) \/ Allow(r)
    <3>1. ~Call(r)
      BY <1>0, <1>1, Called
    <3>2. ~(Authorize(r) \/ TryAcquire(r))
      <4>1. CASE \E pressed \in BOOLEAN : Refuse(r, pressed)
        BY <1>0, <1>1, <4>1, Refused
      <4>2. CASE ~\E pressed \in BOOLEAN : Refuse(r, pressed)
        BY <1>0, <1>1, <4>2, Authorized, Admitted
      <4>. QED BY <4>1, <4>2
    <3>3. ~(Receive(r) \/ Produce(r) \/ ProduceThrows(r) \/ Answer(r))
      BY <1>0, <1>1, Received, Produced, Ended
    <3>. QED BY <1>1, <3>1, <3>2, <3>3 DEF Thread
  <2>2. job' # Rejected(r)
    BY <1>0, <1>1, EventRejected
  <2>3. job'[r].next = job[r].next /\ job'[r].ask = job[r].ask
    BY <1>0, <2>1, <2>2, EventPassed DEF Same
  <2>4. Valid(Event(r))
    BY <1>0, <2>1, <2>2 DEF Check, Allow, At, Sound
  <2>. QED BY <2>3, <2>4 DEF Event, Valid
<1>2. ASSUME NEW r \in Requests, Call(r) \/ Thread(r)
      PROVE  \A q \in Requests : job'[q].at \in {"limit", "produce"} => Valid(Event(q))'
  <2> TAKE q \in Requests
  <2>1. CASE q = r
    BY <1>1, <1>2, <2>1
  <2>2. CASE q # r
    BY <1>0, <1>2, <2>2, Others DEF Sound, Event, Valid
  <2>. QED BY <2>1, <2>2
<1>3. ASSUME NEW r \in Requests, Call(r) \/ Thread(r), UNCHANGED produced PROVE Sound'
  <2>1. ASSUME NEW i \in 1..Len(produced) PROVE Valid(Message(produced[i]))'
    BY <1>0, <1>3, MessagesKept
  <2>. QED BY <1>2, <1>3, <2>1 DEF Sound
<1>4. ASSUME NEW r \in Requests, Produce(r) PROVE Sound'
  <2> DEFINE m == [req |-> r, pos |-> job[r].next]
  <2>1. produced' = Append(produced, m) /\ Thread(r) /\ job[r].at = "produce"
    BY <1>4 DEF Produce, Thread, At
  <2>2. produced \in Seq([req : Requests, pos : Nat \ {0}]) /\ m \in [req : Requests, pos : Nat \ {0}]
    BY <1>0 DEF TypeOK, JobType
  <2>3. /\ Len(produced') = Len(produced) + 1 /\ produced'[Len(produced) + 1] = m /\ Len(produced) \in Nat
        /\ \A i \in 1..Len(produced) : produced'[i] = produced[i]
    <3> HIDE DEF m
    <3>. QED BY <2>1, <2>2, AppendTyped
  <2>4. ASSUME NEW i \in 1..Len(produced) PROVE Valid(Message(produced[i]))'
    BY <1>0, <2>1, <2>3, MessagesKept
  <2>5. ASSUME NEW i \in 1..Len(produced'), i = Len(produced) + 1 PROVE Valid(Message(produced[i]))'
    <3>1. Valid(Event(r)) /\ job'[r].ask = job[r].ask
      BY <1>0, <2>1, AskKept DEF Sound
    <3>2. produced'[i].req = r /\ produced'[i].pos = job[r].next
      BY <2>3, <2>5
    <3>. QED BY <3>1, <3>2 DEF Event, Message, Valid
  <2>6. ASSUME NEW i \in 1..Len(produced') PROVE Valid(Message(produced[i]))'
    <3>1. i \in 1..Len(produced) \/ i = Len(produced) + 1
      BY <2>3
    <3>. QED BY <2>4, <2>5, <3>1
  <2>7. \A q \in Requests : job'[q].at \in {"limit", "produce"} => Valid(Event(q))'
    BY <1>2, <2>1
  <2> HIDE DEF m
  <2>. QED BY <2>6, <2>7, Zenon DEF Sound
<1>5. ASSUME UNCHANGED <<job, produced>> PROVE Sound'
  BY <1>0, <1>5 DEF Sound, Event, Message, Valid
<1>6. Report \/ Tick \/ BeginStop \/ Flush \/ EndStop \/ UNCHANGED vars => UNCHANGED <<job, produced>>
  BY DEF Report, Decided, Deliver, DeliveryFails, Tick, BeginStop, Flush, EndStop, vars
<1>7. ASSUME NEW r \in Requests, Call(r) \/ Thread(r), ~Produce(r) PROVE UNCHANGED produced
  BY <1>7 DEF Thread, Call, Authorize, TryAcquire, Receive, Check, Allow, ProduceThrows, Answer
<1>. QED BY <1>3, <1>4, <1>5, <1>6, <1>7 DEF Next, Thread

\* What callers and metrics are told is what the producer has accepted, calls that
\* failed in the middle of a batch included, and nothing is produced of an event
\* that the validator refuses.
THEOREM CallersAreToldTheTruth == Spec => []BooksBalance
<1>1. Init => SoundInv
  <2> SUFFICES ASSUME Init PROVE Sound
    BY BookInit DEF SoundInv
  <2>1. Len(produced) = 0 /\ \A r \in Requests : job[r].at = "idle"
    BY DEF Init
  <2>. QED BY <2>1 DEF Sound
<1>2. SoundInv => BooksBalance
  BY DEF SoundInv, Sound, BookInv, BooksBalance, Counted, SumOK
<1>. QED BY <1>1, <1>2, SoundNext, PTL DEF Spec
-----------------------------------------------------------------------------
(********************************* bursts **********************************)
\* What the limiter let through of a device from a to b.
Let(d, a, b) == {i \in 1..Len(passed) : passed[i].dev = d /\ a <= passed[i].at /\ passed[i].at <= b}

\* What is known of a window that began at time b and counts n.  What it counts was
\* let through in it, and nothing later; something was when it began; and before
\* that there was less than a window's worth within a window's length.
Counts(d, b, n) ==
  /\ b <= clock
  /\ \A i \in 1..Len(passed) : passed[i].dev = d => passed[i].at <= b + Window - 1
  /\ \E i \in 1..Len(passed) : passed[i].dev = d /\ passed[i].at = b
  /\ Cardinality(Let(d, b, b + Window - 1)) = n
  /\ Cardinality(Let(d, b - Window + 1, b - 1)) < Rate

Unseen(d) == \A i \in 1..Len(passed) : passed[i].dev # d

NoSpan(d) == \A t \in Int : Cardinality(Let(d, t, t + Window - 1)) < 2 * Rate

Paced(d) ==
  /\ \A b, n \in Nat : windows[d].since = b /\ windows[d].count = n =>
       /\ n <= Rate
       /\ n = 0 => Unseen(d)
       /\ n > 0 => Counts(d, b, n)
  /\ NoSpan(d)

OnTime == \A i \in 1..Len(passed) : passed[i].read = passed[i].at

BurstInv == TypeOK /\ (OnTime => \A d \in Devices : Paced(d))

LEMMA PassedFacts ==
  ASSUME TypeOK
  PROVE  /\ Len(passed) \in Nat
         /\ \A i \in 1..Len(passed) : passed[i].dev \in Devices /\ passed[i].at \in Nat
<1>1. passed \in Seq([dev : Devices, read : Nat, at : Nat])
  BY DEF TypeOK
<1>2. Len(passed) \in Nat /\ \A i \in 1..Len(passed) : passed[i] \in [dev : Devices, read : Nat, at : Nat]
  BY <1>1, ElementTyped, Zenon
<1>. QED BY <1>2

LEMMA LetFinite ==
  ASSUME TypeOK, NEW d, NEW a, NEW b
  PROVE  IsFiniteSet(Let(d, a, b)) /\ Cardinality(Let(d, a, b)) \in Nat
<1>1. IsFiniteSet(1..Len(passed))
  BY PassedFacts, FS_Interval
<1>2. Let(d, a, b) \subseteq 1..Len(passed)
  BY DEF Let
<1>. QED BY <1>1, <1>2, FS_Subset, FS_CardinalityType

LEMMA LetWithin ==
  ASSUME TypeOK, NEW d, NEW a, NEW b, NEW u, NEW v, Let(d, a, b) \subseteq Let(d, u, v)
  PROVE  Cardinality(Let(d, a, b)) <= Cardinality(Let(d, u, v))
  BY LetFinite, FS_Subset

LEMMA LetSplits ==
  ASSUME TypeOK, NEW d, NEW a \in Int, NEW m \in Int, NEW b \in Int
  PROVE  Cardinality(Let(d, a, b)) <= Cardinality(Let(d, a, m - 1)) + Cardinality(Let(d, m, b))
<1> DEFINE S == Let(d, a, m - 1)
           T == Let(d, m, b)
<1>1. Let(d, a, b) \subseteq S \cup T
  BY PassedFacts DEF Let
<1>2. IsFiniteSet(S) /\ IsFiniteSet(T) /\ Cardinality(S) \in Nat /\ Cardinality(T) \in Nat
  BY LetFinite
<1> HIDE DEF S, T
<1>3. IsFiniteSet(S \cup T) /\ Cardinality(S \cup T) = Cardinality(S) + Cardinality(T) - Cardinality(S \cap T)
  BY <1>2, FS_Union
<1>4. Cardinality(S \cap T) \in Nat
  BY <1>2, FS_Intersection, FS_CardinalityType
<1>5. Cardinality(Let(d, a, b)) <= Cardinality(S \cup T) /\ Cardinality(Let(d, a, b)) \in Nat
  BY <1>1, <1>3, FS_Subset, LetFinite
<1>6. Cardinality(Let(d, a, b)) <= Cardinality(S) + Cardinality(T)
  BY <1>2, <1>3, <1>4, <1>5
<1>. QED BY <1>6 DEF S, T

\* One more event, of device d at time now.
LEMMA LetGrows ==
  ASSUME TypeOK, NEW d \in Devices, NEW now \in Nat,
         Len(passed') = Len(passed) + 1,
         passed'[Len(passed) + 1].dev = d, passed'[Len(passed) + 1].at = now,
         \A i \in 1..Len(passed) : passed'[i] = passed[i],
         NEW c, NEW a \in Int, NEW b \in Int
  PROVE  /\ c = d /\ a <= now /\ now <= b =>
              Cardinality(Let(c, a, b)') = Cardinality(Let(c, a, b)) + 1
         /\ ~(c = d /\ a <= now /\ now <= b) => Let(c, a, b)' = Let(c, a, b)
<1> DEFINE n == Len(passed) + 1
<1>1. Len(passed) \in Nat /\ n \notin 1..Len(passed) /\ 1..Len(passed') = 1..Len(passed) \cup {n}
  BY PassedFacts
<1>2. n \notin Let(c, a, b)
  BY <1>1 DEF Let
<1>3. c = d /\ a <= now /\ now <= b => Let(c, a, b)' = Let(c, a, b) \cup {n}
  BY <1>1 DEF Let
<1>4. ~(c = d /\ a <= now /\ now <= b) => Let(c, a, b)' = Let(c, a, b)
  BY <1>1 DEF Let
<1>. QED BY <1>2, <1>3, <1>4, LetFinite, FS_AddElement

\* An event of device d passes at time now.
Grew(d, now) ==
  /\ Len(passed') = Len(passed) + 1
  /\ passed'[Len(passed) + 1].dev = d /\ passed'[Len(passed) + 1].at = now
  /\ \A i \in 1..Len(passed) : passed'[i] = passed[i]

\* Within its window.
LEMMA OneMoreInWindow ==
  ASSUME TypeOK, NEW now \in Nat, clock = now, clock' = now,
         NEW d \in Devices, Grew(d, now), NoSpan(d),
         NEW b \in Nat, NEW n \in Nat, Counts(d, b, n), n < Rate, now - b < Window
  PROVE  Counts(d, b, n + 1)' /\ NoSpan(d)'
<1>0. Window \in Nat \ {0} /\ Rate \in Nat \ {0} /\ b <= now /\ now <= b + Window - 1
  <2>1. Window \in Nat \ {0} /\ Rate \in Nat \ {0}
    BY GatewayAssumption
  <2>2. b <= now
    BY DEF Counts
  <2>. QED BY <2>1, <2>2
<1>1. ASSUME NEW u \in Int, NEW v \in Int
      PROVE  /\ u <= now /\ now <= v => Cardinality(Let(d, u, v)') = Cardinality(Let(d, u, v)) + 1
             /\ ~(u <= now /\ now <= v) => Cardinality(Let(d, u, v)') = Cardinality(Let(d, u, v))
             /\ Cardinality(Let(d, u, v)) \in Nat
  BY <1>0, LetGrows, LetFinite DEF Grew
<1>2. Cardinality(Let(d, b, b + Window - 1)') = n + 1
  <2>1. Cardinality(Let(d, b, b + Window - 1)) = n
    BY DEF Counts
  <2>2. b + Window - 1 \in Int
    BY <1>0
  <2>. QED BY <1>0, <1>1, <2>1, <2>2
<1>3. Cardinality(Let(d, b - Window + 1, b - 1)') < Rate
  BY <1>0, <1>1 DEF Counts
<1>4. \A i \in 1..Len(passed') : passed'[i].dev = d => passed'[i].at <= b + Window - 1
  <2>1. \A i \in 1..Len(passed) : passed[i].dev = d => passed[i].at <= b + Window - 1
    BY DEF Counts
  <2>2. ASSUME NEW i \in 1..Len(passed') PROVE i \in 1..Len(passed) \/ i = Len(passed) + 1
    BY PassedFacts DEF Grew
  <2>. QED BY <1>0, <2>1, <2>2 DEF Grew
<1>5. \E i \in 1..Len(passed') : passed'[i].dev = d /\ passed'[i].at = b
  BY PassedFacts DEF Counts, Grew
<1>6. ASSUME NEW t \in Int PROVE Cardinality(Let(d, t, t + Window - 1)') < 2 * Rate
  <2>1. Cardinality(Let(d, t, t + Window - 1)) < 2 * Rate
    BY <1>6 DEF NoSpan
  <2>2. CASE ~(t <= now /\ now <= t + Window - 1)
    <3>1. t + Window - 1 \in Int
      BY <1>0
    <3>. QED BY <1>1, <2>1, <2>2, <3>1
  <2>3. CASE t <= now /\ now <= t + Window - 1
    <3>1. Cardinality(Let(d, t, b - 1)) < Rate
      <4>1. Let(d, t, b - 1) \subseteq Let(d, b - Window + 1, b - 1)
        BY <1>0, <2>3, PassedFacts DEF Let
      <4>2. Cardinality(Let(d, t, b - 1)) <= Cardinality(Let(d, b - Window + 1, b - 1))
        BY <4>1, LetWithin
      <4>3. Cardinality(Let(d, b - Window + 1, b - 1)) < Rate
        BY DEF Counts
      <4>. QED BY <1>0, <4>2, <4>3, LetFinite
    <3>2. Cardinality(Let(d, b, t + Window - 1)) <= n
      <4>1. Let(d, b, t + Window - 1) \subseteq Let(d, b, b + Window - 1)
        BY <1>0, PassedFacts DEF Let, Counts
      <4>. QED BY <4>1, LetWithin DEF Counts
    <3>3. Cardinality(Let(d, t, t + Window - 1)) <= Cardinality(Let(d, t, b - 1)) + Cardinality(Let(d, b, t + Window - 1))
      BY <1>0, LetSplits
    <3>4. Cardinality(Let(d, t, t + Window - 1)') = Cardinality(Let(d, t, t + Window - 1)) + 1
      BY <1>0, <1>1, <2>3
    <3>5. Cardinality(Let(d, t, b - 1)) \in Nat /\ Cardinality(Let(d, b, t + Window - 1)) \in Nat
          /\ Cardinality(Let(d, t, t + Window - 1)) \in Nat
      BY LetFinite
    <3>. QED BY <1>0, <3>1, <3>2, <3>3, <3>4, <3>5
  <2>. QED BY <2>2, <2>3
<1>. QED BY <1>0, <1>2, <1>3, <1>4, <1>5, <1>6 DEF Counts, NoSpan

\* At the beginning of a window, when the last one began at time b and is over, or
\* there was none.
LEMMA FirstInWindow ==
  ASSUME TypeOK, NEW now \in Nat, clock = now, clock' = now,
         NEW d \in Devices, Grew(d, now), NoSpan(d),
         NEW b \in Nat, NEW n \in Nat, n <= Rate,
         \/ Unseen(d)
         \/ n > 0 /\ Counts(d, b, n) /\ now - b >= Window
  PROVE  Counts(d, now, 1)' /\ NoSpan(d)'
<1>0. now \in Nat /\ Window \in Nat \ {0} /\ Rate \in Nat \ {0}
  BY GatewayAssumption
<1>1. ASSUME NEW u \in Int, NEW v \in Int
      PROVE  /\ u <= now /\ now <= v => Cardinality(Let(d, u, v)') = Cardinality(Let(d, u, v)) + 1
             /\ ~(u <= now /\ now <= v) => Cardinality(Let(d, u, v)') = Cardinality(Let(d, u, v))
             /\ Cardinality(Let(d, u, v)) \in Nat
  BY <1>0, LetGrows, LetFinite DEF Grew
<1>2. \A i \in 1..Len(passed) : passed[i].dev = d => passed[i].at < now
  BY <1>0, PassedFacts DEF Unseen, Counts
<1>3. ASSUME NEW v \in Int PROVE Cardinality(Let(d, now, v)) = 0
  <2>1. Let(d, now, v) = {}
    BY <1>0, <1>2, PassedFacts DEF Let
  <2>. QED BY <2>1, FS_EmptySet
\* Of the last window's events the first is too old to count.
<1>4. Cardinality(Let(d, now - Window + 1, now - 1)) < Rate
  <2>1. CASE Unseen(d)
    <3>1. Let(d, now - Window + 1, now - 1) = {}
      BY <2>1 DEF Unseen, Let
    <3>. QED BY <1>0, <3>1, FS_EmptySet
  <2>2. CASE Counts(d, b, n) /\ n > 0 /\ now - b >= Window
    <3> DEFINE S == Let(d, now - Window + 1, now - 1)
    <3>1. PICK i \in 1..Len(passed) : passed[i].dev = d /\ passed[i].at = b
      BY <2>2 DEF Counts
    <3>2. i \notin S
      BY <1>0, <2>2, <3>1 DEF Let
    <3>3. S \cup {i} \subseteq Let(d, b, b + Window - 1)
      <4>1. \A j \in 1..Len(passed) : passed[j].dev = d => passed[j].at <= b + Window - 1
        BY <2>2 DEF Counts
      <4>2. ASSUME NEW j \in S
            PROVE  /\ j \in 1..Len(passed) /\ passed[j].dev = d
                   /\ b <= passed[j].at /\ passed[j].at <= b + Window - 1
        <5>1. j \in 1..Len(passed) /\ passed[j].dev = d /\ now - Window + 1 <= passed[j].at
          BY DEF Let
        <5>2. passed[j].at \in Nat
          BY <5>1, PassedFacts
        <5>3. passed[j].at <= b + Window - 1
          BY <4>1, <5>1, Zenon
        <5>4. \A x \in Nat : now - Window + 1 <= x => b <= x
          BY <1>0, <2>2
        <5>. QED BY <5>1, <5>2, <5>3, <5>4, Zenon
      <4>3. b <= b + Window - 1
        BY <1>0
      <4> HIDE DEF S
      <4>. QED BY <3>1, <4>2, <4>3 DEF Let
    <3>4. IsFiniteSet(S) /\ Cardinality(S) \in Nat /\ IsFiniteSet(Let(d, b, b + Window - 1))
      BY LetFinite
    <3>5. Cardinality(Let(d, b, b + Window - 1)) = n
      BY <2>2 DEF Counts
    <3> HIDE DEF S
    <3>6. Cardinality(S \cup {i}) = Cardinality(S) + 1
      BY <3>2, <3>4, FS_AddElement
    <3>7. Cardinality(S \cup {i}) <= n
      BY <3>3, <3>4, <3>5, FS_Subset
    <3>8. Cardinality(S) < Rate
      BY <1>0, <3>4, <3>6, <3>7
    <3>. QED BY <3>8 DEF S
  <2>. QED BY <2>1, <2>2
<1>5. Cardinality(Let(d, now, now + Window - 1)') = 1
  BY <1>0, <1>1, <1>3
<1>6. Cardinality(Let(d, now - Window + 1, now - 1)') < Rate
  BY <1>0, <1>1, <1>4
<1>7. \A i \in 1..Len(passed') : passed'[i].dev = d => passed'[i].at <= now + Window - 1
  BY <1>0, <1>2, PassedFacts DEF Grew
<1>8. \E i \in 1..Len(passed') : passed'[i].dev = d /\ passed'[i].at = now
  BY PassedFacts DEF Grew
<1>9. ASSUME NEW t \in Int PROVE Cardinality(Let(d, t, t + Window - 1)') < 2 * Rate
  <2>1. Cardinality(Let(d, t, t + Window - 1)) < 2 * Rate
    BY <1>9 DEF NoSpan
  <2>2. CASE ~(t <= now /\ now <= t + Window - 1)
    <3>1. t + Window - 1 \in Int
      BY <1>0
    <3>. QED BY <1>1, <2>1, <2>2, <3>1
  <2>3. CASE t <= now /\ now <= t + Window - 1
    <3>1. Let(d, t, t + Window - 1) \subseteq Let(d, now - Window + 1, now - 1)
      BY <1>0, <1>2, <2>3, PassedFacts DEF Let
    <3>2. Cardinality(Let(d, t, t + Window - 1)) <= Cardinality(Let(d, now - Window + 1, now - 1))
      BY <3>1, LetWithin
    <3>3. Cardinality(Let(d, t, t + Window - 1)') = Cardinality(Let(d, t, t + Window - 1)) + 1
      BY <1>0, <1>1, <2>3
    <3>4. Cardinality(Let(d, now - Window + 1, now - 1)) \in Nat /\ Cardinality(Let(d, t, t + Window - 1)) \in Nat
      BY LetFinite
    <3>. QED BY <1>0, <1>4, <3>2, <3>3, <3>4
  <2>. QED BY <2>2, <2>3
<1>10. Counts(d, now, 1)'
  <2>1. now <= clock'
    BY <1>0
  <2>. QED BY <2>1, <1>5, <1>6, <1>7, <1>8 DEF Counts
<1>11. NoSpan(d)'
  BY <1>9 DEF NoSpan
<1>. QED BY <1>10, <1>11

\* Whoever else passes, or time, takes nothing from what is known of a device.
LEMMA PacedKept ==
  ASSUME BurstInv, NEW d \in Devices, Paced(d), clock' \in Nat, clock <= clock',
         windows'[d] = windows[d],
         \/ passed' = passed
         \/ \E c \in Devices : c # d /\ Grew(c, clock)
  PROVE  Paced(d)'
<1>0. TypeOK /\ clock \in Nat
  BY DEF BurstInv, TypeOK
<1>1. ASSUME NEW u \in Int, NEW v \in Int PROVE Let(d, u, v)' = Let(d, u, v)
  <2>1. CASE passed' = passed
    BY <2>1 DEF Let
  <2>2. CASE \E c \in Devices : c # d /\ Grew(c, clock)
    BY <1>0, <2>2, LetGrows DEF Grew
  <2>. QED BY <2>1, <2>2
<1>2. \A i \in 1..Len(passed') : passed'[i].dev = d => i \in 1..Len(passed) /\ passed'[i] = passed[i]
  BY <1>0, PassedFacts DEF Grew
<1>3. \A i \in 1..Len(passed) : i \in 1..Len(passed') /\ passed'[i] = passed[i]
  BY <1>0, PassedFacts DEF Grew
<1>4. NoSpan(d)'
  <2>1. Window \in Int
    BY GatewayAssumption
  <2> SUFFICES ASSUME NEW t \in Int PROVE Cardinality(Let(d, t, t + Window - 1)') < 2 * Rate
    BY DEF NoSpan
  <2>2. Cardinality(Let(d, t, t + Window - 1)) < 2 * Rate
    BY DEF Paced, NoSpan
  <2>3. t + Window - 1 \in Int
    BY <2>1
  <2>. QED BY <1>1, <2>2, <2>3
<1>5. Unseen(d) => Unseen(d)'
  BY <1>2 DEF Unseen
<1>6. ASSUME NEW b \in Nat, NEW n \in Nat, Counts(d, b, n) PROVE Counts(d, b, n)'
  <2>1. b <= clock'
    BY <1>0, <1>6 DEF Counts
  <2>2. \A i \in 1..Len(passed') : passed'[i].dev = d => passed'[i].at <= b + Window - 1
    BY <1>2, <1>6 DEF Counts
  <2>3. \E i \in 1..Len(passed') : passed'[i].dev = d /\ passed'[i].at = b
    BY <1>3, <1>6 DEF Counts
  <2>4. b + Window - 1 \in Int /\ b - Window + 1 \in Int /\ b - 1 \in Int
    BY GatewayAssumption
  <2>5. /\ Cardinality(Let(d, b, b + Window - 1)') = n
        /\ Cardinality(Let(d, b - Window + 1, b - 1)') < Rate
    BY <1>1, <1>6, <2>4 DEF Counts
  <2>. QED BY <2>1, <2>2, <2>3, <2>5 DEF Counts
<1>. QED BY <1>4, <1>5, <1>6 DEF Paced

\* The limiter lets an event through that does not wait for its lock.
LEMMA PacedPassing ==
  ASSUME BurstInv, NEW d \in Devices, Paced(d), clock' = clock, Grew(d, clock),
         Restarted(windows[d], clock).count < Rate,
         windows'[d] = [Restarted(windows[d], clock) EXCEPT !.count = @ + 1]
  PROVE  Paced(d)'
<1>0. TypeOK /\ clock \in Nat /\ windows[d] \in [since : Nat, count : Nat]
  BY DEF BurstInv, TypeOK
<1>. PICK b \in Nat, n \in Nat : windows[d].since = b /\ windows[d].count = n
  BY <1>0
<1>1. Rate \in Nat \ {0} /\ Window \in Nat \ {0}
  BY GatewayAssumption
<1>2. n <= Rate /\ (n = 0 => Unseen(d)) /\ (n > 0 => Counts(d, b, n)) /\ NoSpan(d)
  BY <1>0 DEF Paced
<1>4. CASE n = 0 \/ clock - b >= Window
  <2>1. windows'[d].since = clock /\ windows'[d].count = 1
    BY <1>4 DEF Restarted
  <2>2. Counts(d, clock, 1)' /\ NoSpan(d)'
    <3>1. Unseen(d) \/ (n > 0 /\ Counts(d, b, n) /\ clock - b >= Window)
      BY <1>0, <1>2, <1>4
    <3>2. \A now \in Nat : clock = now => Counts(d, now, 1)' /\ NoSpan(d)'
      BY <1>0, <1>2, <3>1, FirstInWindow
    <3>3. PICK now \in Nat : now = clock
      BY <1>0
    <3>4. Counts(d, now, 1)' /\ NoSpan(d)'
      BY <3>2, <3>3
    <3>. QED BY <3>3, <3>4 DEF Counts
  <2>. QED BY <1>1, <2>1, <2>2 DEF Paced
<1>5. CASE ~(n = 0 \/ clock - b >= Window)
  <2>1. windows'[d].since = b /\ windows'[d].count = n + 1 /\ n < Rate
    BY <1>0, <1>5 DEF Restarted
  <2>2. Counts(d, b, n + 1)' /\ NoSpan(d)'
    <3>1. PICK now \in Nat : clock = now
      BY <1>0
    <3>2. n > 0 /\ Counts(d, b, n) /\ NoSpan(d) /\ n < Rate /\ now - b < Window
      BY <1>0, <1>1, <1>2, <1>5, <2>1, <3>1
    <3>. QED BY <1>0, <3>1, <3>2, OneMoreInWindow
  <2>3. \A b1, n1 \in Nat : windows'[d].since = b1 /\ windows'[d].count = n1 => b1 = b /\ n1 = n + 1
    BY <2>1
  <2>4. n + 1 <= Rate /\ n + 1 # 0
    BY <1>0, <1>1, <2>1
  <2>. QED BY <2>2, <2>3, <2>4 DEF Paced
<1>. QED BY <1>4, <1>5

LEMMA BurstNext == BurstInv /\ [Next]_vars => BurstInv'
<1> SUFFICES ASSUME BurstInv, [Next]_vars, OnTime' PROVE \A d \in Devices : Paced(d)'
  BY TypeNext DEF BurstInv
<1>0. TypeOK /\ clock \in Nat
  BY DEF BurstInv, TypeOK
<1>1. CASE windows' = windows /\ passed' = passed /\ clock' \in Nat /\ clock <= clock'
  <2>1. OnTime
    BY <1>1 DEF OnTime
  <2>. QED BY <1>1, <2>1, PacedKept DEF BurstInv
<1>2. ASSUME NEW r \in Requests, Allow(r) PROVE \A d \in Devices : Paced(d)'
  <2> DEFINE e == Event(r).dev
             w == Restarted(windows[e], job[r].stamp)
  <2>1. e \in Devices /\ clock' = clock /\ job[r].stamp \in Nat /\ windows[e] \in [since : Nat, count : Nat]
    <3>1. job[r].at = "limit" /\ clock' = clock
      BY <1>2 DEF Allow, At
    <3>2. e \in Devices /\ job[r].stamp \in Nat
      BY <1>0, <3>1, JobFacts DEF JobType
    <3>. QED BY <1>0, <3>1, <3>2 DEF TypeOK
  <2>2. Rate \in Nat \ {0}
    BY GatewayAssumption
  <2>3. CASE w.count >= Rate
    <3>1. windows' = [windows EXCEPT ![e] = w] /\ passed' = passed
      BY <1>2, <2>3 DEF Allow
    <3>2. w = windows[e]
      BY <2>1, <2>2, <2>3 DEF Restarted
    <3>3. windows' = windows
      BY <1>0, <2>1, <3>1, <3>2 DEF TypeOK
    <3>. QED BY <1>0, <1>1, <2>1, <3>1, <3>3
  <2>4. CASE ~(w.count >= Rate)
    <3>1. /\ windows' = [windows EXCEPT ![e] = [w EXCEPT !.count = @ + 1]]
          /\ passed' = Append(passed, [dev |-> e, read |-> job[r].stamp, at |-> clock])
      BY <1>2, <2>4 DEF Allow
    <3>2. passed \in Seq([dev : Devices, read : Nat, at : Nat]) /\ Len(passed) \in Nat
      BY <1>0, PassedFacts DEF TypeOK
    <3> DEFINE x == [dev |-> e, read |-> job[r].stamp, at |-> clock]
    <3>3. /\ Len(passed') = Len(passed) + 1 /\ passed'[Len(passed) + 1] = x
          /\ \A i \in 1..Len(passed) : i \in 1..Len(passed') /\ passed'[i] = passed[i]
      <4>1. x \in [dev : Devices, read : Nat, at : Nat]
        BY <1>0, <2>1
      <4> HIDE DEF x
      <4>2. passed' = Append(passed, x)
        BY <3>1 DEF x
      <4>. QED BY <3>2, <4>1, <4>2
    <3>4. Grew(e, clock)
      BY <3>3 DEF Grew
    <3>5. job[r].stamp = clock
      BY <3>2, <3>3 DEF OnTime
    <3>6. OnTime
      BY <3>3 DEF OnTime
    <3>7. \A d \in Devices : Paced(d)
      BY <3>6 DEF BurstInv
    <3>8. w.count \in Nat
      BY <2>1 DEF Restarted
    <3>9. \A d \in Devices : d = e => Paced(d)'
      <4>1. windows'[e] = [Restarted(windows[e], clock) EXCEPT !.count = @ + 1]
        BY <1>0, <2>1, <3>1, <3>5 DEF TypeOK
      <4>2. Restarted(windows[e], clock).count < Rate
        BY <2>2, <2>4, <3>5, <3>8
      <4> SUFFICES ASSUME NEW d \in Devices, d = e PROVE Paced(d)'
        OBVIOUS
      <4>3. /\ Paced(d) /\ Grew(d, clock) /\ Restarted(windows[d], clock).count < Rate
            /\ windows'[d] = [Restarted(windows[d], clock) EXCEPT !.count = @ + 1]
        BY <3>4, <3>7, <4>1, <4>2
      <4>. QED BY <2>1, <4>3, PacedPassing
    <3>. QED
      <4> SUFFICES ASSUME NEW d \in Devices PROVE Paced(d)'
        OBVIOUS
      <4>1. CASE d = e
        BY <3>9, <4>1
      <4>2. CASE d # e
        <5>1. windows'[d] = windows[d]
          BY <1>0, <3>1, <4>2 DEF TypeOK
        <5>. QED BY <1>0, <2>1, <3>4, <3>7, <4>2, <5>1, PacedKept
      <4>. QED BY <4>1, <4>2
  <2>. QED BY <2>3, <2>4
<1>3. ASSUME NEW r \in Requests, Call(r) \/ Thread(r), ~Allow(r)
      PROVE  UNCHANGED <<windows, passed, clock>>
  BY <1>3 DEF Thread, Call, Authorize, TryAcquire, Receive, Check, Produce, ProduceThrows, Answer
<1>4. Report \/ BeginStop \/ Flush \/ EndStop \/ UNCHANGED vars => UNCHANGED <<windows, passed, clock>>
  BY DEF Report, Decided, Deliver, DeliveryFails, BeginStop, Flush, EndStop, vars
<1>5. Tick => UNCHANGED <<windows, passed>> /\ clock' \in Nat /\ clock <= clock'
  BY <1>0 DEF Tick
<1>. QED BY <1>0, <1>1, <1>2, <1>3, <1>4, <1>5 DEF Next, Thread

\* While nobody waits for the limiter's lock past a tick of the clock, no span as
\* long as a window lets twice the rate through from one device.
THEOREM BurstsAreBounded == Spec => []NoBurst
<1>1. Init => BurstInv
  <2> SUFFICES ASSUME Init, NEW d \in Devices PROVE Paced(d)
    BY TypeInit DEF BurstInv
  <2>1. Len(passed) = 0 /\ windows[d].count = 0
    BY DEF Init
  <2>2. \A u, v : Let(d, u, v) = {}
    BY <2>1 DEF Let
  <2>3. NoSpan(d)
    <3>1. Cardinality({}) = 0 /\ 0 < 2 * Rate
      BY GatewayAssumption, FS_EmptySet
    <3>. QED BY <2>2, <3>1 DEF NoSpan
  <2>. QED BY <2>1, <2>3, GatewayAssumption DEF Paced, Unseen
<1>2. BurstInv => NoBurst
  <2> SUFFICES ASSUME BurstInv, OnTime, NEW d \in Devices, NEW t \in 0..clock
               PROVE  Cardinality({i \in 1..Len(passed) : passed[i].dev = d /\ passed[i].at \in t..(t + Window - 1)})
                        < 2 * Rate
    BY DEF NoBurst, OnTime
  <2>1. clock \in Nat /\ Window \in Nat /\ TypeOK
    BY GatewayAssumption DEF BurstInv, TypeOK
  <2>2. {i \in 1..Len(passed) : passed[i].dev = d /\ passed[i].at \in t..(t + Window - 1)} = Let(d, t, t + Window - 1)
    BY <2>1, PassedFacts DEF Let
  <2>3. Cardinality(Let(d, t, t + Window - 1)) < 2 * Rate
    BY <2>1 DEF BurstInv, Paced, NoSpan
  <2>. QED BY <2>2, <2>3
<1>. QED BY <1>1, <1>2, BurstNext, PTL DEF Spec
=============================================================================
