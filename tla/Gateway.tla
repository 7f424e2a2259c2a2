------------------------------ MODULE Gateway ------------------------------
(* GatewayService with its admission control, validator, rate limiter and   *)
(* Kafka producer: transport threads handle ingest calls concurrently while *)
(* the service may be stopped.  A thread's steps are cut where it touches   *)
(* state that others share: the counter of calls in flight, the running     *)
(* flag, the limiter's windows, the producer's queue.                       *)
EXTENDS Integers, Sequences, FiniteSets

CONSTANTS
  Requests,      \* calls, each handled by a thread of its own
  Asks,          \* what each call may ask: sets of [call, via, keyed, events]
  Limit,         \* gateway.max_in_flight_requests
  MaxBatch,      \* gateway.max_batch_events
  Rate,          \* gateway.rate_limit_rps_per_device
  Window,        \* ticks of the clock in kWindow
  KeyRequired,   \* gateway.auth_required, with a key configured
  Slots,         \* messages librdkafka holds before produce is refused
  Faults,        \* TRUE: produce may fail for other reasons as well
  MaxReports,    \* bound on the messages whose fate is decided
  MaxClock       \* bound on the clock

Kinds == {"plain", "far", "old", "unnamed"}
AllAsks == UNION {Asks[r] : r \in Requests}
Devices == UNION {{a.events[i].dev : i \in 1..Len(a.events)} : a \in AllAsks}

ASSUME GatewayAssumption ==
  /\ IsFiniteSet(Requests)
  /\ \A a \in AllAsks :
       /\ a.events \in Seq([dev : STRING, kind : Kinds])
       /\ a.call \in {"one", "batch"}
       /\ a.via \in {"grpc", "direct"}
       /\ a.keyed \in BOOLEAN
       /\ a.call = "one" => Len(a.events) = 1
  /\ Limit \in Int /\ MaxBatch \in Int /\ {Slots, MaxReports, MaxClock} \subseteq Nat
  /\ Rate \in Nat \ {0} /\ Window \in Nat \ {0}
  /\ {KeyRequired, Faults} \subseteq BOOLEAN

VARIABLES
  life,     \* lifecycle_state_; running_ is true unless it is "stopped"
  flight,   \* GatewayAdmissionControl::in_flight_
  job,      \* each thread: where it is, its call, its locals
  windows,  \* RateLimiter::windows_
  produced, \* messages the producer has accepted, in order: [req, pos]
  delivered,\* those of them the topic holds, by their index
  failed,   \* those whose delivery the producer has given up
  served,   \* those whose delivery report was served by a poll
  told,     \* what the events published on the bus add up to
  clock,    \* the steady clock
  passed    \* ghost: what the limiter let through, [dev, read, at]

vars == <<life, flight, job, windows, produced, delivered, failed, served, told, clock, passed>>

running == life # "stopped"
NoAsk == [call |-> "none", via |-> "direct", keyed |-> FALSE, events |-> <<>>]
Ends == {"answered", "failed"}

(***************************** pure functions ******************************)
\* What the validator accepts: a name, coordinates on the globe, a time
\* within tolerance.
Valid(e) == e.kind = "plain"

\* What the conversion from the wire accepts: a name and coordinates.
WireValid(e) == e.kind \notin {"unnamed", "far"}

\* Events a refused call is charged with.
Charge(a) == IF a.events = <<>> THEN 1 ELSE Len(a.events)

At(r, s) == job[r].at = s
Event(r) == job[r].ask.events[job[r].next]
Message(m) == job[m.req].ask.events[m.pos]

Init ==
  /\ life = "ready"
  /\ flight = 0
  /\ job = [r \in Requests |-> [at |-> "idle", ask |-> NoAsk, seen |-> 0, leased |-> FALSE,
                                stamp |-> 0, next |-> 1, accepted |-> 0, rejected |-> 0]]
  /\ windows = [d \in Devices |-> [since |-> 0, count |-> 0]]
  /\ produced = <<>> /\ delivered = {} /\ failed = {} /\ served = {}
  /\ told = [received |-> 0, rejected |-> 0, queued |-> 0, pressed |-> 0]
  /\ clock = 0 /\ passed = <<>>

Producer == <<produced, delivered, failed, served>>
Limiter == <<windows, passed>>

(******************************** a thread *********************************)
\* A call arrives.  The gRPC adapter converts the events first and refuses
\* the whole call when one does not convert; it hands on no API key.
Call(r) ==
  /\ At(r, "idle")
  /\ \E a \in Asks[r] :
       LET bad == a.via = "grpc" /\ \E i \in 1..Len(a.events) : ~WireValid(a.events[i])
       IN job' = [job EXCEPT ![r].ask = a,
                             ![r].at = IF bad THEN "answered" ELSE "authorize",
                             ![r].rejected = IF bad THEN Len(a.events) ELSE 0]
  /\ UNCHANGED <<life, flight, Limiter, Producer, told, clock>>

\* reject_transport_request: the call is answered before it got a lease.
Refuse(r, pressed) ==
  LET n == Charge(job[r].ask) IN
  /\ job' = [job EXCEPT ![r].at = "answered", ![r].rejected = n]
  /\ told' = [told EXCEPT !.rejected = @ + n, !.pressed = @ + IF pressed THEN 1 ELSE 0]
  /\ UNCHANGED flight

\* authorize, then the first load of the counter in try_acquire.
Authorize(r) ==
  /\ At(r, "authorize")
  /\ IF KeyRequired /\ ~(job[r].ask.keyed /\ job[r].ask.via = "direct")
       THEN Refuse(r, FALSE)
       ELSE /\ job' = [job EXCEPT ![r].at = IF Limit <= 0 THEN "receive" ELSE "admit",
                                  ![r].seen = flight]
            /\ UNCHANGED <<flight, told>>
  /\ UNCHANGED <<life, Limiter, Producer, clock>>

\* Mutant: the counter is stored without comparing it.
StoreBlindly(r) ==
  /\ At(r, "admit")
  /\ \/ /\ job[r].seen < Limit
        /\ flight' = job[r].seen + 1
        /\ job' = [job EXCEPT ![r].at = "receive", ![r].leased = TRUE]
        /\ UNCHANGED told
     \/ job[r].seen >= Limit /\ Refuse(r, TRUE)
  /\ UNCHANGED <<life, Limiter, Producer, clock>>
\* One turn of the compare-and-exchange loop.
TryAcquire(r) ==
  /\ At(r, "admit")
  /\ \/ /\ job[r].seen < Limit /\ flight = job[r].seen
        /\ flight' = flight + 1
        /\ job' = [job EXCEPT ![r].at = "receive", ![r].leased = TRUE]
        /\ UNCHANGED told
     \/ /\ job[r].seen < Limit /\ flight # job[r].seen
        /\ job' = [job EXCEPT ![r].seen = flight]
        /\ UNCHANGED <<flight, told>>
     \/ job[r].seen >= Limit /\ Refuse(r, TRUE)
  /\ UNCHANGED <<life, Limiter, Producer, clock>>

\* The end of a call that got past admission: the lease goes with the scope,
\* whether the call returns or throws.
Release(r) == flight' = IF job[r].leased THEN flight - 1 ELSE flight

\* Mutant: after the refusal the events are still gone through.
ReceiveGoesOn(r) ==
  LET a == job[r].ask  n == Len(a.events) IN
  /\ At(r, "receive")
  /\ job' = [job EXCEPT ![r].at = "check",
                        ![r].rejected = IF a.call = "batch" /\ n > MaxBatch THEN n ELSE 0]
  /\ told' = [told EXCEPT !.received = @ + n]
  /\ UNCHANGED <<flight, life, Limiter, Producer, clock>>
\* ingest_batch announces the batch and refuses it whole when it is too long.
Receive(r) ==
  LET a == job[r].ask  n == Len(a.events) IN
  /\ At(r, "receive")
  /\ IF a.call = "batch" /\ n > MaxBatch
       THEN /\ job' = [job EXCEPT ![r].at = "answered", ![r].rejected = n, ![r].leased = FALSE]
            /\ told' = [told EXCEPT !.received = @ + n, !.rejected = @ + n]
            /\ Release(r)
       ELSE /\ job' = [job EXCEPT ![r].at = "check"]
            /\ told' = IF a.call = "batch" THEN [told EXCEPT !.received = @ + n] ELSE told
            /\ UNCHANGED flight
  /\ UNCHANGED <<life, Limiter, Producer, clock>>

Rejected(r) == [job EXCEPT ![r].at = "check", ![r].next = @ + 1, ![r].rejected = @ + 1]

\* ingest_one up to the limiter's reading of the clock, before its lock.  An
\* event refused because the service is not running is announced to nobody.
Check(r) ==
  /\ At(r, "check") /\ job[r].next <= Len(job[r].ask.events)
  /\ CASE ~running -> job' = Rejected(r) /\ UNCHANGED told
       [] running /\ ~Valid(Event(r)) ->
            job' = Rejected(r) /\ told' = [told EXCEPT !.rejected = @ + 1]
       [] OTHER -> job' = [job EXCEPT ![r].at = "limit", ![r].stamp = clock] /\ UNCHANGED told
  /\ UNCHANGED <<life, flight, Limiter, Producer, clock>>

\* Mutant: a window lasts one tick.
RestartedByTick(w, now) == IF w.count = 0 \/ now # w.since
                             THEN [since |-> now, count |-> 0] ELSE w
\* The limiter under its lock, with the time read before.
Restarted(w, now) == IF w.count = 0 \/ now - w.since >= Window
                       THEN [since |-> now, count |-> 0] ELSE w

Allow(r) ==
  LET d == Event(r).dev  w == Restarted(windows[d], job[r].stamp) IN
  /\ At(r, "limit")
  /\ IF w.count >= Rate
       THEN /\ job' = Rejected(r)
            /\ windows' = [windows EXCEPT ![d] = w]
            /\ told' = [told EXCEPT !.rejected = @ + 1, !.pressed = @ + 1]
            /\ UNCHANGED passed
       ELSE /\ job' = [job EXCEPT ![r].at = "produce"]
            /\ windows' = [windows EXCEPT ![d] = [w EXCEPT !.count = @ + 1]]
            /\ passed' = Append(passed, [dev |-> d, read |-> job[r].stamp, at |-> clock])
            /\ UNCHANGED told
  /\ UNCHANGED <<life, flight, Producer, clock>>

\* Messages with a delivery report, whatever it says.
Reported == delivered \union failed

\* Messages librdkafka counts against its limit: those still queued and those
\* whose delivery report nobody has fetched.
Held == Len(produced) - Cardinality(served)

\* produce puts the message into the queue ...
Produce(r) ==
  /\ At(r, "produce") /\ Held < Slots
  /\ produced' = Append(produced, [req |-> r, pos |-> job[r].next])
  /\ told' = [told EXCEPT !.queued = @ + 1]
  /\ job' = [job EXCEPT ![r].at = "check", ![r].next = @ + 1, ![r].accepted = @ + 1]
  /\ UNCHANGED <<life, flight, Limiter, delivered, failed, served, clock>>

\* Mutant: the lease is lost with the exception.
ProduceThrowsKeeping(r) ==
  /\ At(r, "produce") /\ (Held >= Slots \/ Faults)
  /\ job' = [job EXCEPT ![r].at = "failed"]
  /\ UNCHANGED <<life, flight, Limiter, Producer, told, clock>>
\* ... or throws, which ends the whole call.
ProduceThrows(r) ==
  /\ At(r, "produce") /\ (Held >= Slots \/ Faults)
  /\ job' = [job EXCEPT ![r].at = "failed", ![r].leased = FALSE]
  /\ Release(r)
  /\ UNCHANGED <<life, Limiter, Producer, told, clock>>

\* The call returns its counts.
Answer(r) ==
  /\ At(r, "check") /\ job[r].next > Len(job[r].ask.events)
  /\ job' = [job EXCEPT ![r].at = "answered", ![r].leased = FALSE]
  /\ Release(r)
  /\ UNCHANGED <<life, Limiter, Producer, told, clock>>

Thread(r) ==
  \/ Authorize(r) \/ TryAcquire(r) \/ Receive(r) \/ Check(r) \/ Allow(r)
  \/ Produce(r) \/ ProduceThrows(r) \/ Answer(r)

(************************ broker, clock and shutdown ***********************)
\* The fate of a message is decided after the call that produced it has gone
\* on: the broker has it, or its time is up and dr_cb, which the gateway gives
\* no callback, drops the error.
Decided(i) ==
  /\ i \in 1..Len(produced) \ Reported /\ Cardinality(Reported) < MaxReports
  /\ UNCHANGED <<life, flight, job, Limiter, produced, served, told, clock>>
Deliver(i) == Decided(i) /\ delivered' = delivered \union {i} /\ UNCHANGED failed
DeliveryFails(i) == Decided(i) /\ failed' = failed \union {i} /\ UNCHANGED delivered
Report == \E i \in 1..Len(produced) : Deliver(i) \/ DeliveryFails(i)

Tick ==
  /\ clock < MaxClock /\ clock' = clock + 1
  /\ UNCHANGED <<life, flight, job, Limiter, Producer, told>>

\* stop: flush, which serves the reports there are, for at most 5 s; only
\* then are calls refused.
BeginStop ==
  /\ life = "ready" /\ life' = "draining"
  /\ UNCHANGED <<flight, job, Limiter, Producer, told, clock>>
\* Mutant: the reports of messages still on their way count as served.
FlushAll ==
  /\ life = "draining" /\ served # 1..Len(produced) /\ served' = 1..Len(produced)
  /\ UNCHANGED <<life, flight, job, Limiter, produced, delivered, failed, told, clock>>
Flush ==
  /\ life = "draining" /\ served # Reported /\ served' = Reported
  /\ UNCHANGED <<life, flight, job, Limiter, produced, delivered, failed, told, clock>>
EndStop ==
  /\ life = "draining" /\ life' = "stopped"
  /\ UNCHANGED <<flight, job, Limiter, Producer, told, clock>>

Next ==
  \/ \E r \in Requests : Call(r) \/ Thread(r)
  \/ Report \/ Tick \/ BeginStop \/ Flush \/ EndStop

\* Threads that are running keep running, and librdkafka decides on every
\* message it holds; calls, stops and time are the environment's.
Spec ==
  /\ Init /\ [][Next]_vars
  /\ \A r \in Requests : WF_vars(Thread(r))
  /\ WF_vars(Report)

(******************************* properties ********************************)
JobType == [at : {"idle", "authorize", "admit", "receive", "check", "limit", "produce"} \union Ends,
            ask : AllAsks \union {NoAsk}, seen : Int, leased : BOOLEAN, stamp : Nat,
            next : Nat \ {0}, accepted : Nat, rejected : Nat]

\* Every variable holds what the code's types allow; a thread at an event is
\* within its batch, no message is both delivered and given up, and a report is
\* served when there is one.
TypeOK ==
  /\ life \in {"ready", "draining", "stopped"}
  /\ flight \in Int
  /\ job \in [Requests -> JobType]
  /\ windows \in [Devices -> [since : Nat, count : Nat]]
  /\ produced \in Seq([req : Requests, pos : Nat \ {0}])
  /\ Reported \subseteq 1..Len(produced) /\ delivered \intersect failed = {}
  /\ served \subseteq Reported
  /\ told \in [received : Nat, rejected : Nat, queued : Nat, pressed : Nat]
  /\ clock \in Nat
  /\ passed \in Seq([dev : Devices, read : Nat, at : Nat])
  /\ \A r \in Requests : /\ job[r].at \in {"limit", "produce"} => job[r].next <= Len(job[r].ask.events)
                         /\ job[r].at = "idle" <=> job[r].ask.call = "none"

Leased == {r \in Requests : job[r].leased}

\* Admission under concurrent calls (admission_control.cpp, try_acquire and the
\* lease's destructor): the counter is the number of leases held, which never
\* exceeds the limit, and no lease outlives its call.
LeasesBounded ==
  /\ flight = Cardinality(Leased)
  /\ Limit > 0 => flight <= Limit
  /\ \A r \in Requests : job[r].at \in Ends => ~job[r].leased

Of(r) == {i \in 1..Len(produced) : produced[i].req = r}

\* Callers and metrics are told what the producer has accepted, which is not yet
\* what the topic holds (gateway_service.cpp, ingest_one and ingest_batch): a
\* call's accepted count is its messages, in batch order, also when the call
\* failed in the middle; an answered call accounts for every event once; nothing
\* is produced of an event the validator refuses, or of one not yet gone
\* through; the queued metric is the number of messages.  Deliveries that fail
\* later correct no count.
BooksBalance ==
  /\ \A r \in Requests :
       /\ job[r].accepted = Cardinality(Of(r))
       /\ job[r].at = "answered" => job[r].accepted + job[r].rejected \in {Len(job[r].ask.events), Charge(job[r].ask)}
       /\ \A i, j \in Of(r) : i < j => produced[i].pos < produced[j].pos
       /\ \A i \in Of(r) : produced[i].pos < job[r].next
  /\ \A i \in 1..Len(produced) : Valid(Message(produced[i]))
  /\ told.queued = Len(produced)

\* rate_limiter.cpp, allow: while nobody waits for the limiter's lock past a tick
\* of the clock, every span as long as a window sees less than twice the rate
\* from one device (more than the rate it may see: windows do not slide).
NoBurst ==
  (\A i \in 1..Len(passed) : passed[i].read = passed[i].at) =>
    \A d \in Devices, t \in 0..clock :
      Cardinality({i \in 1..Len(passed) : passed[i].dev = d /\ passed[i].at \in t..(t + Window - 1)}) < 2 * Rate

\* Whatever was refused or thrown, the calls that have arrived end and give
\* their leases back: the gateway is idle again, its counter at zero.
IdleAgain ==
  []<>(flight = 0 /\ \A r \in Requests : job[r].at \in {"idle"} \union Ends)

\* kafka_producer.h:60 says delivery callbacks are polled for periodically by
\* the producing thread: the report of a message is served, which is what frees
\* its place in the queue.
ReportsServed ==
  \A i \in 1..Slots : (i \in Reported) ~> (i \in served \/ life # "ready")
=============================================================================
