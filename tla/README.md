# SignalRoute in TLA+

SignalRoute takes position events of devices from a gateway, through Kafka, into
a state store (Redis) and a history (PostGIS), evaluates geofences on them and
matches requests to nearby agents. This directory holds models of its core in
TLA+, TLC configurations that check them on small instances and TLAPS proofs
about them for all instances. The models follow the build with hiredis, librdkafka,
libpq and H3; the in-memory fallbacks are not modelled.
Paths below are relative to `src/src/` of the repository unless they start with
`docs/`.

## 1. Inventory

| component | state | operations | talks to |
|---|---|---|---|
| Gateway (`gateway/`) | rate windows per device, admission leases | `ingest_one`, `ingest_batch`, `acquire`, `release` | produces to the ingest topic |
| Kafka adapters (`common/kafka/`) | consumer position, commit, producer queue | `poll`, `commit`, `produce`, `flush` | the broker |
| Location processor (`processor/`) | dedup window, history buffer, `should_stop` | `run`: poll, guard, state write, history, commit; `start`, `stop` | Kafka, Redis, PostGIS, event bus |
| Redis client (`common/clients/redis_client.cpp`) | `dev:{id}`, `h3:{cell}`, fence states, reservations | `update_device_state_cas`, `remove_stale_cell_members`, `try_reserve_agent`, `release_agent`, ... | Redis |
| PostGIS client | `trip_points`, `geofence_events` | `batch_insert_trip_points`, queries | PostGIS |
| Workers (`workers/`) | consumer, attempt counters | `H3CleanupWorker::run_once`, `DLQReplayWorker::run_once` | Redis; Kafka and PostGIS |
| Matching server (`matching/`) | request in hand, what it reserved | `process_requests_once`, `match_once`, strategies | Kafka, Redis |
| Geofence engine (`geofence/`) | fence registry, fence state per device and fence | `evaluate`, `check_once`, reload | Redis, PostGIS, Kafka, event bus |
| Event bus, composition (`common/events`, `common/composition`) | subscriptions | `publish`, `subscribe`, drop | all roles in one process |
| Runtime (`runtime/`, `main.cpp`) | selected roles, what has been started, the sockets | `start`, `stop`, the wait of `main` | all roles |
| Admin and metrics sockets (`runtime/`, `common/admin/`) | listening descriptor, accept thread, registered probes | `start`, `stop`, `accept_loop`, `handle_client`, `evaluate` | HTTP clients, lifecycle states of the roles |
| Configuration (`common/config/`) | none | `load`, `validate_config` | `main` |
| Query server (`query/`) | none | nearby, latest, trip | Redis, PostGIS |
| Spatial, codecs, gRPC adapters | none | pure functions and translation | - |
| Metrics, logging | counters | publish handlers, structured lines | event bus |

How they interact: an event goes gateway -> ingest topic -> one consumer of the
processor group -> Redis and, buffered, PostGIS; failed inserts go row by row to
the dead-letter topic, which the DLQ worker replays. `StateWritten` on the event
bus hands the event to the geofence engine in the same call. The cleanup worker
and the processors meet in Redis only; so do the matching servers. The request
loop of matching and the two workers are run by their own `run` loops
(`RuntimeApplication` starts neither); the models take those loops as the source.

What is hard, and what makes each part correct:

- *Processor*: an event is marked as seen, stored, buffered and committed in this
  order, without a transaction; crash, stop, redelivery, a reassigned partition or
  a dead connection may come between any two. Correct: the state store is a register
  that only moves up (I1 of `docs/architecture.md`) and an event is applied once (I2),
  both as long as the record lasts, a commit means the store has it, a row is lost only
  with a process or as a dead letter the producer gave up, consumption goes on.
- *Redis records and index*: four commands per update, a time to live, a scan that
  looks up and removes in two commands. Correct: record and cell set agree between
  updates, records expire, dead devices leave the index.
- *DLQ worker*: bounded attempts, then deferral without commit. Correct: committed
  means replayed; recovery replays.
- *Matching*: reservations with a time to live, GET-then-DEL release, a strategy of
  a third party, a publish that only reaches the producer's queue before the commit.
  Correct: no agent twice, everything not assigned is given back, every request is
  answered, once, unless its produce throws or its result perishes in that queue.
- *Geofence*: fence state stored before its event is inserted and produced; dwell
  checker working from a list it read earlier; a reload while evaluating. Correct:
  enter and exit alternate, state, log and what is handed to the producer agree with the
  positions evaluated.
- *Gateway*: a counter exchanged without a lock, a window per device, a producer that
  may refuse in the middle of a batch. Correct: leases are counted and come back on
  every path, callers and metrics are told what the producer has accepted, of which
  nothing is invalid, and no burst gets through.
- *Runtime, sockets, bus*: services started in order and taken down in another, a start
  or a stop that throws, a second start of the same object, clients and a worker that
  go on meanwhile. Correct: what runs is what the configuration selects, nothing is left
  of it after a stop, no handler outlives its objects, no answer its subject, a stop ends.
- *Query*: cells are read first and records later. Correct: a device that stands still
  is found, and told of truly. *Trips*: sampling after the limit. Correct: of each
  interval the first point, once, in order.

Every hazard is listed with its line and its properties in `PROJECT.json`.

## 2. Modules

| module | models | proofs |
|---|---|---|
| `LatestValue` | what the processor promises to readers: a register per device that moves up event by event until it lapses; an event is given up only once the register has, or had, caught up | |
| `Ingestion` | the processor group on one partition | `Ingestion_proofs` |
| `AtomicStore` | what `update_device_state_cas` promises to a processor: compare and set in one step | |
| `RedisState` | `update_device_state_cas` by several writers, expiry, and the cleanup worker, one Redis command per step | `RedisState_proofs` |
| `DlqReplay` | the DLQ worker and PostGIS going down and up | `DlqReplay_proofs` |
| `Matching` | matching servers, reservations, any strategy | `Matching_proofs` |
| `Geofence` | one device's fences: the evaluator and the dwell checker on the fence states | `Geofence_proofs` |
| `Gateway` | transport threads, admission, validation, limiter, the producer's queue, stop | `Gateway_proofs` |
| `Query` | the nearby search, on top of the actions of `RedisState` (EXTENDS) | `Query_proofs` |
| `Trips` | a trip from the rows to the response, for any history and requests: pure operators, on which `Query` rests (EXTENDS) | in `Query_proofs` |
| `Configuration` | what a configuration file means and which are valid: pure operators | |
| `Runtime` | the application, its sockets, the worker and the bus, on top of `Configuration` (EXTENDS) | `Runtime_proofs` |
| `MCIngestion`, `MCRedisState`, `MCMatching`, `MCGeofence`, `MCGateway`, `MCQuery`, `MCRuntime` | constants and symmetry for TLC | |

### Ingestion

`queue` is the partition from the committed offset on, so redelivery is what
happens when a process with the head in `hand` dies. `pc[p]` is the line of
`ProcessingLoop::run` a process is at: `Poll` (poll, decode, `is_duplicate`,
`mark_seen`), `Guard` (the sequence guard), `CasRead` and `CasWrite`
(`update_device_state_cas`, whose comparison and write are separate round trips; the
write ends with the EXPIRE of `redis_client.cpp:356`, and `Lapse` is the end of that time
to live, at any time after it),
`Buffer`, `FlushInsert` or `FlushFail` (one transaction, which may commit although
the answer is lost) with `DeadLetter` row by row, `Commit`. `IdleFlush` is the
flush after an empty poll, `Drain` the one after the loop. `Assign` is the group
coordinator, which may also take the partition from a live member in the middle of
a message; its commit is then refused and throws (`CommitRefused`). `LoseRedis`
puts the hiredis context in error: later reads see no record and later writes go
nowhere but report success, as the code ignores replies. `Crash` is any death of
the process, an exception out of the thread included.

A dead letter waits in the producer's queue (`outbox`) until it is delivered (`Deliver`)
or given up, which nobody hears (`DeliveryFails`): `produce` is called without a callback.
A stop leaves it there; the producer's destructor waits five seconds for it and does not
look whether that was enough (`Deliver` may go on at `stopped`), and what is left by then is
gone with the next `Start`. The histories: `written` is what an HSET ever stored, `fresh` what was stored since
the record of its device last lapsed, `settled` what was committed, `thrown` the rows whose
insert threw, `lost` what a process held when it died, `dropped` what was lost while none
died. `StopLosesOnlyThrown` says of a stop what the code does: rows that PostGIS took or
never refused are not among what is left, refused ones may be. `NoSecondWrite` excludes
what was written before the record lapsed: after a time to live without an event, an
old number is as good as a new one, once the dedup window has evicted it or the process
is a new one.

Only the head of the partition is ever read, so `MaxQueue = 1` shows a processor
every sequence of messages; a longer queue adds no behaviour of the loop.

The dedup window is a set of which an arbitrary part is evicted whenever it is
looked at (age and size both evict); the order of eviction is not kept.
`EventDriven` chooses between the wiring of `CompositionRoot` and the direct calls:
they differ in what a refused state write leads to (`AfterRefusal`).

### RedisState

One variable per kind of key (`rec`, `ttl`, `cells`), a writer per processor loop
and the cleaner with what its scan has still to do. `Handles` says whose events a
writer is given; disjoint sets are partition affinity. `Crash` leaves Redis
between two commands and hands the event over again. `gone` is a history variable:
devices whose record expired. The model of update_device_state_cas here is finer
than in `Ingestion` (which keeps only the sequence number); `Ingestion` in turn
has the consumer around it. `AtomicStore` is the abstract specification of that update:
a writer asks, its update is stored in one step over an older record or none, or refused
before one as new; a writer that died asks again. `CasIsAtomic` says that `RedisState`
implements it, with HSET as the compare and set.

### DlqReplay

`position`, `committed`, passes of at most `MaxMessages` and attempts per message
are those of `run_once`; `deferred` is a history variable, offsets a pass gave up.

### Matching

`Poll` takes a request with its three early exits, `Reserve`, `Rollback` and
`Answer` are what a strategy may do through `TrackingMatchContext` - the strategy
is any behaviour of the `IMatchStrategy` interface, `NearestStrategy` being one.
`Publish` hands the result to the server's producer (`outbox`); `flush(5000)` gives
`Deliver` and `DeliveryFails` their time, but its outcome is discarded
(`kafka_producer.cpp:221`) and `Commit` follows whatever is still queued. `dropped` is
a history variable, the results that left an outbox otherwise than to the topic: given
up, or gone with the process (`Crash`, which also stands for its end after a stop).
`GetHolder` and `Del` are the two commands of `release_agent`. `PublishFails`
is the exception after which the loop goes on without a commit. `Lapse` is the
expiry of a reservation. An unreachable Redis is not modelled here.

### Geofence

`Move` is an accepted state write with the call of `Evaluator::evaluate` it leads to
(the record is read and written by the one processor that has the device, so both
are one step here; `RedisState` has them apart). That is so while the engine has its
handler on the bus (`engine`): the processor runs before `EngineStarts` and after
`EngineStops` (`runtime_application.cpp:70-78`, `139-147`), and what it accepts then is
`MoveUnseen`, evaluated by nobody. `blind` is a history variable, the fences such a position
would have had looked at and none has since. `Look`, `SetState`, `Insert` and
`Produce` are the remote calls of `evaluate` per candidate; `List` and `Read` the
SCAN and HGETALLs of `list_fence_states`, `Take`, `SetDwell` and `Report` the loop of
`check_once`. Positions, cells, polygons and covering cells are constants, all that
is assumed of them being that the cells of a fence cover its polygon. Time is one bit
per fence, `aged`, past the threshold or not. The registry is constant: it is loaded
when the engine starts and nothing calls `reload`. Nothing starts the checker's `run`
either; the model takes it as the source, with a Redis connection of its own.
`stale`, `twice`, `last` and `sent` are history: a DWELL written over another state,
and what the log and the producer were given last. `Produce` only fills the producer's
queue; what is lost from it, a queue's worth of messages of any fences at one crash, no
code looks after, so no property speaks of what consumers see.

### Gateway

One thread per call in `Requests`; `job[r]` holds where it is and its locals. The cuts
are the accesses to what others share: `Authorize` ends with the first load of
`in_flight_`, `TryAcquire` is one turn of the compare-and-exchange loop, `Check` ends
with the limiter's reading of the clock, which the code does before it takes the lock,
`Allow` is the limiter under its lock, `Produce` and `ProduceThrows` are
`KafkaProducer::produce`, `Answer` and the refusals end the call and its lease. `Call`
includes the conversion of the gRPC adapter, which refuses a whole call for one event
and hands on no API key: with `auth_required` every call through it is refused. `produced`
is all the producer has accepted; what the broker has is in `delivered`, what the
producer has given up in `failed` (`Report`: `dr_cb` has no callback to tell), and the
reports of `served` have been fetched; librdkafka counts the rest against its limit
(`Held`). `stop` flushes, which serves reports, and only then refuses calls. An event's
`kind` is what validator and adapter tell apart. `passed` is a
history variable: what the limiter let through and when.

### Query and Trips

`Query` EXTENDS `RedisState`, so a search meets writers, expiry and the cleanup
command by command (`Meanwhile`). `ReadCell` is an SMEMBERS, `ReadState` an HGETALL;
positions are cells, distances and the recency of a record are constants. `QueryInit`
is a store that earlier processors left: any records, each in its cell's set. `still`
is a history variable, the devices nobody has touched since the search began. The
disk is the code's, on a hexagonal lattice in axial coordinates; `DiskCovers` says that
the disk of `radius_to_k` covers the radius. It holds on a regular hexagonal lattice,
where every ring is at least an edge wide; it may fail where H3's cells are smaller than
their average, and it fails on the square lattice of the build without H3, where
neighbours across two of the four corners are left out. The theorem takes it as an
assumption; the run has two adjacent cells.
The latest position is a single HGETALL and has no interleaving of its own.

`Trips` follows the rows of the SQL (order, limit) through `downsample_by_interval` to
the gRPC response. The limit cuts the rows before the sampling (the diagram at
`docs/components.md:444` has no limit), so a sampled trip may be shorter than the limit
and still not reach the end of its range; boxes are answered UNIMPLEMENTED.

### Configuration and Runtime

`Configuration` reads a file line by line: sections, keys, the last value of a key that
counts, unknown keys that are ignored, the form a value must have for its key, the
range validation admits. Which string starts with a slash is a set, as strings do not
come apart in TLA+. `WithRole` is the override of `main`.

`Runtime` has the main thread (`mode`, with what `start` or `stop_started_services` has
left in `todo`: a set of names, gone through in the order of `StartTurn` or `StopTurn`),
an accept thread per socket, the processor's worker, and the bus.
`StartService(x)` is a service's start, which may throw (`GiveUp` leaves the plan of the
roll-back in `todo`); `Drain`, `Close` and `Join` are the steps of a server's `stop`; the
exporter is a second instance of the same steps, since its code is the admin server's
without a request loop. `TellWorker` and `StopProcessor` stop the processor, whose last
flush may throw out of `stop`; then `main`'s catch clause, or the destructor, stops
what still runs, and a second throw ends the process (`mode = "dead"`). `Publish` copies
the callbacks under the lock of the bus, `Call` calls them outside it. The services'
insides are the other modules; here they are lifecycle states, and the geofence engine
also the object (`engine`) that its handlers refer to. Events that the worker takes
between the start of the processor and that of the engine, or after the engine's
subscription is gone, are committed without being evaluated: `MoveUnseen` of `Geofence`.

## 3. Runs

| run | question | bounds |
|---|---|---|
| `Ingestion_promise` | register, no second write, rows, stops, progress | 1 device, 2 numbers, 1 process, batch 2, one crash or stop, one lapse of the record, one dead letter given up |
| `Ingestion_faults` | commits with zombies and a dead connection | 1 device, 2 numbers, 2 processes, batch 1, window 1, one crash or stop, one zombie, one broken connection |
| `Ingestion_crash_history` | violation: see 5 | one crash |
| `Redis_index` | updates are atomic; record, index and time to live agree; dead members leave | 2 devices of one writer, 2 cells, 2 numbers, one crash, any number of expiries and sweeps |
| `Redis_two_writers` | violation: see 5 | 2 writers of one device |
| `Dlq_replay` | replayed or deferred; commits only forward; recovery | 3 rows (one unreadable), 3 messages, 2 attempts, 2 messages per pass, one crash, PostGIS changes twice |
| `Match_serve` | exclusion, release, answers and how many, progress | 2 servers, 2 requests and an undecodable message, 2 agents, one lapse, one crash, any delivery may fail |
| `Geofence_track` | states, log, messages and position agree; dwelling comes | 3 positions in 2 cells, 2 fences (one across both cells), one crash, one expired record, the engine on and off any number of times |
| `Gateway_admit` | leases, books, bursts, the gateway idle again | 3 threads, 2 leases, 1 device, rate 1 in a window of 2 ticks, 1 place in the queue, a batch with good and bad events, an event alone, and calls refused on the way in, each with its API key or through the gRPC adapter |
| `Gateway_reports` | violation: see 5 | 2 threads, 1 place in the queue |
| `Query_nearby` | standing devices are found; trips are thinned | 2 devices of which one moves, 2 cells, 2 numbers, one crash, a full answer and one that is not; every subset of 5 points and every request over 6 times |
| `Runtime_life` | what runs is what is configured; handlers, answers, stops | 2 starts of one object, 8 files with roles, of which 3 load and one more reaches `start` unchecked, one client per socket and start, any start, evaluation or flush may throw |

Why the bounds are enough: devices are independent of each other in the processor and in
Redis (keys are per device, and the cleaner treats members one by one; the theorems hold
for any number), and a second one lets a death leave its mark on one of two; two
sequence numbers give a record an older, an equal and a newer event; one lapse makes the
older and the equal one acceptable again; two cells give a move from a cell the cleaner
has visited to one it has not, and back; a batch of two is the least that is not flushed
at once; two processes are what a reassignment needs; two agents and two requests
compete and leave one over; two fences, one of a single cell, make a fence that only the
old cell knows and a second candidate to be evaluated. Three calls make two that hold
the leases and one that does not get one, with one place in the queue the second produce
is refused until a report is served, and a window of two ticks can be met at its
beginning, its end and after. A moving and a standing device in two cells are what a
search can confuse. Two starts are what a leftover of the first can meet. A second crash
starts from states the first one reaches too: `Fresh` leaves nothing of the process.
What is bounded here - processes, crashes, reassignments, lapses, devices - is not
bounded in the theorems of section 6.

Several properties are conditional on what has happened so far: `SettledIsCovered`
holds until a connection breaks (`faults = 0`), `UnassignedReleased` until a crash,
`ReservationsExclude` and `OnlyHolderReleases` until a reservation lapses, the geofence
invariants until a DWELL overwrites another state (`stale`), `StateFollowsPlace` also
until a crash or an expired record, and not of fences in `blind`; `NoSecondWrite` holds
until the device's record lapses; the index properties speak of devices whose record
never expired. What a crash may spoil is counted where it can be: `IndexComplete`,
`RecordsExpire`, `EventsAlternate` and `ReportsFollowStates` allow one device or fence for each
death, and `AnsweredOncePerLife` one more answer. The conditions are real; this is what
the code does beyond them:

- after a connection error `update_device_state_cas` returns true and the event is
  committed unstored (`docs/ingestion/pipeline.md:286` speaks of a rewind);
- a crash between HSET and SADD leaves a record outside its cell's set, one between
  HSET and EXPIRE a record without a time to live; the redelivered event is refused
  by the sequence guard and repairs neither, the next event of the device does;
- a device that comes back between the cleaner's HGETALL and SREM has a record and
  is in no set; one that comes back in another cell before the cleaner has met it
  without a record is in two sets;
- once a record has lapsed, an older or a repeated event is stored (I2,
  `docs/architecture.md:473`, holds for a time to live);
- a dead letter still queued when a stop's five seconds are over, or that the broker
  refuses, is a row lost without a trace; a result of matching likewise, after its
  request was committed; a position at the gateway likewise, after its caller was told
  that it was accepted; a geofence message likewise, a queue of them at one crash;
- a position the processor accepts while the engine is off leaves the fences as they
  were, until a later position concerns them;
- a server that crashes holding reservations cannot take them again for the
  redelivered request (SET NX), which may fail and leave them to lapse; a crash
  between publish and commit answers a request twice;
- when a reservation lapses between GET and DEL, the DEL removes its successor's;
- a crash after `set_fence_state` loses the enter or exit for good, one before it until
  the device is next evaluated for that fence: the event comes again and the sequence
  guard refuses it;
- a device whose record has expired and that comes back elsewhere has no old cell, so
  its exit is missed; the log still alternates, which `EventsAlternate` shows;
- while messages keep coming the flush interval is not looked at, hence the
  antecedent of `QuietRowsLand`.

`NoBurst` holds while nobody waits past a tick between the limiter's reading of the
clock and its lock. The header calls the limiter a sliding window; it is a fixed one,
hence "less than twice the rate" and not "at most the rate".

Deadlock is checked except where the program may stop: the servers of `Match_serve` at
the end of their inboxes, the gateway once its calls are answered, the application once
it is down for good.

## 4. Fairness

Safety needs none. `Ingestion!FairSpec`: weak fairness of the loop's thread, of the
coordinator's assignment (a dead member's partition is reassigned), of the producer's
delivery thread and of the operator's restart. Nothing is assumed about failing inserts:
they may always fail, and rows then land as dead letters. Crashes and stops are bounded,
else a process might never get anywhere. `RedisState!FairSpec`: the cleanup thread and
the writers' threads run; nobody is obliged to send events, and devices may come and go
for ever. `DlqReplay!FairSpec`: the worker's loop runs; that PostGIS stays up is the
antecedent of the property. `Matching!FairSpec`: each server's loop runs, and its
producer delivers or gives up what it holds (`Ship`: librdkafka keeps no message past
its time-out); a strategy is not obliged to try every candidate, but its thread returns,
since each of its steps uses up a candidate or a reservation (`context.is_expired`
bounds it in the code). `Geofence!FairSpec`: both threads run, and `TimePasses`: a state
that stays INSIDE comes past the threshold. Devices need not move. `Gateway!Spec`: the
threads of calls that have arrived run, and the producer's messages are delivered or
given up (`Report`); nobody need call, stop the service or poll. `Runtime!FairSpec`: the
main thread, the worker and the accept threads run, and a read ends with its time-out;
no client need come and no signal.

## 5. Disagreements between documentation and code

Each is a run that TLC violates, quoted in full under `findings` in `PROJECT.json`:

- `Ingestion_crash_history`: "No permanently lost events" against the commit of an
  offset whose row is only in the buffer.
- `Redis_two_writers`: `last_seq` "never decreases" and "Atomically update" against
  HGETALL, comparison and HSET in separate round trips.
- `Gateway_reports`: delivery callbacks are to be polled for "periodically" against a
  producer nobody polls: a message with a delivery report keeps its place in the queue.

Three more concern code that `RuntimeApplication` does not start yet (the DLQ worker, the
loop of matching, the dwell checker). Their definitions stand in the modules, and adding
them to a run gives the counterexample:

- `INVARIANT CommittedIsReplayed` in `Dlq_replay.cfg`: "Recovery replays from dead-letter
  topic" (`docs/architecture.md:637`) against a deferral that the next commit covers.
- `INVARIANT NoDoubleAssignment` in `Match_serve.cfg`: "Prevents double-assignment"
  (`matching/reservation_manager.h:7`) against a result published without looking at the
  reservation again.
- `PROPERTY DwellsInside` in `Geofence_track.cfg`: "if they have been continuously inside
  the fence" (`docs/components.md:532`) against a DWELL written from a list read earlier,
  over an exit in between.

## 6. Proofs

All for every value of the constants that satisfies the modules' assumptions.

- `Ingestion_proofs`. `TypeCorrect`. `RowsAccounted` and `StopDrains` (no condition; the
  second is `StopLosesOnlyThrown`, for which every dead letter was thrown and every
  thrown row that is still held is in batch or outbox when the loop ends): the type
  invariant with `HandOK` (what is in hand at which line, and that the owner's is the
  head of the queue), `FlushOK` (a failed batch exists only while it is dead-lettered)
  and `Row(e)` for all that was written; `RowStays` shows no action drops one.
  `CommitsAreCovered` (until a connection breaks): `CoverOK` is needed because the
  window marks events before they are written, so it says that what the window holds is
  covered or is the message in hand before its write; it must also tie each record to an
  event that wrote it, for the guard's refusals. `WritesOnce` and `Implements` (no
  broken connection, no zombie): with `AloneOK` (only the owner has a message in hand)
  the record bounds all that was written since it last lapsed (`fresh`), and a step is
  `Apply`, `Lapse`, `GiveUp` or a stutter of `LatestValue`. `HistoryIsStored` (likewise,
  and proved only): a row waits, lands or is dead-lettered only for an event that was
  stored.
- `RedisState_proofs`. `TypeCorrect`. `SequenceKept` and `CasImplemented` (one writer per
  device): `LeadOK`, what a writer is about to store is newer than the record, which only
  its own device's writer could break. With it every command is a step of `AtomicStore` or
  a stutter: HSET stores, a refusal and the return after SADD answer, a crash asks again.
  That a record never goes back is part of what `AtomicStore` says.
  `IndexIsSound` (one writer per device): a member of a set has a record there, and a
  writer past SREM has left no other cell behind. `EveryRecordExpires` and, for one writer
  per device, `IndexIsComplete` count: `Forgotten` are the records without an expiry and
  without a writer about to set it, `Unlisted` the devices out of their set without a writer
  between SREM and SADD. No step but a crash adds to either (`ExpiringStays`,
  `IndexedStays`), a crash adds the device in hand (`GrowsByCrash`), so neither is ever
  larger than the number of crashes; the cleaner's victims are expired devices.
- `DlqReplay_proofs`. `TypeCorrect`, `OnlyDeferredIsLost`, `CommitIsMonotone`: what is
  behind the position is replayed, unreadable or deferred, or is in hand.
- `Matching_proofs`. `TypeCorrect`. `NoDoubleUnlessLapsed` and `OwnReleaseUnlessLapsed`
  (until a lapse): `HeldInv`, an agent on a request's list is held by that request and
  on no other list, agents of a published result stay held by it, and only a server
  about to commit has them on its list. `CommittedRequestsAreAnswered` (no condition):
  everything behind a consumer's position is failed, undecodable or in hand, or has a
  result that was once handed to a producer (`Sent`); such a result is on the topic, in
  the outbox of the server that had the request (`Had`), or dropped.
  `RequestsAreAnsweredOnce` (no condition): `CountOK`, a request has at most one result,
  delivered or not, per crash while it is still to be handled and one more once it has
  been, and only a crash brings a consumer back to it. `NothingStaysReserved` (until a
  crash): `KeptInv`, whatever is reserved for the request in hand is on its list, and
  once the outcome stands it is in it or still to be freed; what a strategy rolls back
  leaves the list only with its release. It needs that reservations belong to requests
  already polled, so that one just polled has none.
- `Geofence_proofs`. `TypeCorrect`. `StatesFollow`, `LogAlternates`, `ReportsAgree`: one
  invariant, `AgreeInv`. What `Look` found must still hold at `SetState` although the
  checker writes the same key (`AtOK`: it only turns INSIDE into DWELL, and both are
  "not OUTSIDE"). A fence has a doubled row, or its next row will be one (`Doubled`), or
  the producer was last given another state of it (`Misreported`), only because a crash
  came between its state and its row or message: no step but a crash makes either set
  larger (`AgreeStays`), and a crash adds the fence at hand, so both are at most as
  large as the number of crashes. Until the first, every fence whose state is not that
  of the position is a candidate not yet looked at or in `blind` (`PlaceOK`), for one
  that is neither covers neither cell, which is where the assumption on the cells is
  used.
- `Query_proofs`. `QueryTypeCorrect`. `SearchFindsWhatStands` (one writer per device, and
  a disk that covers the radius): nobody adds a device that stands still to a set
  (`OnlyWritersAdd`), so one that is in the set of its cell at the end was there when that
  set was read, or it is still to be read; a candidate's record is to be read or its entry
  has been found, and an entry of a standing device is its record. That the set has it
  until a writer dies is `IndexIsComplete`'s invariant. The n nearest of a set that leave
  an element out are n, and nearer. `TripsThinned` (the key of `trip_points` is assumed, as the
  schema has it): rows in the order of the query are as many as their ranks
  (`RanksCount`), the limit keeps the first of them (`RowsAreWindow`), buckets only grow
  along them (`BucketsGrow`), and what is kept of a prefix of the rows is of each interval
  its first point and no other (`SampledRows`). The last two speak of every length of the
  rows; they are proved by the least length at which they would fail (`LeastNumber`, from
  the library's theorem that the naturals are well-founded), since an induction rule takes
  an operator as its parameter, which the provers do not.
- `Gateway_proofs`. `TypeCorrect`. `AdmissionIsBounded`: the counter is the number of
  threads with a lease, so an exchange that succeeds finds fewer than the limit;
  `CallersAreToldTheTruth`: the messages of a thread are as many as it counts, its events
  up to the one at hand are accepted or rejected (`SumOK`), and only the thread's own
  `Produce` adds to them; an event past the validator stays valid in its thread's hands
  (`Sound`), so whatever is produced is. `BurstsAreBounded`: the window of
  a device counts what passed since it began (`Counts`), and in the window's length before
  that fewer than the rate passed (`Paced`), since that was the window before it; a span
  as long as a window meets at most two.
- `Runtime_proofs`. `LifeInv` says for each service and each socket that one that runs or
  is open was started, is in `roles` or enabled, and while the application stops is still
  in `todo` (`ServiceOK`, `SocketOK`); handlers and worker live with their service
  (`BusOK`, `WorkerOK`); what `start` has left to do and what it has done make up the plan
  (`PlanOK`). It holds across throwing starts and stops and the second start. From it
  follow `TypeCorrect` (that a valid port fits a `uint16_t` is a lemma about
  `Configuration`), `EngineOutlivesCalls` and, with `AdminOK`, `RunsWhatIsConfigured` and
  `AnswersStayTrue`: the admin socket opens when only the exporter is still to start and
  closes before any service stops, so no step that changes what its answers speak of
  happens while it is open.

The prover cannot treat liveness under fairness; `PartitionMoves`, `QuietRowsLand`,
`DeadLeaveIndex`, `RecoveryReplays`, `EveryRequestServed`, `DwellComes`, `IdleAgain` and
`StopCompletes` are model-checked only. Every other property of a passing run is the
statement of a theorem. The type invariants of `DlqReplay`, `Matching` and `Geofence` and
`SeqNeverDecreases` for a single writer are proved and no longer run.

## 7. Not modelled, and the plan

Not modelled: floating-point geometry (haversine, point in polygon) and the inside of H3;
the text of payloads (whether one decodes is all the models ask), answers and log lines;
metric counters; back-off times; the LRU order of the dedup window; the reload of the fence registry, which nothing calls; the
access log and HTTP beyond the request line; the admin gRPC adapter, which hands answers
through; the fallback builds without hiredis, librdkafka, libpq or H3;
what the broker does to geofence messages (the producer may lose or reorder them, and no
code looks after it; with queue and topic in the model the run has over eleven million
states and no property to show for them); the end of the gateway's process, with which
what it has accepted and not delivered goes; `QueryService::stop`, which resets its
handlers while requests may still be running in them; a socket client that does not read
its answer (`admin_socket_server.cpp:101` would block in send); failing Redis calls in
`Matching`; partitions that move between live matching servers.

What is left to do, in this order:

1. `DedupWindow` as a component of its own that implements the set with evictions of
   `Ingestion`.
2. Registry reload against evaluation in `Geofence` (pointers into a map a reload clears),
   `QueryService::stop` against running requests, and the DLQ worker, the matching loop
   and the dwell checker in `Runtime`, once something calls or starts them.
