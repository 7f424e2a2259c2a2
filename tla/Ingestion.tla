----------------------------- MODULE Ingestion -----------------------------
(***************************************************************************)
(* The location processor: ProcessingLoop::run with the consumer, the      *)
(* dedup window, the sequence guard, the state writer, the history writer  *)
(* and the event handlers it drives, in the build with Redis, Kafka and    *)
(* PostGIS.  One partition of the ingest topic is shared by a group of     *)
(* processes.  A step ends where another process, a crash or the operator  *)
(* may intervene: at every remote call and every offset commit.            *)
(***************************************************************************)
EXTENDS Naturals, Sequences, FiniteSets

CONSTANTS Devices, MaxSeq,  \* events are pairs of a device and a number
          Procs,            \* processes of the consumer group
          EventDriven,      \* TRUE: through the EventBus; FALSE: direct calls
          BatchSize,        \* history_batch_size
          DedupMax,         \* dedup_max_entries
          MaxQueue,         \* bound: messages of the partition not committed
          MaxOutages,       \* bound: crashes and orderly stops
          MaxZombies,       \* bound: reassignments away from a live handler
          MaxFaults,        \* bound: Redis connections that break
          MaxLapses,        \* bound: records whose time to live ends
          MaxUndelivered,   \* bound: dead letters the broker does not take
          Garbage,          \* a message decode_location_payload refuses
          None

ASSUME IngestionAssumption ==
    /\ MaxSeq \in Nat
    /\ BatchSize \in Nat \ {0}
    /\ DedupMax \in Nat \ {0}
    /\ MaxQueue \in Nat
    /\ MaxOutages \in Nat
    /\ MaxZombies \in Nat
    /\ MaxFaults \in Nat
    /\ MaxLapses \in Nat
    /\ MaxUndelivered \in Nat
    /\ EventDriven \in BOOLEAN
    /\ None \notin Procs

Events == [dev : Devices, seq : 1..MaxSeq]

ASSUME MessageAssumption ==
    /\ None \notin Events \cup {Garbage}
    /\ Garbage \notin Events

VARIABLES
    queue,      \* the partition from the committed offset on
    owner,      \* the process the group assigned the partition to
    state,      \* Redis: last seq per device, 0 when there is no record
    trip,       \* PostGIS: trip_points
    dlq,        \* Kafka: messages of the dead-letter topic
    pc,         \* per process: where its loop is
    hand,       \* per process: the message being handled
    window,     \* per process: keys of the dedup window
    buf,        \* per process: HistoryWriter::buffer_
    batch,      \* per process: the rows flush() has swapped out
    outbox,     \* per process: dead letters the producer has not delivered
    linked,     \* per process: FALSE once its Redis connection is in error
    stopping,   \* per process: should_stop
    written,    \* history: events an HSET stored
    fresh,      \* history: those stored since their device's record last lapsed
    settled,    \* history: events whose offset was committed
    thrown,     \* history: rows whose insert threw
    lost,       \* history: rows that perished with a process that died
    dropped,    \* history: rows lost while no process died
    outages, zombies, faults, lapses    \* what the bounds count

procVars  == <<pc, hand, window, buf, batch, outbox, linked, stopping>>
storeVars == <<state, trip, dlq>>
ghostVars == <<written, fresh, settled, thrown, lost, dropped>>
countVars == <<outages, zombies, faults, lapses>>
vars == <<queue, owner, storeVars, procVars, ghostVars, countVars>>

PC == {"poll", "guard", "cas", "hset", "history", "flush", "dlq", "commit",
       "stopped", "down"}

Live(p) == pc[p] \notin {"stopped", "down"}

Init ==
    /\ queue = <<>> /\ owner = None
    /\ state = [d \in Devices |-> 0] /\ trip = {} /\ dlq = {}
    /\ pc = [p \in Procs |-> "poll"]
    /\ hand = [p \in Procs |-> None]
    /\ window = [p \in Procs |-> {}]
    /\ buf = [p \in Procs |-> {}]
    /\ batch = [p \in Procs |-> {}]
    /\ outbox = [p \in Procs |-> {}]
    /\ linked = [p \in Procs |-> TRUE]
    /\ stopping = [p \in Procs |-> FALSE]
    /\ written = {} /\ fresh = {} /\ settled = {}
    /\ thrown = {} /\ lost = {} /\ dropped = {}
    /\ outages = 0 /\ zombies = 0 /\ faults = 0 /\ lapses = 0
-----------------------------------------------------------------------------
(* The environment: the gateway, the group coordinator, the connections.   *)

\* The gateway publishes; devices retransmit and reorder, so any message may
\* appear at any time.
Produce ==
    /\ Len(queue) < MaxQueue
    /\ \E m \in Events \cup {Garbage} : queue' = Append(queue, m)
    /\ UNCHANGED <<owner, storeVars, procVars, ghostVars, countVars>>

\* The coordinator gives the partition to p: nobody has it, its owner left, or
\* its owner exceeded its session in the middle of a message and lives on as a
\* zombie until its commit is refused.
Assign(p) ==
    /\ p # owner /\ pc[p] = "poll" /\ ~stopping[p]
    /\ \/ /\ owner = None \/ (owner \in Procs /\ ~Live(owner))
          /\ UNCHANGED zombies
       \/ /\ owner \in Procs /\ Live(owner)
          /\ hand[owner] # None
          /\ zombies < MaxZombies
          /\ zombies' = zombies + 1
    /\ owner' = p
    /\ UNCHANGED <<queue, storeVars, procVars, ghostVars, outages, faults, lapses>>

\* hiredis marks the context; every later command of p returns no reply.
LoseRedis(p) ==
    /\ Live(p) /\ linked[p] /\ faults < MaxFaults
    /\ linked' = [linked EXCEPT ![p] = FALSE]
    /\ faults' = faults + 1
    /\ UNCHANGED <<queue, owner, storeVars, pc, hand, window, buf, batch, outbox,
                   stopping, ghostVars, outages, zombies, lapses>>

\* The time to live that EXPIRE gave the record of d ends: an HSET starts it
\* anew, and a device may be silent for longer, or the process may die between
\* the two commands.
Lapse(d) ==
    /\ state[d] > 0 /\ lapses < MaxLapses
    /\ state' = [state EXCEPT ![d] = 0]
    /\ fresh' = {e \in fresh : e.dev # d}
    /\ lapses' = lapses + 1
    /\ UNCHANGED <<queue, owner, trip, dlq, procVars, written, settled, thrown, lost,
                   dropped, outages, zombies, faults>>

\* The broker acknowledges a dead letter.
Deliver(p) ==
    /\ \E e \in outbox[p] : /\ outbox' = [outbox EXCEPT ![p] = @ \ {e}]
                            /\ dlq' = dlq \cup {e}
    /\ UNCHANGED <<queue, owner, state, trip, pc, hand, window, buf, batch, linked,
                   stopping, ghostVars, countVars>>

\* The broker refuses it or the message times out: nobody asked for a report.
DeliveryFails(p) ==
    /\ Cardinality(dropped) < MaxUndelivered
    /\ \E e \in outbox[p] : /\ outbox' = [outbox EXCEPT ![p] = @ \ {e}]
                            /\ dropped' = dropped \cup {e}
    /\ UNCHANGED <<queue, owner, storeVars, pc, hand, window, buf, batch, linked,
                   stopping, written, fresh, settled, thrown, lost, countVars>>
-----------------------------------------------------------------------------
(* One iteration of the loop.                                              *)

\* Mutant: an event with the number of the record passes for a newer one.
SeenOffByOne(p, d) == IF linked[p] /\ state[d] > 0 THEN state[d] - 1 ELSE 0

\* get_device_state as process p sees it: no reply reads as no record.
Seen(p, d) == IF linked[p] THEN state[d] ELSE 0

Owns(p) == owner = p /\ queue # <<>>

\* Mutant: a payload that does not decode goes on with a default event.
PollTakesGarbage(p) ==
    /\ pc[p] = "poll" /\ ~stopping[p] /\ Owns(p)
    /\ hand' = [hand EXCEPT ![p] = Head(queue)]
    /\ pc' = [pc EXCEPT ![p] = IF Head(queue) = Garbage THEN "history" ELSE "guard"]
    /\ UNCHANGED <<queue, owner, storeVars, window, buf, batch, outbox, linked,
                   stopping, ghostVars, countVars>>

\* What the evictions by age and size may leave of the window: any part of it.
Evictions(p) == SUBSET window[p]

\* poll, decode, is_duplicate and mark_seen
Poll(p) ==
    /\ pc[p] = "poll" /\ ~stopping[p] /\ Owns(p)
    /\ hand' = [hand EXCEPT ![p] = Head(queue)]
    /\ \/ /\ Head(queue) = Garbage
          /\ pc' = [pc EXCEPT ![p] = "commit"]
          /\ UNCHANGED window
       \/ \E kept \in Evictions(p) :
          /\ Head(queue) # Garbage
          /\ \/ /\ Head(queue) \in kept
                /\ pc' = [pc EXCEPT ![p] = "commit"]
                /\ window' = [window EXCEPT ![p] = kept]
             \/ /\ Head(queue) \notin kept
                /\ Cardinality(kept) < DedupMax
                /\ pc' = [pc EXCEPT ![p] = "guard"]
                /\ window' = [window EXCEPT ![p] = kept \cup {Head(queue)}]
    /\ UNCHANGED <<queue, owner, storeVars, buf, batch, outbox, linked, stopping,
                   ghostVars, countVars>>

\* Mutant: the operands of the comparison are swapped.
GuardSwapped(p) ==
    /\ pc[p] = "guard"
    /\ pc' = [pc EXCEPT ![p] = IF Seen(p, hand[p].dev) > hand[p].seq
                               THEN "cas" ELSE "commit"]
    /\ UNCHANGED <<queue, owner, storeVars, hand, window, buf, batch, outbox, linked,
                   stopping, ghostVars, countVars>>

\* seq_guard_.should_accept
Guard(p) ==
    /\ pc[p] = "guard"
    /\ pc' = [pc EXCEPT ![p] = IF hand[p].seq > Seen(p, hand[p].dev)
                               THEN "cas" ELSE "commit"]
    /\ UNCHANGED <<queue, owner, storeVars, hand, window, buf, batch, outbox, linked,
                   stopping, ghostVars, countVars>>

\* Where a refused state write leads: the handlers of the event bus ask for the
\* history row all the same, the direct calls go on to the commit.
AfterRefusal == IF EventDriven THEN "history" ELSE "commit"

\* update_device_state_cas reads and compares ...
CasRead(p) ==
    /\ pc[p] = "cas"
    /\ pc' = [pc EXCEPT ![p] = IF hand[p].seq > Seen(p, hand[p].dev)
                               THEN "hset" ELSE AfterRefusal]
    /\ UNCHANGED <<queue, owner, storeVars, hand, window, buf, batch, outbox, linked,
                   stopping, ghostVars, countVars>>

\* ... and writes what it decided to write, whatever the record holds by now,
\* with a new time to live (see Lapse).  The replies are not looked at: the call
\* returns true on a dead connection too.
Store(p) ==
    IF linked[p] THEN /\ state' = [state EXCEPT ![hand[p].dev] = hand[p].seq]
                      /\ written' = written \cup {hand[p]}
                      /\ fresh' = fresh \cup {hand[p]}
                 ELSE UNCHANGED <<state, written, fresh>>

CasWrite(p) ==
    /\ pc[p] = "hset"
    /\ Store(p)
    /\ pc' = [pc EXCEPT ![p] = "history"]
    /\ UNCHANGED <<queue, owner, trip, dlq, hand, window, buf, batch, outbox, linked,
                   stopping, settled, thrown, lost, dropped, countVars>>

\* history_writer_.buffer and should_flush
Buffer(p) ==
    /\ pc[p] = "history"
    /\ buf' = [buf EXCEPT ![p] = @ \cup {hand[p]}]
    /\ pc' = [pc EXCEPT ![p] = IF Cardinality(buf'[p]) >= BatchSize
                               THEN "flush" ELSE "commit"]
    /\ UNCHANGED <<queue, owner, storeVars, hand, window, batch, outbox, linked,
                   stopping, ghostVars, countVars>>

\* Where flush() returns to: the message in hand, or the head of the loop.
AfterFlush(p) == CASE hand[p] # None -> "commit"
                   [] hand[p] = None /\ stopping[p]  -> "stopped"
                   [] hand[p] = None /\ ~stopping[p] -> "poll"

\* flush(): the rows are swapped out and inserted in one transaction.
FlushInsert(p) ==
    /\ pc[p] = "flush"
    /\ trip' = trip \cup buf[p]
    /\ buf' = [buf EXCEPT ![p] = {}]
    /\ pc' = [pc EXCEPT ![p] = AfterFlush(p)]
    /\ UNCHANGED <<queue, owner, state, dlq, hand, window, batch, outbox, linked,
                   stopping, ghostVars, countVars>>

\* The insert throws: rolled back, or committed with the answer lost.
FlushFail(p) ==
    /\ pc[p] = "flush"
    /\ trip' \in {trip, trip \cup buf[p]}
    /\ batch' = [batch EXCEPT ![p] = buf[p]]
    /\ thrown' = thrown \cup buf[p]
    /\ buf' = [buf EXCEPT ![p] = {}]
    /\ pc' = [pc EXCEPT ![p] = "dlq"]
    /\ UNCHANGED <<queue, owner, state, dlq, hand, window, outbox, linked, stopping,
                   written, fresh, settled, lost, dropped, countVars>>

\* Mutant: the first dead letter ends the loop over the rows.
DeadLetterOnce(p) ==
    /\ pc[p] = "dlq"
    /\ \E e \in batch[p] : outbox' = [outbox EXCEPT ![p] = @ \cup {e}]
    /\ batch' = [batch EXCEPT ![p] = {}]
    /\ pc' = [pc EXCEPT ![p] = AfterFlush(p)]
    /\ UNCHANGED <<queue, owner, storeVars, hand, window, buf, linked, stopping,
                   ghostVars, countVars>>

\* The rows of a failed batch are handed to the producer one by one.
DeadLetter(p) ==
    /\ pc[p] = "dlq"
    /\ \E e \in batch[p] :
        /\ outbox' = [outbox EXCEPT ![p] = @ \cup {e}]
        /\ batch' = [batch EXCEPT ![p] = @ \ {e}]
    /\ pc' = [pc EXCEPT ![p] = IF batch'[p] = {} THEN AfterFlush(p) ELSE "dlq"]
    /\ UNCHANGED <<queue, owner, storeVars, hand, window, buf, linked, stopping,
                   ghostVars, countVars>>

\* consumer_.commit
Commit(p) ==
    /\ pc[p] = "commit" /\ owner = p
    /\ queue' = Tail(queue)
    /\ settled' = settled \cup ({hand[p]} \ {Garbage})
    /\ hand' = [hand EXCEPT ![p] = None]
    /\ pc' = [pc EXCEPT ![p] = "poll"]
    /\ UNCHANGED <<owner, storeVars, window, buf, batch, outbox, linked, stopping,
                   written, fresh, thrown, lost, dropped, countVars>>

\* Mutant: the idle loop flushes full buffers only.
IdleFlushFull(p) ==
    /\ pc[p] = "poll" /\ ~stopping[p] /\ ~Owns(p)
    /\ Cardinality(buf[p]) >= BatchSize
    /\ pc' = [pc EXCEPT ![p] = "flush"]
    /\ UNCHANGED <<queue, owner, storeVars, hand, window, buf, batch, outbox, linked,
                   stopping, ghostVars, countVars>>

\* poll returned nothing and the flush interval is over.
IdleFlush(p) ==
    /\ pc[p] = "poll" /\ ~stopping[p] /\ ~Owns(p)
    /\ buf[p] # {}
    /\ pc' = [pc EXCEPT ![p] = "flush"]
    /\ UNCHANGED <<queue, owner, storeVars, hand, window, buf, batch, outbox, linked,
                   stopping, ghostVars, countVars>>
-----------------------------------------------------------------------------
(* The process: orderly stop, restart, death.                              *)

RequestStop(p) ==
    /\ Live(p) /\ ~stopping[p] /\ outages < MaxOutages
    /\ stopping' = [stopping EXCEPT ![p] = TRUE]
    /\ outages' = outages + 1
    /\ UNCHANGED <<queue, owner, storeVars, pc, hand, window, buf, batch, outbox,
                   linked, ghostVars, zombies, faults, lapses>>

\* Mutant: the loop ends without a last flush.
DrainNothing(p) ==
    /\ pc[p] = "poll" /\ stopping[p]
    /\ pc' = [pc EXCEPT ![p] = "stopped"]
    /\ UNCHANGED <<queue, owner, storeVars, hand, window, buf, batch, outbox, linked,
                   stopping, ghostVars, countVars>>

\* The loop sees should_stop and flushes; ProcessorService::stop joins it.
Drain(p) ==
    /\ pc[p] = "poll" /\ stopping[p]
    /\ pc' = [pc EXCEPT ![p] = IF buf[p] = {} THEN "stopped" ELSE "flush"]
    /\ UNCHANGED <<queue, owner, storeVars, hand, window, buf, batch, outbox, linked,
                   stopping, ghostVars, countVars>>

\* What p holds of the history and nobody else does.
Held(p) == buf[p] \cup batch[p] \cup outbox[p]
           \cup (IF pc[p] = "history" THEN {hand[p]} ELSE {})

\* Mutant: the dedup window survives the process.
FreshButWindow(p, at) ==
    /\ pc' = [pc EXCEPT ![p] = at]
    /\ hand' = [hand EXCEPT ![p] = None]
    /\ buf' = [buf EXCEPT ![p] = {}]
    /\ batch' = [batch EXCEPT ![p] = {}]
    /\ outbox' = [outbox EXCEPT ![p] = {}]
    /\ linked' = [linked EXCEPT ![p] = TRUE]
    /\ stopping' = [stopping EXCEPT ![p] = FALSE]
    /\ UNCHANGED window

\* Mutant: should_stop is not reset.
FreshButStopping(p, at) ==
    /\ pc' = [pc EXCEPT ![p] = at]
    /\ hand' = [hand EXCEPT ![p] = None]
    /\ window' = [window EXCEPT ![p] = {}]
    /\ buf' = [buf EXCEPT ![p] = {}]
    /\ batch' = [batch EXCEPT ![p] = {}]
    /\ outbox' = [outbox EXCEPT ![p] = {}]
    /\ linked' = [linked EXCEPT ![p] = TRUE]
    /\ UNCHANGED stopping

\* The members of p are built anew; what they held is gone.
Fresh(p, at) ==
    /\ pc' = [pc EXCEPT ![p] = at]
    /\ hand' = [hand EXCEPT ![p] = None]
    /\ window' = [window EXCEPT ![p] = {}]
    /\ buf' = [buf EXCEPT ![p] = {}]
    /\ batch' = [batch EXCEPT ![p] = {}]
    /\ outbox' = [outbox EXCEPT ![p] = {}]
    /\ linked' = [linked EXCEPT ![p] = TRUE]
    /\ stopping' = [stopping EXCEPT ![p] = FALSE]

\* ProcessorService::start.  After an orderly stop the old producer had five
\* seconds to deliver what it still held, and nobody looks whether it did.
Start(p) ==
    /\ ~Live(p)
    /\ Fresh(p, "poll")
    /\ dropped' = dropped \cup Held(p)
    /\ UNCHANGED <<queue, owner, storeVars, written, fresh, settled, thrown, lost,
                   countVars>>

\* The process dies: it is killed, or an exception leaves the loop's thread
\* (a refused commit, a full producer queue, a Kafka error).
Crash(p) ==
    /\ Live(p) /\ outages < MaxOutages
    /\ Fresh(p, "down")
    /\ lost' = lost \cup Held(p)
    /\ outages' = outages + 1
    /\ UNCHANGED <<queue, owner, storeVars, written, fresh, settled, thrown, dropped,
                   zombies, faults, lapses>>

\* The commit of a zombie is refused, and commit() throws.
CommitRefused(p) ==
    /\ pc[p] = "commit" /\ owner # p
    /\ Fresh(p, "down")
    /\ lost' = lost \cup Held(p)
    /\ UNCHANGED <<queue, owner, storeVars, written, fresh, settled, thrown, dropped,
                   countVars>>
-----------------------------------------------------------------------------
\* The steps the thread of the loop takes by itself.
Loop(p) == \/ Poll(p) \/ Guard(p) \/ CasRead(p) \/ CasWrite(p) \/ Buffer(p)
           \/ FlushInsert(p) \/ FlushFail(p) \/ DeadLetter(p)
           \/ Commit(p) \/ CommitRefused(p) \/ IdleFlush(p) \/ Drain(p)

Next == \/ Produce
        \/ \E d \in Devices : Lapse(d)
        \/ \E p \in Procs : \/ Loop(p) \/ Assign(p) \/ Deliver(p) \/ DeliveryFails(p)
                            \/ Start(p) \/ LoseRedis(p) \/ RequestStop(p) \/ Crash(p)

Spec == Init /\ [][Next]_vars

\* The loop's thread is scheduled, the coordinator reassigns what a dead member
\* owned, the producer's thread delivers, the operator restarts what is down.
FairSpec ==
    /\ Spec
    /\ \A p \in Procs : /\ WF_vars(Loop(p)) /\ WF_vars(Assign(p))
                        /\ WF_vars(Deliver(p)) /\ WF_vars(Start(p))
-----------------------------------------------------------------------------
(* Properties.                                                             *)

TypeOK ==
    /\ queue \in Seq(Events \cup {Garbage})
    /\ owner \in Procs \cup {None}
    /\ state \in [Devices -> 0..MaxSeq]
    /\ trip \subseteq Events /\ dlq \subseteq Events
    /\ pc \in [Procs -> PC]
    /\ hand \in [Procs -> Events \cup {Garbage, None}]
    /\ window \in [Procs -> SUBSET Events]
    /\ buf \in [Procs -> SUBSET Events]
    /\ batch \in [Procs -> SUBSET Events]
    /\ outbox \in [Procs -> SUBSET Events]
    /\ linked \in [Procs -> BOOLEAN]
    /\ stopping \in [Procs -> BOOLEAN]
    /\ written \subseteq Events /\ fresh \subseteq written /\ settled \subseteq Events
    /\ thrown \subseteq Events /\ lost \subseteq Events /\ dropped \subseteq Events
    /\ outages \in Nat /\ zombies \in Nat /\ faults \in Nat /\ lapses \in Nat

\* e is in the state store, or something newer of its device was.
Covered(e) == \E w \in written : w.dev = e.dev /\ w.seq >= e.seq

\* The loop marks an event as seen before it writes it and commits it on three
\* different paths: no path may commit an event the state store never reached,
\* with any number of crashes, restarts and zombies in between, until a Redis
\* connection breaks (an update on a broken one reports success).
SettledIsCovered == faults = 0 => \A e \in settled : Covered(e)

\* The rows of flush() pass through the buffer, the batch, the database, the
\* dead letters: a row may disappear only with the process that held it, or as a
\* dead letter that was never delivered.
HistoryAccounted ==
    written \subseteq trip \cup dlq \cup lost \cup dropped \cup UNION {Held(p) : p \in Procs}

\* History records what the state store took: with one handler per message a
\* row is written for no event that was refused.
HistoryWasWritten == trip \cup dlq \subseteq written

\* An orderly stop, whichever step of the loop the request met, costs no row but
\* those PostGIS refused: what the process still holds when it has stopped are dead
\* letters its producer has not delivered, and only such letters are ever lost
\* while no process dies.
StopLosesOnlyThrown ==
    /\ \A p \in Procs : pc[p] = "stopped" => Held(p) \subseteq thrown
    /\ dropped \subseteq thrown

\* I2 of the architecture, as far as it is true: an event updates the state store
\* a second time, by redelivery after a crash or by retransmission after it has
\* left the dedup window, only if the record of its device lapsed in between.
NoSecondWrite ==
    [][\A p \in Procs : CasWrite(p) /\ linked[p] => hand[p] \notin fresh]_vars

\* The readers of the state store and the producers see the promised register.
Promise == INSTANCE LatestValue WITH latest <- state, applied <- written, given <- settled
KeepsPromise == Promise!Spec

\* "No permanently lost events": what was stored and committed is in the
\* history, or on its way there.
NothingCommittedIsLost ==
    settled \cap written \subseteq trip \cup dlq \cup UNION {Held(p) : p \in Procs}

\* A partition that holds messages goes on being consumed.
PartitionMoves == []<>(queue = <<>>) \/ []<><<\E p \in Procs : Commit(p)>>_vars

Landed(e) == e \in trip \cup dlq \cup lost \cup dropped

\* Once the partition has fallen silent a buffered row leaves the buffer in the
\* end: the idle loop flushes.  While messages keep coming the loop looks at the
\* flush interval only after an empty poll, and the row may wait for a full batch.
QuietRowsLand ==
    <>[](queue = <<>>) => \A p \in Procs : \A e \in Events : e \in buf[p] ~> Landed(e)
=============================================================================
