------------------------------ MODULE DlqReplay ------------------------------
(***************************************************************************)
(* DLQReplayWorker: the dead-letter topic, its consumer and the inserts    *)
(* into PostGIS.  Of a row only its key is kept; serialize_dlq_payload     *)
(* keeps the key of a row, unless its device id breaks the CSV form.       *)
(***************************************************************************)
EXTENDS Integers, Sequences

CONSTANTS Rows,
          Unreadable,    \* rows whose CSV form decode_location_payload refuses
          MaxAttempts,   \* bounded_attempts(max_write_attempts)
          MaxMessages,   \* max_messages of a pass
          MaxLog,        \* bound: length of the dead-letter topic
          MaxCrashes,    \* bound: deaths of the worker's process
          MaxFlips       \* bound: times PostGIS changes between up and down

ASSUME DlqAssumption ==
    /\ Unreadable \subseteq Rows
    /\ MaxAttempts \in Nat \ {0} /\ MaxMessages \in Nat \ {0}
    /\ MaxLog \in Nat /\ MaxCrashes \in Nat /\ MaxFlips \in Nat

VARIABLES
    log,        \* the topic; offset o is log[o + 1]
    position,   \* of the consumer: the next offset it polls
    committed,  \* offset of the group
    trip,       \* trip_points
    up,         \* whether PostGIS answers
    pc,         \* "idle", or where run_once is
    handled,    \* messages this pass has gone through
    attempt,    \* attempts made for the message in hand
    deferred,   \* history: offsets run_once gave up on
    crashes, flips

vars == <<log, position, committed, trip, up, pc, handled, attempt, deferred,
          crashes, flips>>

Init ==
    /\ log = <<>> /\ position = 0 /\ committed = 0
    /\ trip = {} /\ up = TRUE
    /\ pc = "idle" /\ handled = 0 /\ attempt = 0
    /\ deferred = {} /\ crashes = 0 /\ flips = 0

At(o) == log[o + 1]
Offsets == 0..(Len(log) - 1)
InHand == position - 1      \* the offset of the message last polled

\* HistoryWriter::flush puts a row on the topic.
Arrive ==
    /\ Len(log) < MaxLog
    /\ \E r \in Rows : log' = Append(log, r)
    /\ UNCHANGED <<position, committed, trip, up, pc, handled, attempt, deferred,
                   crashes, flips>>

Flip ==
    /\ flips < MaxFlips
    /\ up' = ~up
    /\ flips' = flips + 1
    /\ UNCHANGED <<log, position, committed, trip, pc, handled, attempt, deferred,
                   crashes>>

\* Mutant: the count of the last pass is carried over.
RunOnceCarriesOver ==
    /\ pc = "idle"
    /\ pc' = "poll"
    /\ UNCHANGED <<log, position, committed, trip, up, handled, attempt, deferred,
                   crashes, flips>>

RunOnce ==
    /\ pc = "idle"
    /\ pc' = "poll"
    /\ handled' = 0
    /\ UNCHANGED <<log, position, committed, trip, up, attempt, deferred, crashes,
                   flips>>

\* poll(0) moves the position; what does not decode is committed unread.
Poll ==
    /\ pc = "poll" /\ handled < MaxMessages /\ position < Len(log)
    /\ position' = position + 1
    /\ pc' = IF At(position) \in Unreadable THEN "commit" ELSE "write"
    /\ attempt' = 1
    /\ UNCHANGED <<log, committed, trip, up, handled, deferred, crashes, flips>>

\* The pass ends: nothing more to poll, or the limit is reached.
PassEnds ==
    /\ pc = "poll" /\ (handled = MaxMessages \/ position = Len(log))
    /\ pc' = "idle"
    /\ UNCHANGED <<log, position, committed, trip, up, handled, attempt, deferred,
                   crashes, flips>>

WriteSucceeds ==
    /\ pc = "write" /\ up
    /\ trip' = trip \cup {At(InHand)}
    /\ pc' = "commit"
    /\ UNCHANGED <<log, position, committed, up, handled, attempt, deferred, crashes,
                   flips>>

\* Mutant: the message is committed after the last attempt too.
WriteFailsCommits ==
    /\ pc = "write" /\ ~up
    /\ trip' \in {trip, trip \cup {At(InHand)}}
    /\ IF attempt < MaxAttempts THEN attempt' = attempt + 1 /\ UNCHANGED pc
                                ELSE pc' = "commit" /\ UNCHANGED attempt
    /\ UNCHANGED <<log, position, committed, up, handled, deferred, crashes, flips>>

\* The insert throws; its transaction may have been committed all the same.
WriteFails ==
    /\ pc = "write" /\ ~up
    /\ trip' \in {trip, trip \cup {At(InHand)}}
    /\ IF attempt < MaxAttempts
       THEN /\ attempt' = attempt + 1
            /\ UNCHANGED <<pc, deferred>>
       ELSE /\ pc' = "idle"
            /\ deferred' = deferred \cup {InHand}
            /\ UNCHANGED attempt
    /\ UNCHANGED <<log, position, committed, up, handled, crashes, flips>>

\* commit(msg): the offset after the message, whatever lies before it.
Commit ==
    /\ pc = "commit"
    /\ committed' = InHand + 1
    /\ handled' = handled + 1
    /\ pc' = "poll"
    /\ UNCHANGED <<log, position, trip, up, attempt, deferred, crashes, flips>>

\* Mutant: the new consumer starts at the beginning of the topic.
CrashRewinds ==
    /\ crashes < MaxCrashes
    /\ position' = 0
    /\ pc' = "idle"
    /\ crashes' = crashes + 1
    /\ UNCHANGED <<log, committed, trip, up, handled, attempt, deferred, flips>>

\* The process dies and comes back; its new consumer starts at the commit.
Crash ==
    /\ crashes < MaxCrashes
    /\ position' = committed
    /\ pc' = "idle"
    /\ crashes' = crashes + 1
    /\ UNCHANGED <<log, committed, trip, up, handled, attempt, deferred, flips>>

Work == \/ RunOnce \/ Poll \/ PassEnds \/ WriteSucceeds \/ WriteFails \/ Commit

Next == Work \/ Arrive \/ Flip \/ Crash

Spec == Init /\ [][Next]_vars

\* DLQReplayWorker::run calls run_once again and again.
FairSpec == Spec /\ WF_vars(Work)
-----------------------------------------------------------------------------
(* Properties.                                                             *)

TypeOK ==
    /\ log \in Seq(Rows)
    /\ position \in Nat /\ committed \in Nat /\ committed <= position
    /\ position <= Len(log)
    /\ trip \subseteq Rows /\ up \in BOOLEAN
    /\ pc \in {"idle", "poll", "write", "commit"}
    /\ handled \in 0..MaxMessages /\ attempt \in 0..MaxAttempts
    /\ deferred \subseteq Nat
    /\ crashes \in Nat /\ flips \in Nat

Readable(o) == At(o) \notin Unreadable

\* "Recovery replays from dead-letter topic": a message is committed, and so
\* never delivered again, only once its row is in PostGIS.
CommittedIsReplayed ==
    \A o \in Offsets : o < committed /\ Readable(o) => At(o) \in trip

\* The same, but for the messages a pass gave up on.  Crashes at any step and
\* inserts that fail after their commit lose nothing more.
LostOnlyWhenDeferred ==
    \A o \in Offsets :
        o < committed /\ Readable(o) => At(o) \in trip \/ o \in deferred

\* The committed offset never goes back, restarts and redeliveries included.
CommitNeverGoesBack == [][committed' >= committed]_committed

Replayed(o) == o \in Offsets /\ (At(o) \in trip \/ o \in deferred)

\* Once PostGIS stays up, what the consumer has not reached yet is replayed.
RecoveryReplays ==
    <>[]up => \A o \in 0..(MaxLog - 1) :
        o \in Offsets /\ o >= position /\ Readable(o) ~> Replayed(o)
=============================================================================
