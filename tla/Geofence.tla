------------------------------ MODULE Geofence ------------------------------
(***************************************************************************)
(* The geofences of one device: Evaluator::evaluate, called in the thread  *)
(* of the location processor after each accepted state write, and          *)
(* DwellChecker::check_once in a thread of its own, on the fence states in *)
(* Redis, one remote call per step.  Fence states are per device and fence *)
(* and an event is evaluated for its own device only.                      *)
(***************************************************************************)
EXTENDS Naturals, FiniteSets

CONSTANTS Places,       \* positions a device can report
          Cells, CellOf,   \* the H3 cell of a position
          Fences,
          Area,         \* per fence, the positions in its polygon
          Cover,        \* per fence, its h3_cells
          MaxCrashes,   \* bound: deaths of the process
          MaxExpiries,  \* bound: device records whose time to live ends
          None

\* h3_cells is the covering cell set of the polygon.
ASSUME GeofenceAssumption ==
    /\ CellOf \in [Places -> Cells]
    /\ Area \in [Fences -> SUBSET Places]
    /\ Cover \in [Fences -> SUBSET Cells]
    /\ \A f \in Fences : \A p \in Area[f] : CellOf[p] \in Cover[f]
    /\ MaxCrashes \in Nat /\ MaxExpiries \in Nat
    /\ None \notin Places \cup Fences

VARIABLES
    engine,     \* whether the engine has its handler on the event bus
    place,      \* position in the device's record, or None
    fence,      \* per fence: the state in Redis, OUTSIDE when there is none
    aged,       \* per fence: whether entered_at is past the threshold
    epc, here,  \* the evaluator: where it is, the position it evaluates
    todo, at,   \*   candidates it has still to take, the one it works on
    dpc, scan,  \* the dwell checker: where it is, keys it has still to read
    found, due, \*   records it has listed, the one it works on
    last,       \* per fence: the last ENTER or EXIT in geofence_events
    sent,       \* per fence: the last ENTER or EXIT the producer has accepted
    twice,      \* history: fences with two ENTER or two EXIT rows in a row
    blind,      \* history: fences a position that was not evaluated would have had
                \*   looked at, and none has been since
    stale,      \* history: a DWELL overwrote a state that was not INSIDE
    crashes, expiries

redis == <<fence, aged>>
evaluator == <<epc, here, todo, at>>
checker == <<dpc, scan, found, due>>
events == <<last, sent, twice>>
device == <<engine, place, blind>>
counts == <<crashes, expiries>>
vars == <<device, redis, evaluator, checker, events, stale, counts>>

Init ==
    /\ engine = FALSE /\ place = None /\ blind = {}
    /\ fence = [f \in Fences |-> "OUTSIDE"] /\ aged = [f \in Fences |-> FALSE]
    /\ epc = "idle" /\ here = None /\ todo = {} /\ at = None
    /\ dpc = "idle" /\ scan = {} /\ found = {} /\ due = None
    /\ last = [f \in Fences |-> "EXIT"] /\ sent = [f \in Fences |-> "EXIT"]
    /\ twice = {} /\ stale = FALSE
    /\ crashes = 0 /\ expiries = 0
-----------------------------------------------------------------------------
(* The device.                                                             *)

\* Mutant: the fences of the old cell are not looked at.
CandidatesOfNewCell(old, new) == {f \in Fences : CellOf[new] \in Cover[f]}

\* The fences of the new cell and of the cell in the previous record, if any.
Candidates(old, new) ==
    {f \in Fences : \/ CellOf[new] \in Cover[f]
                    \/ old # None /\ CellOf[old] \in Cover[f]}

\* The loop of evaluate, for position p, with "rest" left of the candidates.
Proceed(p, rest) == /\ todo' = rest /\ at' = None
                    /\ epc' = IF rest = {} THEN "idle" ELSE "look"
                    /\ here' = IF rest = {} THEN None ELSE p

\* An event is accepted: its state is written and evaluate begins, in the thread
\* of the processor that has the device, with the cell of the record before.
Move(p) ==
    /\ engine /\ epc = "idle"
    /\ place' = p
    /\ Proceed(p, Candidates(place, p))
    /\ blind' = blind \ Candidates(place, p)
    /\ UNCHANGED <<engine, redis, checker, events, stale, counts>>

\* The processor is up before the engine and after it: an event it accepts then
\* is published to nobody.
MoveUnseen(p) ==
    /\ ~engine /\ epc = "idle"
    /\ place' = p
    /\ blind' = blind \cup Candidates(place, p)
    /\ UNCHANGED <<engine, redis, evaluator, checker, events, stale, counts>>

\* The device is silent for its time to live.  Fence states have none.
RecordExpires ==
    /\ place # None /\ expiries < MaxExpiries
    /\ place' = None
    /\ expiries' = expiries + 1
    /\ UNCHANGED <<engine, blind, redis, evaluator, checker, events, stale, crashes>>

\* A fence state comes past the threshold.  A pass of the checker judges by the
\* time at which it began: what passes while it scans, the next pass sees.
Age(f) ==
    /\ fence[f] = "INSIDE" /\ ~aged[f] /\ scan = {}
    /\ aged' = [aged EXCEPT ![f] = TRUE]
    /\ UNCHANGED <<device, fence, evaluator, checker, events, stale, counts>>
-----------------------------------------------------------------------------
(* The evaluator.                                                          *)

Inside(f) == here \in Area[f]

\* What an evaluation has to say of the fence at hand.
Event == IF Inside(at) THEN "ENTER" ELSE "EXIT"

\* Mutant: a device that dwells enters again.
CrossesFromDwell(f) == IF Inside(f) THEN fence[f] # "INSIDE" ELSE fence[f] # "OUTSIDE"

Crosses(f) == IF Inside(f) THEN fence[f] = "OUTSIDE" ELSE fence[f] # "OUTSIDE"

\* get_fence_state of the next candidate
Look ==
    /\ epc = "look"
    /\ \E f \in todo :
        IF Crosses(f)
        THEN todo' = todo \ {f} /\ at' = f /\ epc' = "hset" /\ here' = here
        ELSE Proceed(here, todo \ {f})
    /\ UNCHANGED <<device, redis, checker, events, stale, counts>>

\* set_fence_state
SetState ==
    /\ epc = "hset"
    /\ fence' = [fence EXCEPT ![at] = IF Inside(at) THEN "INSIDE" ELSE "OUTSIDE"]
    /\ aged' = [aged EXCEPT ![at] = FALSE]
    /\ epc' = "insert"
    /\ UNCHANGED <<device, here, todo, at, checker, events, stale, counts>>

\* insert_geofence_event
Insert ==
    /\ epc = "insert"
    /\ last' = [last EXCEPT ![at] = Event]
    /\ twice' = IF last[at] = Event THEN twice \cup {at} ELSE twice
    /\ epc' = "produce"
    /\ UNCHANGED <<device, redis, here, todo, at, checker, sent, stale, counts>>

\* Mutant: only entries are published.
ProduceEnters ==
    /\ epc = "produce"
    /\ sent' = IF Inside(at) THEN [sent EXCEPT ![at] = Event] ELSE sent
    /\ Proceed(here, todo)
    /\ UNCHANGED <<device, redis, checker, last, twice, stale, counts>>

\* produce hands the message to the producer, whose queue it may leave late, or
\* never: nobody waits for it, and no callback is given that would hear of it.
Produce ==
    /\ epc = "produce"
    /\ sent' = [sent EXCEPT ![at] = Event]
    /\ Proceed(here, todo)
    /\ UNCHANGED <<device, redis, checker, last, twice, stale, counts>>
-----------------------------------------------------------------------------
(* The dwell checker.                                                      *)

\* list_fence_states: SCAN ...
List ==
    /\ dpc = "idle"
    /\ scan' = Fences /\ found' = {}
    /\ dpc' = "scan"
    /\ UNCHANGED <<device, redis, evaluator, due, events, stale, counts>>

\* Mutant: the comparison with the threshold is the wrong way round.
ReadYoung ==
    /\ dpc = "scan"
    /\ \E f \in scan :
        /\ scan' = scan \ {f}
        /\ found' = IF fence[f] = "INSIDE" /\ ~aged[f] THEN found \cup {f} ELSE found
    /\ UNCHANGED <<device, redis, evaluator, dpc, due, events, stale, counts>>

\* ... and HGETALL of each key.  Whether the record is past the threshold is
\* decided by the entered_at read here.
Read ==
    /\ dpc = "scan"
    /\ \E f \in scan :
        /\ scan' = scan \ {f}
        /\ found' = IF fence[f] = "INSIDE" /\ aged[f] THEN found \cup {f} ELSE found
    /\ UNCHANGED <<device, redis, evaluator, dpc, due, events, stale, counts>>

\* The next record of the list, or the end of the pass.
Take ==
    /\ dpc = "scan" /\ scan = {}
    /\ \/ /\ found = {} /\ dpc' = "idle"
          /\ UNCHANGED <<found, due>>
       \/ \E f \in found : found' = found \ {f} /\ due' = f /\ dpc' = "hset"
    /\ UNCHANGED <<device, redis, evaluator, scan, events, stale, counts>>

\* set_fence_state writes DWELL whatever the state is by now.  (Its read of
\* entered_at before the HSET only carries over a time nobody reads in DWELL.)
SetDwell ==
    /\ dpc = "hset"
    /\ fence' = [fence EXCEPT ![due] = "DWELL"]
    /\ aged' = [aged EXCEPT ![due] = FALSE]
    /\ stale' = (stale \/ fence[due] # "INSIDE")
    /\ dpc' = "report"
    /\ UNCHANGED <<device, evaluator, scan, found, due, events, counts>>

\* The DWELL row and message; "last" and "sent" are about ENTER and EXIT.
Report ==
    /\ dpc = "report"
    /\ dpc' = "scan" /\ due' = None
    /\ UNCHANGED <<device, redis, evaluator, scan, found, events, stale, counts>>
-----------------------------------------------------------------------------
\* The process dies: it is killed, or an insert or a produce throws out of its
\* thread.  The event in hand comes again, and the sequence guard refuses it.
Crash ==
    /\ crashes < MaxCrashes
    /\ engine' = FALSE
    /\ epc' = "idle" /\ here' = None /\ todo' = {} /\ at' = None
    /\ dpc' = "idle" /\ scan' = {} /\ found' = {} /\ due' = None
    /\ crashes' = crashes + 1
    /\ UNCHANGED <<place, blind, redis, events, stale, expiries>>

\* GeofenceEngine::start and stop.  The processor is stopped before an engine is
\* started again; an evaluation that has begun goes on when the handler is cleared.
EngineStarts ==
    /\ ~engine /\ epc = "idle"
    /\ engine' = TRUE
    /\ UNCHANGED <<place, blind, redis, evaluator, checker, events, stale, counts>>

EngineStops ==
    /\ engine /\ engine' = FALSE
    /\ UNCHANGED <<place, blind, redis, evaluator, checker, events, stale, counts>>

Evaluate == Look \/ SetState \/ Insert \/ Produce
Check == List \/ Read \/ Take \/ SetDwell \/ Report

Next == \/ \E p \in Places : Move(p) \/ MoveUnseen(p)
        \/ \E f \in Fences : Age(f)
        \/ Evaluate \/ Check \/ RecordExpires
        \/ EngineStarts \/ EngineStops \/ Crash

Spec == Init /\ [][Next]_vars

\* A state that stays INSIDE comes past the threshold.
TimePasses == \A f \in Fences : <>[](fence[f] = "INSIDE") => <>[]aged[f]

\* Both threads are scheduled; devices need not report.
FairSpec == Spec /\ WF_vars(Evaluate) /\ WF_vars(Check) /\ TimePasses
-----------------------------------------------------------------------------
(* Properties.                                                             *)

TypeOK ==
    /\ place \in Places \cup {None} /\ here \in Places \cup {None}
    /\ fence \in [Fences -> {"OUTSIDE", "INSIDE", "DWELL"}]
    /\ aged \in [Fences -> BOOLEAN]
    /\ epc \in {"idle", "look", "hset", "insert", "produce"}
    /\ todo \subseteq Fences /\ at \in Fences \cup {None}
    /\ dpc \in {"idle", "scan", "hset", "report"}
    /\ scan \subseteq Fences /\ found \subseteq Fences /\ due \in Fences \cup {None}
    /\ last \in [Fences -> {"ENTER", "EXIT"}] /\ sent \in [Fences -> {"ENTER", "EXIT"}]
    /\ twice \subseteq Fences /\ blind \subseteq Fences
    /\ stale \in BOOLEAN /\ engine \in BOOLEAN
    /\ crashes \in Nat /\ expiries \in Nat

\* No death between a state and its event, no DWELL over another state.
Undisturbed == crashes = 0 /\ ~stale

\* I5 of the architecture: between evaluations the state of every fence is what
\* the persisted position says, fences of cells the device has left included,
\* until a record expires and with it the cell to leave.  The fences that a
\* position would have had looked at while the engine was off keep their states
\* until a position brings the evaluator to them again.
StateFollowsPlace ==
    Undisturbed /\ expiries = 0 /\ epc = "idle" /\ place # None =>
        \A f \in Fences \ blind : fence[f] # "OUTSIDE" <=> place \in Area[f]

\* No fence is entered twice, or left twice, in a row in the audit log, with the
\* dwell checker writing the same states and device records expiring, except
\* for one fence for each death between a state and its row.
EventsAlternate == ~stale => Cardinality(twice) <= crashes

\* The fences of which the producer was last given something else than their
\* state, the one the evaluator is just at work on apart.
Misreported == {f \in Fences : /\ ~(at = f /\ epc \in {"insert", "produce"})
                               /\ ~(sent[f] = "ENTER" <=> fence[f] # "OUTSIDE")}

\* The last message handed to the producer for a fence is its state, engine on or
\* off, except for one fence for each death between a state and its message.  What
\* the producer then loses, consumers do not hear of: no code looks after it.
ReportsFollowStates == ~stale => Cardinality(Misreported) <= crashes

\* "transitions them to DWELL if they have been continuously inside the fence":
\* a DWELL is written over an INSIDE that is past the threshold.
DwellsInside == [][SetDwell => fence[due] = "INSIDE" /\ aged[due]]_vars

\* A device does not stay INSIDE for ever: it dwells or moves.
DwellComes == \A f \in Fences : []<>(fence[f] # "INSIDE")
=============================================================================
