--------------------------- MODULE Geofence_proofs ---------------------------
(***************************************************************************)
(* Proofs about Geofence, for any map of cells and fences.                 *)
(***************************************************************************)
EXTENDS Geofence, FiniteSetTheorems, TLAPS

USE DEF redis, evaluator, checker, events, device, counts

\* What the evaluator and the checker have at hand at each of their lines.
HandOK ==
    /\ epc = "idle" => todo = {}
    /\ epc # "idle" => here \in Places
    /\ epc \in {"hset", "insert", "produce"} => at \in Fences \ todo
    /\ dpc = "hset" => due \in Fences

TypeInv == TypeOK /\ HandOK

LEMMA TypeInit == Init => TypeInv
<1>. SUFFICES ASSUME Init PROVE TypeInv
  OBVIOUS
<1>1. /\ fence \in [Fences -> {"OUTSIDE", "INSIDE", "DWELL"}]
      /\ aged \in [Fences -> BOOLEAN]
      /\ last \in [Fences -> {"ENTER", "EXIT"}] /\ sent \in [Fences -> {"ENTER", "EXIT"}]
  BY DEF Init
<1>. QED BY <1>1 DEF Init, TypeInv, TypeOK, HandOK

LEMMA ProceedType ==
  ASSUME NEW p \in Places, NEW rest \in SUBSET Fences, Proceed(p, rest)
  PROVE  /\ epc' \in {"idle", "look"} /\ (epc' = "idle" => todo' = {})
         /\ epc' # "idle" => here' = p
         /\ todo' = rest /\ at' = None /\ here' \in {p, None}
  BY DEF Proceed

LEMMA TypeNext == TypeInv /\ [Next]_vars => TypeInv'
<1> SUFFICES ASSUME TypeInv, [Next]_vars PROVE TypeInv'
  OBVIOUS
<1> USE GeofenceAssumption DEF TypeInv, TypeOK, HandOK
<1>1. ASSUME NEW p \in Places, Move(p) PROVE TypeInv'
  <2>1. Candidates(place, p) \in SUBSET Fences
    BY DEF Candidates
  <2>2. Proceed(p, Candidates(place, p))
    BY <1>1 DEF Move
  <2>. QED BY <1>1, <2>1, <2>2, ProceedType DEF Move
<1>2. ASSUME NEW f \in Fences, Age(f) PROVE TypeInv'
  BY <1>2 DEF Age
<1>3. CASE Look
  <2>1. PICK f \in todo :
           \/ /\ todo' = todo \ {f} /\ at' = f /\ epc' = "hset" /\ here' = here
           \/ Proceed(here, todo \ {f})
    BY <1>3 DEF Look
  <2>2. here \in Places /\ todo \ {f} \in SUBSET Fences
    BY <1>3 DEF Look
  <2>3. CASE todo' = todo \ {f} /\ at' = f /\ epc' = "hset" /\ here' = here
    BY <1>3, <2>2, <2>3 DEF Look
  <2>4. CASE Proceed(here, todo \ {f})
    BY <1>3, <2>2, <2>4, ProceedType DEF Look
  <2>. QED BY <2>1, <2>3, <2>4
<1>4. CASE SetState
  BY <1>4 DEF SetState
<1>5. CASE Insert
  BY <1>5 DEF Insert, Event
<1>6. CASE Produce
  <2>1. here \in Places /\ todo \in SUBSET Fences /\ Proceed(here, todo)
    BY <1>6 DEF Produce
  <2>. QED BY <1>6, <2>1, ProceedType DEF Produce, Event
<1>7. CASE Check
  <2>1. CASE List
    BY <2>1 DEF List
  <2>2. CASE Read
    BY <2>2 DEF Read
  <2>3. CASE Take
    BY <2>3 DEF Take
  <2>4. CASE SetDwell
    BY <2>4 DEF SetDwell
  <2>5. CASE Report
    BY <2>5 DEF Report
  <2>. QED BY <1>7, <2>1, <2>2, <2>3, <2>4, <2>5 DEF Check
<1>8. CASE RecordExpires \/ EngineStarts \/ EngineStops
  <2>1. CASE RecordExpires
    BY <2>1 DEF RecordExpires
  <2>2. CASE EngineStarts \/ EngineStops
    BY <2>2 DEF EngineStarts, EngineStops
  <2>. QED BY <1>8, <2>1, <2>2
<1>9. CASE Crash
  <2>1. /\ crashes' = crashes + 1 /\ engine' = FALSE
        /\ epc' = "idle" /\ here' = None /\ todo' = {} /\ at' = None
        /\ dpc' = "idle" /\ scan' = {} /\ found' = {} /\ due' = None
        /\ UNCHANGED <<place, blind, fence, aged, last, sent, twice, stale, expiries>>
    BY <1>9 DEF Crash
  <2>2. crashes' \in Nat
    BY <2>1
  <2>. QED BY <2>1, <2>2
<1>10. CASE UNCHANGED vars
  BY <1>10 DEF vars
<1>11. ASSUME NEW p \in Places, MoveUnseen(p) PROVE TypeInv'
  <2>1. Candidates(place, p) \subseteq Fences
    BY DEF Candidates
  <2>. QED BY <1>11, <2>1 DEF MoveUnseen
<1>. QED
  BY <1>1, <1>2, <1>3, <1>4, <1>5, <1>6, <1>7, <1>8, <1>9, <1>10, <1>11
  DEF Next, Evaluate

LEMMA TypeInvariant == Spec => []TypeInv
  BY TypeInit, TypeNext, PTL DEF Spec

\* The fence states, the evaluator, the checker and their events are well typed
\* in every reachable state.
THEOREM TypeCorrect == Spec => []TypeOK
  BY TypeInvariant, PTL DEF TypeInv
-----------------------------------------------------------------------------
(* Until a DWELL is written over another state, every death of the process *)
(* leaves at most one fence of which the log, and one of which the message *)
(* last produced, does not agree with the state.                           *)

\* What Look found still holds when SetState writes, for the checker only turns
\* INSIDE into DWELL; afterwards the state is what the position says.
AtOK ==
    /\ epc = "hset" => (Inside(at) <=> fence[at] = "OUTSIDE")
    /\ epc \in {"insert", "produce"} => (Inside(at) <=> fence[at] # "OUTSIDE")

LogOK(f) ==
    IF at = f /\ epc = "insert" THEN last[f] = "ENTER" <=> fence[f] = "OUTSIDE"
                                ELSE last[f] = "ENTER" <=> fence[f] # "OUTSIDE"

\* The fences with a doubled row in the log, or that the next row will double.
Doubled == twice \cup {f \in Fences : ~LogOK(f)}

ReportOK(f) ==
    \/ at = f /\ epc \in {"insert", "produce"}
    \/ sent[f] = "ENTER" <=> fence[f] # "OUTSIDE"

\* A fence that is not a candidate covers neither the old cell nor the new one,
\* so the device was and is outside it; a fence that would have been one of an
\* evaluation that was not made is blind.
PlaceOK ==
    /\ epc # "idle" => place = here
    /\ \A f \in Fences : \/ f \in todo \cup blind
                         \/ at = f /\ epc = "hset"
                         \/ fence[f] # "OUTSIDE" <=> place \in Area[f]

AtMost(S, n) == IsFiniteSet(S) /\ Cardinality(S) <= n

AgreeInv == /\ AtOK
            /\ AtMost(Doubled, crashes)
            /\ AtMost(Misreported, crashes)
            /\ crashes = 0 /\ expiries = 0 => PlaceOK

LEMMA AtMostStays ==
  ASSUME NEW S, NEW T, NEW n \in Nat, AtMost(S, n), T \subseteq S
  PROVE  AtMost(T, n)
<1>1. IsFiniteSet(T) /\ Cardinality(T) <= Cardinality(S)
  BY FS_Subset DEF AtMost
<1>2. Cardinality(S) \in Nat /\ Cardinality(T) \in Nat
  BY <1>1, FS_CardinalityType DEF AtMost
<1>. QED BY <1>1, <1>2 DEF AtMost

LEMMA AtMostOneMore ==
  ASSUME NEW S, NEW T, NEW n \in Nat, NEW x, AtMost(S, n), T \subseteq S \cup {x}
  PROVE  AtMost(T, n + 1)
<1>1. /\ IsFiniteSet(S \cup {x})
      /\ Cardinality(S \cup {x}) = Cardinality(S) \/ Cardinality(S \cup {x}) = Cardinality(S) + 1
  BY FS_AddElement DEF AtMost
<1>2. Cardinality(S) \in Nat
  BY FS_CardinalityType DEF AtMost
<1>3. AtMost(S \cup {x}, n + 1)
  BY <1>1, <1>2 DEF AtMost
<1>. QED BY <1>3, AtMostStays

LEMMA AgreeInit == Init => AgreeInv
<1>. SUFFICES ASSUME Init PROVE AgreeInv
  OBVIOUS
<1>1. \A f \in Fences : None \notin Area[f]
  BY GeofenceAssumption
<1>2. Doubled = {} /\ Misreported = {}
  BY DEF Init, Doubled, LogOK, Misreported
<1>3. AtMost({}, crashes)
  BY FS_EmptySet DEF Init, AtMost
<1>. QED BY <1>1, <1>2, <1>3 DEF Init, AgreeInv, AtOK, PlaceOK

\* The device was and is outside the fences that are not candidates.
LEMMA NoCandidate ==
  ASSUME NEW p \in Places, place \in Places \cup {None}, NEW f \in Fences \ Candidates(place, p)
  PROVE  p \notin Area[f] /\ place \notin Area[f]
<1>1. CellOf[p] \notin Cover[f] /\ (place # None => CellOf[place] \notin Cover[f])
  BY DEF Candidates
<1>2. Area[f] \subseteq Places /\ None \notin Area[f]
  BY GeofenceAssumption
<1>. QED BY <1>1, <1>2, GeofenceAssumption

LEMMA MovePlace ==
  ASSUME TypeInv, PlaceOK, NEW p \in Places, Move(p) \/ MoveUnseen(p)
  PROVE  PlaceOK'
<1>1. \A f \in Fences \ Candidates(place, p) : p \notin Area[f] /\ place \notin Area[f]
  BY NoCandidate DEF TypeInv, TypeOK
<1>2. /\ epc = "idle" /\ todo = {} /\ place' = p /\ fence' = fence
      /\ epc' # "idle" => here' = p
      /\ epc' # "hset" /\ blind \subseteq blind' \cup todo'
      /\ Candidates(place, p) \subseteq blind' \cup todo'
  BY DEF Move, MoveUnseen, Proceed, TypeInv, HandOK
<1>3. \A f \in Fences : f \in todo' \cup blind' \/ (fence'[f] # "OUTSIDE" <=> place' \in Area[f])
  BY <1>1, <1>2 DEF PlaceOK
<1>. QED BY <1>2, <1>3 DEF PlaceOK

\* A step that does not kill the process and after which every fence that agreed
\* with the log and the topic still does leaves no more to count.
LEMMA AgreeStays ==
  ASSUME AgreeInv, crashes \in Nat, UNCHANGED crashes,
         twice' \subseteq Doubled,
         \A f \in Fences : (LogOK(f) => LogOK(f)') /\ (ReportOK(f) => ReportOK(f)')
  PROVE  AtMost(Doubled, crashes)' /\ AtMost(Misreported, crashes)'
<1>1. Doubled' \subseteq Doubled
  BY DEF Doubled
<1>2. Misreported' \subseteq Misreported
  BY DEF Misreported, ReportOK
<1>3. AtMost(Doubled', crashes) /\ AtMost(Misreported', crashes)
  BY <1>1, <1>2, AtMostStays DEF AgreeInv
<1>. QED BY <1>3 DEF AtMost

LEMMA AgreeNext ==
  ASSUME ~stale', ~stale, TypeInv, AgreeInv, [Next]_vars
  PROVE  AgreeInv'
<1>0. /\ fence \in [Fences -> {"OUTSIDE", "INSIDE", "DWELL"}]
      /\ last \in [Fences -> {"ENTER", "EXIT"}] /\ sent \in [Fences -> {"ENTER", "EXIT"}]
      /\ todo \subseteq Fences /\ expiries \in Nat /\ crashes \in Nat
      /\ HandOK
  BY DEF TypeInv, TypeOK
<1>a. twice \subseteq Doubled
  BY DEF Doubled
<1>1. ASSUME NEW p \in Places, Move(p) \/ MoveUnseen(p) PROVE AgreeInv'
  <2>1. /\ epc = "idle" /\ epc' \in {"idle", "look"}
        /\ UNCHANGED <<fence, last, sent, twice, crashes, expiries>>
    BY <1>1 DEF Move, MoveUnseen, Proceed
  <2>2. crashes' = 0 /\ expiries' = 0 => PlaceOK'
    BY <1>1, <2>1, MovePlace DEF AgreeInv
  <2>3. \A f \in Fences : (LogOK(f) => LogOK(f)') /\ (ReportOK(f) => ReportOK(f)')
    BY <2>1 DEF LogOK, ReportOK
  <2>. QED BY <1>0, <1>a, <2>1, <2>2, <2>3, AgreeStays DEF AgreeInv, AtOK
<1>2. ASSUME NEW f \in Fences, Age(f) PROVE AgreeInv'
  <2>1. UNCHANGED <<place, blind, here, fence, epc, todo, at, last, sent, twice, crashes, expiries>>
    BY <1>2 DEF Age
  <2>2. \A g \in Fences : (LogOK(g) => LogOK(g)') /\ (ReportOK(g) => ReportOK(g)')
    BY <2>1 DEF LogOK, ReportOK
  <2>. QED BY <1>0, <1>a, <2>1, <2>2, AgreeStays DEF AgreeInv, AtOK, PlaceOK, Inside
<1>3. CASE Look
  <2>1. /\ epc = "look"
        /\ UNCHANGED <<place, blind, fence, last, sent, twice, crashes, expiries>>
        /\ here \in Places
    BY <1>0, <1>3 DEF Look, HandOK
  <2>2. PICK f \in todo :
           \/ Crosses(f) /\ todo' = todo \ {f} /\ at' = f /\ epc' = "hset" /\ here' = here
           \/ ~Crosses(f) /\ Proceed(here, todo \ {f})
    BY <1>3 DEF Look
  <2>3. Crosses(f) <=> (Inside(f) <=> fence[f] = "OUTSIDE")
    BY <1>0 DEF Crosses
  <2>4. /\ todo' = todo \ {f} /\ epc' \in {"hset", "idle", "look"}
        /\ epc' # "idle" => here' = here
        /\ epc' = "hset" <=> Crosses(f)
        /\ epc' = "hset" => at' = f
    BY <2>2 DEF Proceed
  <2>5. AtOK'
    BY <2>1, <2>3, <2>4 DEF AtOK, Inside
  <2>6. PlaceOK => PlaceOK'
    BY <2>1, <2>3, <2>4 DEF PlaceOK, Inside
  <2>7. \A g \in Fences : (LogOK(g) => LogOK(g)') /\ (ReportOK(g) => ReportOK(g)')
    BY <2>1, <2>4 DEF LogOK, ReportOK
  <2>. QED BY <1>0, <1>a, <2>1, <2>5, <2>6, <2>7, AgreeStays DEF AgreeInv
<1>4. CASE SetState
  <2>1. /\ epc = "hset" /\ epc' = "insert" /\ at \in Fences
        /\ UNCHANGED <<place, blind, here, todo, at, last, sent, twice, crashes, expiries>>
        /\ fence' = [fence EXCEPT ![at] = IF Inside(at) THEN "INSIDE" ELSE "OUTSIDE"]
    BY <1>0, <1>4 DEF SetState, HandOK
  <2>2. /\ fence'[at] # "OUTSIDE" <=> Inside(at)
        /\ \A f \in Fences \ {at} : fence'[f] = fence[f]
        /\ Inside(at)' <=> Inside(at)
    BY <1>0, <2>1 DEF Inside
  <2>3. AtOK'
    BY <2>1, <2>2 DEF AtOK
  <2>4. \A f \in Fences : (LogOK(f) => LogOK(f)') /\ (ReportOK(f) => ReportOK(f)')
    BY <2>1, <2>2 DEF AgreeInv, AtOK, LogOK, ReportOK
  <2>5. PlaceOK => PlaceOK'
    BY <2>1, <2>2 DEF PlaceOK, Inside
  <2>. QED BY <1>0, <1>a, <2>1, <2>3, <2>4, <2>5, AgreeStays DEF AgreeInv
<1>5. CASE Insert
  <2>1. /\ epc = "insert" /\ epc' = "produce" /\ at \in Fences
        /\ UNCHANGED <<place, blind, here, fence, todo, at, sent, crashes, expiries>>
        /\ last' = [last EXCEPT ![at] = Event]
        /\ twice' = IF last[at] = Event THEN twice \cup {at} ELSE twice
    BY <1>0, <1>5 DEF Insert, HandOK
  <2>2. last[at] = Event => ~LogOK(at)
    BY <1>0, <2>1 DEF AgreeInv, AtOK, LogOK, Event
  <2>3. twice' \subseteq Doubled
    BY <1>a, <2>1, <2>2 DEF Doubled
  <2>4. \A f \in Fences : (LogOK(f) => LogOK(f)') /\ (ReportOK(f) => ReportOK(f)')
    BY <1>0, <2>1 DEF AgreeInv, AtOK, LogOK, ReportOK, Event
  <2>. QED BY <1>0, <2>1, <2>3, <2>4, AgreeStays DEF AgreeInv, AtOK, PlaceOK, Inside
<1>6. CASE Produce
  <2>1. /\ epc = "produce" /\ epc' \in {"idle", "look"} /\ at \in Fences
        /\ UNCHANGED <<place, blind, fence, todo, last, twice, crashes, expiries>>
        /\ epc' # "idle" => here' = here
        /\ sent' = [sent EXCEPT ![at] = Event]
    BY <1>0, <1>6 DEF Produce, Proceed, HandOK
  <2>2. \A f \in Fences : (LogOK(f) => LogOK(f)') /\ (ReportOK(f) => ReportOK(f)')
    BY <1>0, <2>1 DEF AgreeInv, AtOK, LogOK, ReportOK, Event
  <2>3. PlaceOK => PlaceOK'
    BY <2>1 DEF PlaceOK
  <2>. QED BY <1>0, <1>a, <2>1, <2>2, <2>3, AgreeStays DEF AgreeInv, AtOK
<1>7. CASE SetDwell
  <2>1. /\ due \in Fences /\ fence[due] = "INSIDE"
        /\ fence' = [fence EXCEPT ![due] = "DWELL"]
        /\ UNCHANGED <<place, blind, here, epc, todo, at, last, sent, twice, crashes, expiries>>
    BY <1>0, <1>7 DEF SetDwell, HandOK
  <2>2. \A f \in Fences : fence'[f] = "OUTSIDE" <=> fence[f] = "OUTSIDE"
    BY <1>0, <2>1
  <2>3. AtOK'
    BY <1>0, <2>1, <2>2 DEF AgreeInv, AtOK, HandOK, Inside
  <2>4. PlaceOK => PlaceOK'
    BY <2>1, <2>2 DEF PlaceOK
  <2>5. \A f \in Fences : (LogOK(f) => LogOK(f)') /\ (ReportOK(f) => ReportOK(f)')
    BY <2>1, <2>2 DEF LogOK, ReportOK
  <2>. QED BY <1>0, <1>a, <2>1, <2>3, <2>4, <2>5, AgreeStays DEF AgreeInv
<1>8. CASE \/ List \/ Read \/ Take \/ Report \/ EngineStarts \/ EngineStops
         \/ UNCHANGED vars
  <2>1. UNCHANGED <<place, blind, here, fence, epc, todo, at, last, sent, twice, crashes, expiries>>
    BY <1>8 DEF List, Read, Take, Report, EngineStarts, EngineStops, vars
  <2>2. \A f \in Fences : (LogOK(f) => LogOK(f)') /\ (ReportOK(f) => ReportOK(f)')
    BY <2>1 DEF LogOK, ReportOK
  <2>. QED BY <1>0, <1>a, <2>1, <2>2, AgreeStays DEF AgreeInv, AtOK, PlaceOK, Inside
<1>9. CASE RecordExpires
  <2>1. /\ expiries' # 0
        /\ UNCHANGED <<here, fence, epc, todo, at, last, sent, twice, crashes>>
    BY <1>0, <1>9 DEF RecordExpires
  <2>2. \A f \in Fences : (LogOK(f) => LogOK(f)') /\ (ReportOK(f) => ReportOK(f)')
    BY <2>1 DEF LogOK, ReportOK
  <2>. QED BY <1>0, <1>a, <2>1, <2>2, AgreeStays DEF AgreeInv, AtOK, Inside
<1>10. CASE Crash
  <2>1. /\ epc' = "idle" /\ crashes' = crashes + 1
        /\ UNCHANGED <<fence, last, sent, twice>>
    BY <1>10 DEF Crash
  <2>2. PICK x : x = at
    OBVIOUS
  <2>3. Doubled' \subseteq Doubled \cup {x} /\ Misreported' \subseteq Misreported \cup {x}
    BY <2>1, <2>2 DEF Doubled, LogOK, Misreported
  <2>4. AtMost(Doubled', crashes + 1) /\ AtMost(Misreported', crashes + 1)
    BY <1>0, <2>3, AtMostOneMore DEF AgreeInv
  <2>. QED BY <1>0, <2>1, <2>4 DEF AgreeInv, AtOK, AtMost
<1>. QED
  BY <1>1, <1>2, <1>3, <1>4, <1>5, <1>6, <1>7, <1>8, <1>9, <1>10
  DEF Next, Evaluate, Check

\* The invariant holds until the first overwritten state, crashes included.
UntilStale == TypeInv /\ (~stale => AgreeInv)

LEMMA StaleStays ==
  ASSUME TypeInv, [Next]_vars, ~stale'
  PROVE  ~stale
<1>1. UNCHANGED stale \/ stale' = (stale \/ fence[due] # "INSIDE")
  BY DEF Next, Move, MoveUnseen, Age, Evaluate, Look, SetState, Insert, Produce, Check,
     List, Read, Take, SetDwell, Report, RecordExpires, EngineStarts, EngineStops, Crash,
     vars
<1>. QED BY <1>1 DEF TypeInv, TypeOK

LEMMA AgreeInvariant == Spec => []UntilStale
<1>1. Init => UntilStale
  BY TypeInit, AgreeInit DEF UntilStale
<1>2. UntilStale /\ [Next]_vars => UntilStale'
  <2>. SUFFICES ASSUME UntilStale, [Next]_vars, ~stale' PROVE AgreeInv'
    BY TypeNext DEF UntilStale
  <2>1. TypeInv /\ ~stale
    BY StaleStays DEF UntilStale
  <2>. QED BY <2>1, AgreeNext DEF UntilStale
<1>. QED BY <1>1, <1>2, PTL DEF Spec

\* Between evaluations every fence state is what the persisted position says,
\* with the dwell checker at work and the engine stopped and started, until a crash,
\* an overwritten state or the expiry of the record; but for the fences a position
\* that was not evaluated would have had looked at, until one is looked at again.
THEOREM StatesFollow == Spec => []StateFollowsPlace
<1>1. UntilStale => StateFollowsPlace
  BY DEF UntilStale, TypeInv, HandOK, AgreeInv, PlaceOK, Undisturbed, StateFollowsPlace
<1>. QED BY <1>1, AgreeInvariant, PTL

\* The log has at most one fence entered or left twice in a row for each death
\* of the process, expired records included, until an overwritten state.
THEOREM LogAlternates == Spec => []EventsAlternate
<1>1. UntilStale => EventsAlternate
  <2>. SUFFICES ASSUME TypeInv, AgreeInv PROVE Cardinality(twice) <= crashes
    BY DEF UntilStale, EventsAlternate
  <2>. QED BY AtMostStays DEF TypeInv, TypeOK, AgreeInv, Doubled, AtMost
<1>. QED BY <1>1, AgreeInvariant, PTL

\* The last message the producer was given for a fence is its state, but for one
\* fence for each death of the process, until an overwritten state.
THEOREM ReportsAgree == Spec => []ReportsFollowStates
<1>1. UntilStale => ReportsFollowStates
  BY DEF UntilStale, AgreeInv, AtMost, ReportsFollowStates
<1>. QED BY <1>1, AgreeInvariant, PTL
=============================================================================
