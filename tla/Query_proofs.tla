---------------------------- MODULE Query_proofs ----------------------------
(***************************************************************************)
(* Proofs about Query, for any devices, cells, requests and interleaving   *)
(* with writers, expiry and cleanup, from the invariants of RedisState;    *)
(* and about the trips, for any history and any request.                   *)
(***************************************************************************)
EXTENDS Query, RedisState_proofs, FiniteSetTheorems, WellFoundedInduction

\* The least number of a set, the form in which the proofs below use induction
LEMMA LeastNumber ==
  ASSUME NEW T \in SUBSET Nat, T # {}
  PROVE  \E n \in T : \A m \in T : n <= m
<1>1. PICK n \in T : \A m \in T : ~(<<m, n>> \in OpToRel(<, Nat))
  <2>1. \E n \in T : \A m \in T : ~(<<m, n>> \in OpToRel(<, Nat))
    BY NatLessThanWellFounded, WFMin
  <2>. QED BY <2>1
<1>2. ASSUME NEW m \in T PROVE n <= m
  <2>1. n \in Nat /\ m \in Nat
    OBVIOUS
  <2>2. ~(m < n)
    BY <1>1, <2>1 DEF OpToRel
  <2>. QED BY <2>1, <2>2
<1>. QED BY <1>2

\* Counting, of each element of a finite set, those that precede it in a total order
\* numbers the elements in that order.
LEMMA RanksCount ==
  ASSUME NEW S, IsFiniteSet(S), NEW R,
         \A s \in S : <<s, s>> \notin R,
         \A s, t \in S : s # t => <<s, t>> \in R \/ <<t, s>> \in R,
         \A s, t, u \in S : <<s, t>> \in R /\ <<t, u>> \in R => <<s, u>> \in R,
         NEW rank, rank = [s \in S |-> Cardinality({t \in S : <<t, s>> \in R})]
  PROVE  /\ rank \in Bijection(S, 0..(Cardinality(S) - 1))
         /\ \A s, t \in S : <<s, t>> \in R <=> rank[s] < rank[t]
<1> DEFINE before(s) == {t \in S : <<t, s>> \in R}
           N == Cardinality(S)
<1>1. N \in Nat
  BY FS_CardinalityType
<1>2. \A s \in S : IsFiniteSet(before(s)) /\ Cardinality(before(s)) \in Nat
  BY FS_Subset, FS_CardinalityType
<1>3. rank \in [S -> Nat] /\ \A s \in S : rank[s] = Cardinality(before(s))
  BY <1>2
<1> HIDE DEF N
<1>4. ASSUME NEW s \in S, NEW t \in S, <<s, t>> \in R PROVE rank[s] < rank[t]
  <2>1. before(s) \subseteq before(t)
    BY <1>4
  <2>2. s \in before(t) /\ s \notin before(s)
    BY <1>4
  <2>3. Cardinality(before(s)) <= Cardinality(before(t))
        /\ Cardinality(before(s)) # Cardinality(before(t))
    BY <1>2, <2>1, <2>2, FS_Subset
  <2>4. rank[s] \in Nat /\ rank[t] \in Nat /\ rank[s] <= rank[t] /\ rank[s] # rank[t]
    BY <1>3, <2>3
  <2>. QED BY <2>4
<1>5. \A s \in S : rank[s] \in 0..(N - 1)
  <2> SUFFICES ASSUME NEW s \in S PROVE rank[s] \in 0..(N - 1)
    OBVIOUS
  <2>1. before(s) \subseteq S \ {s}
    OBVIOUS
  <2>2. IsFiniteSet(S \ {s}) /\ Cardinality(S \ {s}) = N - 1
    BY FS_RemoveElement DEF N
  <2>3. Cardinality(before(s)) <= Cardinality(S \ {s})
    <3> HIDE DEF before
    <3>. QED BY <2>1, <2>2, FS_Subset
  <2>4. rank[s] \in Nat /\ rank[s] <= N - 1
    <3>1. rank[s] \in Nat /\ rank[s] = Cardinality(before(s))
      BY <1>3
    <3>. QED BY <2>2, <2>3, <3>1
  <2>. QED BY <1>1, <2>4
<1>6. \A s, t \in S : rank[s] = rank[t] => s = t
  <2> SUFFICES ASSUME NEW s \in S, NEW t \in S, rank[s] = rank[t], s # t PROVE FALSE
    OBVIOUS
  <2>1. rank[s] \in Nat /\ rank[t] \in Nat
    BY <1>3
  <2>2. CASE <<s, t>> \in R
    <3>1. rank[s] < rank[t]
      BY <1>4, <2>2
    <3>. QED BY <2>1, <3>1
  <2>3. CASE <<t, s>> \in R
    <3>1. rank[t] < rank[s]
      BY <1>4, <2>3
    <3>. QED BY <2>1, <3>1
  <2>. QED BY <2>2, <2>3
<1>7. rank \in Bijection(S, 0..(N - 1))
  <2>1. rank \in Injection(S, 0..(N - 1))
    BY <1>3, <1>5, <1>6 DEF Injection, IsInjective
  <2>2. IsFiniteSet(0..(N - 1)) /\ Cardinality(0..(N - 1)) = N
    BY <1>1, FS_Interval
  <2>. QED BY <2>1, <2>2, FS_Injection DEF N, Bijection
<1>8. ASSUME NEW s \in S, NEW t \in S, rank[s] < rank[t] PROVE <<s, t>> \in R
  <2>1. rank[s] \in Nat /\ rank[t] \in Nat
    BY <1>3
  <2>2. s # t
    BY <1>8, <2>1
  <2>3. ~(<<t, s>> \in R)
    <3>1. <<t, s>> \in R => rank[t] < rank[s]
      BY <1>4
    <3>. QED BY <1>8, <2>1, <3>1
  <2>. QED BY <2>2, <2>3
<1>. QED BY <1>4, <1>7, <1>8 DEF N
-----------------------------------------------------------------------------
(* The answer of a search.                                                 *)

LEMMA NearerOrder ==
  ASSUME NEW s \in Entries, NEW t \in Entries
  PROVE  /\ ~Nearer(s, s)
         /\ Nearer(s, t) \/ Nearer(t, s) \/ s.dev = t.dev
         /\ \A u \in Entries : Nearer(u, s) /\ Nearer(s, t) => Nearer(u, t)
<1>1. \A u \in Entries : Dist[u.cell] \in Nat /\ Id[u.dev] \in Nat /\ u.dev \in Devices
  BY QueryAssumption DEF Entries
<1>2. Id[s.dev] = Id[t.dev] => s.dev = t.dev
  BY <1>1, QueryAssumption
<1>. QED BY <1>1, <1>2 DEF Nearer

\* Cutting a set of entries of different devices to its n nearest leaves exactly n,
\* each of them nearer than what is cut off.
LEMMA NearestIsFull ==
  ASSUME NEW S \in SUBSET Entries, IsFiniteSet(S),
         \A s, t \in S : s.dev = t.dev => s = t,
         NEW n \in Nat, NEW e \in S, e \notin Nearest(S, n)
  PROVE  /\ Cardinality(Nearest(S, n)) = n
         /\ \A s \in Nearest(S, n) : Nearer(s, e)
<1> DEFINE R == {st \in S \X S : Nearer(st[1], st[2])}
           N == Cardinality(S)
           rank == [s \in S |-> Cardinality({t \in S : <<t, s>> \in R})]
           near == [s \in Nearest(S, n) |-> rank[s]]
<1>1. N \in Nat
  BY FS_CardinalityType
<1>2. \A s, t \in S : <<s, t>> \in R <=> Nearer(s, t)
  OBVIOUS
<1>3. /\ \A s \in S : <<s, s>> \notin R
      /\ \A s, t \in S : s # t => <<s, t>> \in R \/ <<t, s>> \in R
      /\ \A s, t, u \in S : <<s, t>> \in R /\ <<t, u>> \in R => <<s, u>> \in R
  <2> HIDE DEF R
  <2>. QED BY <1>2, NearerOrder
<1>4. /\ rank \in Bijection(S, 0..(N - 1))
      /\ \A s, t \in S : Nearer(s, t) <=> rank[s] < rank[t]
  <2> HIDE DEF R
  <2>. QED BY <1>2, <1>3, RanksCount
<1>5. \A s \in S : rank[s] = Cardinality({t \in S : Nearer(t, s)})
  <2>1. \A s \in S : {t \in S : <<t, s>> \in R} = {t \in S : Nearer(t, s)}
    <3> HIDE DEF R
    <3>. QED BY <1>2
  <2>. QED BY <2>1
<1> HIDE DEF R, rank, N
<1>6. \A s \in S : rank[s] \in 0..(N - 1)
  BY <1>4 DEF Bijection, Injection
<1>7. \A s, t \in S : rank[s] = rank[t] => s = t
  BY <1>4 DEF Bijection, Injection, IsInjective
<1>8. \A s \in S : s \in Nearest(S, n) <=> rank[s] < n
  BY <1>5 DEF Nearest
<1>9. n <= rank[e] /\ n \in 0..(N - 1)
  BY <1>1, <1>6, <1>8
<1>10. near \in Bijection(Nearest(S, n), 0..(n - 1))
  <2>1. Nearest(S, n) \subseteq S
    BY DEF Nearest
  <2>2. near \in [Nearest(S, n) -> 0..(n - 1)]
    BY <1>6, <1>8, <2>1
  <2>3. \A s, t \in Nearest(S, n) : near[s] = near[t] => s = t
    BY <1>7, <2>1
  <2>4. ASSUME NEW i \in 0..(n - 1) PROVE \E s \in Nearest(S, n) : near[s] = i
    <3>1. i \in 0..(N - 1) /\ i < n
      BY <1>1, <1>9
    <3>2. PICK s \in S : rank[s] = i
      BY <1>4, <3>1 DEF Bijection, Surjection
    <3>. QED BY <1>8, <3>1, <3>2
  <2>. QED BY <2>2, <2>3, <2>4 DEF Bijection, Injection, IsInjective, Surjection
<1>11. Cardinality(Nearest(S, n)) = n
  <2>1. IsFiniteSet(Nearest(S, n))
    BY FS_Subset DEF Nearest
  <2>2. Cardinality(0..(n - 1)) = n
    BY FS_Interval
  <2>. QED BY <1>10, <2>1, <2>2, FS_Bijection DEF ExistsBijection
<1>12. \A s \in Nearest(S, n) : Nearer(s, e)
  <2> SUFFICES ASSUME NEW s \in Nearest(S, n) PROVE Nearer(s, e)
    OBVIOUS
  <2>1. s \in S
    BY DEF Nearest
  <2>2. rank[s] < rank[e]
    BY <1>6, <1>8, <1>9, <2>1
  <2>. QED BY <1>4, <2>1, <2>2
<1>. QED BY <1>11, <1>12
-----------------------------------------------------------------------------
(* A search and the store.                                                 *)

\* What RedisState keeps, whoever reads
StoreOK == TypeInv /\ SoundOK /\ CompleteOK

LEMMA StoreInit == QueryInit => StoreOK
<1> SUFFICES ASSUME QueryInit PROVE StoreOK
  OBVIOUS
<1> USE NoneAssumption DEF QueryInit
<1>1. TypeInv
  BY RedisAssumption DEF TypeInv, TypeOK, WriterOK, CleanerOK
<1>2. SoundOK
  BY DEF SoundOK
<1>3. CompleteOK
  <2>1. \A d \in Devices : rec[d] # None => rec[d].cell \in Cells
    BY DEF Records
  <2>2. Unlisted = {}
    BY <2>1 DEF Unlisted, Indexed
  <2>. QED BY <2>2, FS_EmptySet DEF CompleteOK, VictimOK, AtMost
<1>. QED BY <1>1, <1>2, <1>3 DEF StoreOK

\* The reader only reads.
LEMMA ReaderReads == QueryNext => [Next]_vars
  BY DEF QueryNext, Search, Ask, ReadCell, CellsRead, ReadState, Answer, Meanwhile

LEMMA StoreNext ==
  ASSUME Affinity, StoreOK, [QueryNext]_queryVars
  PROVE  StoreOK'
<1>1. [Next]_vars
  BY ReaderReads DEF queryVars
<1>. QED BY <1>1, TypeNext, SoundNext, CompleteNext DEF StoreOK

\* With one writer per device, searching leaves the index as the writers promise.
LEMMA StoreKept == ASSUME Affinity PROVE QuerySpec => []StoreOK
<1>1. StoreOK /\ [QueryNext]_queryVars => StoreOK'
  BY StoreNext
<1>. QED BY StoreInit, <1>1, PTL DEF QuerySpec

LEMMA QueryTypeNext ==
  ASSUME StoreOK, QueryTypeOK, [QueryNext]_queryVars
  PROVE  QueryTypeOK'
<1> USE DEF QueryTypeOK
<1>1. CASE Ask
  BY <1>1 DEF Ask, SearchCells, GridDisk
<1>2. CASE ReadCell
  BY <1>2 DEF ReadCell, StoreOK, TypeInv, TypeOK
<1>3. CASE CellsRead
  BY <1>3 DEF CellsRead
<1>4. CASE ReadState
  <2>1. PICK d \in unread :
          /\ unread' = unread \ {d}
          /\ found' = found \cup IF rec[d] = None THEN {} ELSE {Entry(d)}
    BY <1>4 DEF ReadState
  <2>2. d \in Devices /\ (rec[d] # None => Entry(d) \in Entries)
    BY <2>1 DEF Entries, Entry, StoreOK, TypeInv, TypeOK, Records
  <2>3. found' \subseteq Entries /\ unread' \subseteq ids
    BY <2>1, <2>2
  <2>. QED BY <1>4, <2>3 DEF ReadState
<1>5. CASE Answer
  BY <1>5 DEF Answer, Answered
<1>6. CASE Meanwhile
  BY <1>6 DEF Meanwhile, search
<1>7. CASE UNCHANGED queryVars
  BY <1>7 DEF queryVars, search
<1>. QED BY <1>1, <1>2, <1>3, <1>4, <1>5, <1>6, <1>7 DEF QueryNext, Search

\* Every entry of an answer is a record a device can have.
THEOREM QueryTypeCorrect == ASSUME Affinity PROVE QuerySpec => []QueryTypeOK
<1>1. QueryInit => QueryTypeOK
  BY DEF QueryInit, QueryTypeOK
<1>2. StoreOK /\ QueryTypeOK /\ [QueryNext]_queryVars => QueryTypeOK'
  BY QueryTypeNext
<1>. QED BY StoreKept, <1>1, <1>2, PTL DEF QuerySpec
-----------------------------------------------------------------------------
(* The devices that stand still.                                           *)

\* Every candidate is looked up once, and what was read of a device that stands
\* still is what it is.
ReadOK ==
    /\ IsFiniteSet(found) /\ \A s \in found : s.dev \in ids \ unread
    /\ \A s, t \in found : s.dev = t.dev => s = t
    /\ pc # "states" => unread = {} /\ found = {}
    /\ pc = "idle" => still = {}
    /\ \A d \in still : Settled(d)
    /\ \A d \in still, s \in found : s.dev = d => rec[d] # None /\ s = Entry(d)
    /\ pc = "states" => \A d \in still : d \in ids \ unread /\ rec[d] # None => Entry(d) \in found

\* A device that stands still, in the set of a cell of the search, is a candidate, or
\* that cell has still to be read.
CandidateOK ==
    /\ pc = "states" => left = {}
    /\ pc # "idle" => \A d \in still :
        rec[d] # None /\ rec[d].cell \in SearchCells(ask) /\ d \in cells[rec[d].cell]
            => d \in ids \/ rec[d].cell \in left

LEMMA ReadNext ==
  ASSUME StoreOK, QueryTypeOK, ReadOK, [QueryNext]_queryVars
  PROVE  ReadOK'
<1> USE DEF QueryTypeOK, ReadOK
<1>1. CASE Ask
  BY <1>1, FS_EmptySet DEF Ask, vars, redis, writer, Settled
<1>2. CASE ReadCell \/ CellsRead
  BY <1>2 DEF ReadCell, CellsRead, vars, redis, writer, Settled, Entry
<1>3. CASE ReadState
  <2>1. PICK d \in unread :
          /\ unread' = unread \ {d}
          /\ found' = found \cup IF rec[d] = None THEN {} ELSE {Entry(d)}
    BY <1>3 DEF ReadState
  <2>2. /\ pc = "states" /\ UNCHANGED <<pc, ids, still, rec, job>>
    BY <1>3 DEF ReadState, vars, redis, writer
  <2>3. Entry(d).dev = d /\ \A c \in Devices : Entry(c)' = Entry(c)
    BY <2>2 DEF Entry
  <2>4. IsFiniteSet(found')
    <3>1. found' = found \/ found' = found \cup {Entry(d)}
      BY <2>1
    <3>. QED BY <3>1, FS_AddElement
  <2>5. \A s \in found' : s \in found \/ (rec[d] # None /\ s = Entry(d))
    BY <2>1
  <2>6. d \in Devices /\ \A s \in found : s.dev # d
    BY <2>1
  <2>7. \A c \in still : Settled(c)'
    BY <2>2 DEF Settled
  <2>8. \A s \in found' : s.dev \in ids \ unread'
    BY <2>1, <2>3, <2>5
  <2>9. \A s, t \in found' : s.dev = t.dev => s = t
    BY <2>3, <2>5, <2>6
  <2>10. \A c \in still, s \in found' : s.dev = c => rec[c] # None /\ s = Entry(c)
    BY <2>3, <2>5
  <2>11. \A c \in still : c \in ids \ unread' /\ rec[c] # None => Entry(c) \in found'
    BY <2>1, <2>2
  <2>. QED BY <2>2, <2>3, <2>4, <2>7, <2>8, <2>9, <2>10, <2>11
<1>4. CASE Answer
  BY <1>4, FS_EmptySet DEF Answer, Answered
<1>5. CASE Meanwhile
  <2>1. \A d \in still' : d \in still /\ rec'[d] = rec[d] /\ Entry(d)' = Entry(d) /\ Settled(d)'
    BY <1>5 DEF Meanwhile, Entry
  <2>. QED BY <1>5, <2>1 DEF Meanwhile, search
<1>6. CASE UNCHANGED queryVars
  BY <1>6 DEF queryVars, vars, redis, writer, search, Settled, Entry
<1>. QED BY <1>1, <1>2, <1>3, <1>4, <1>5, <1>6 DEF QueryNext, Search

\* Nobody adds a device that stands still to a set.
LEMMA OnlyWritersAdd ==
  ASSUME TypeInv, Next, NEW d \in Devices, Settled(d), NEW c \in Cells, d \in cells'[c]
  PROVE  d \in cells[c]
<1> USE DEF TypeInv, TypeOK, redis
<1>1. ASSUME NEW w \in Writers, Srem(w) PROVE d \in cells[c]
  BY <1>1 DEF Srem
<1>2. ASSUME NEW w \in Writers, Sadd(w) PROVE d \in cells[c]
  <2>1. job[w] # None /\ job[w].dev # d
    BY <1>2, RecordIsNotNone DEF Sadd, WriterOK, Settled
  <2>. QED BY <1>2, <2>1 DEF Sadd
<1>3. CASE RemoveMember
  BY <1>3 DEF RemoveMember
<1>4. UNCHANGED cells \/ RemoveMember \/ \E w \in Writers : Srem(w) \/ Sadd(w)
  BY Zenon DEF Next, Update, Begin, Guard, Read, Hset, Expire, Crash, TimeToLiveEnds,
     Cleanup, Sweep, Visit, LookUp, SweepEnds
<1>. QED BY <1>1, <1>2, <1>3, <1>4

LEMMA CandidateNext ==
  ASSUME StoreOK, QueryTypeOK, ReadOK, CandidateOK, [QueryNext]_queryVars
  PROVE  CandidateOK'
<1> USE DEF CandidateOK
<1>1. CASE Ask
  BY <1>1 DEF Ask, SearchCells, GridDisk, vars, redis
<1>2. CASE ReadCell
  <2>1. PICK c \in left : ids' = ids \cup cells[c] /\ left' = left \ {c}
    BY <1>2 DEF ReadCell
  <2>2. pc = "cells" /\ UNCHANGED <<vars, pc, ask, still>>
    BY <1>2 DEF ReadCell
  <2>3. UNCHANGED <<rec, cells>> /\ SearchCells(ask)' = SearchCells(ask)
    BY <2>2 DEF vars, redis, SearchCells, GridDisk
  <2>. QED BY <2>1, <2>2, <2>3
<1>3. CASE CellsRead \/ ReadState
  BY <1>3 DEF CellsRead, ReadState, SearchCells, GridDisk, vars, redis
<1>4. CASE Answer
  BY <1>4 DEF Answer
<1>5. CASE Meanwhile
  <2>1. \A d \in still' : d \in still /\ rec'[d] = rec[d]
    BY <1>5 DEF Meanwhile
  <2>2. UNCHANGED <<pc, ask, left, ids>> /\ SearchCells(ask)' = SearchCells(ask)
    BY <1>5 DEF Meanwhile, search, SearchCells, GridDisk
  <2>3. \A d \in still', c \in Cells : d \in cells'[c] => d \in cells[c]
    BY <1>5, <2>1, OnlyWritersAdd DEF Meanwhile, StoreOK, ReadOK, QueryTypeOK
  <2>4. \A d \in still : rec[d] # None => rec[d].cell \in Cells
    BY DEF QueryTypeOK, StoreOK, TypeInv, TypeOK, Records
  <2>. QED BY <2>1, <2>2, <2>3, <2>4
<1>6. CASE UNCHANGED queryVars
  BY <1>6 DEF queryVars, vars, redis, search, SearchCells, GridDisk
<1>. QED BY <1>1, <1>2, <1>3, <1>4, <1>5, <1>6 DEF QueryNext, Search

\* In a lattice where the disk of a radius holds every cell in it, and with one
\* writer per device, a search finds what stands still: its cell is read with the
\* device in it and its record as it is, and what the limit cuts off is farther
\* than all that is left.
THEOREM SearchFindsWhatStands ==
  ASSUME Affinity, DiskCovers PROVE QuerySpec => []StandingIsFound
<1>1. QueryInit => QueryTypeOK /\ ReadOK /\ CandidateOK
  BY FS_EmptySet DEF QueryInit, QueryTypeOK, ReadOK, CandidateOK
<1>2. StoreOK /\ QueryTypeOK /\ ReadOK /\ CandidateOK /\ [QueryNext]_queryVars
      => (ReadOK /\ CandidateOK)'
  BY ReadNext, CandidateNext
<1>3. ASSUME StoreOK, QueryTypeOK, ReadOK, CandidateOK, Answered PROVE StandingIsFound
  <2> USE <1>3
  <2> DEFINE n == Limit(ask)
  <2>1. InRadius \in SUBSET Entries /\ IsFiniteSet(InRadius)
    BY FS_Subset DEF InRadius, QueryTypeOK, ReadOK
  <2>2. \A s, t \in InRadius : s.dev = t.dev => s = t
    BY DEF InRadius, ReadOK
  <2>3. ask \in Asks /\ Admitted(ask) /\ n \in Nat
    BY QueryAssumption DEF Answered, QueryTypeOK, Limit
  <2>4. Result = Nearest(InRadius, n)
    BY DEF Result
  <2> SUFFICES ASSUME NEW d \in still
               PROVE  /\ /\ rec[d] # None /\ Matches(Entry(d), ask)
                         /\ (crashes = 0 /\ d \notin gone) \/ d \in cells[rec[d].cell]
                         => \/ Entry(d) \in Result
                            \/ /\ Cardinality(Result) = n
                               /\ \A s \in Result : Nearer(s, Entry(d))
                      /\ \A s \in Result : s.dev = d =>
                             rec[d] # None /\ s = Entry(d) /\ Matches(s, ask)
    BY DEF StandingIsFound
  <2>5. ASSUME rec[d] # None, Matches(Entry(d), ask),
               (crashes = 0 /\ d \notin gone) \/ d \in cells[rec[d].cell]
        PROVE  Entry(d) \in InRadius
    <3>0. d \in cells[rec[d].cell]
      <4>1. crashes = 0 => Unlisted = {}
        BY FS_EmptySet, FS_CardinalityType DEF StoreOK, CompleteOK, AtMost
      <4>2. crashes = 0 /\ d \notin gone => Indexed(d)
        BY <4>1 DEF Unlisted, QueryTypeOK
      <4>. QED BY <2>5, <4>2, NoneAssumption DEF Indexed, ReadOK, Settled
    <3>1. rec[d].cell \in Cells /\ Entry(d).cell = rec[d].cell
      BY <2>5 DEF StoreOK, TypeInv, TypeOK, QueryTypeOK, Records, Entry
    <3>2. rec[d].cell \in SearchCells(ask)
      BY <2>3, <2>5, <3>1 DEF DiskCovers, Matches
    <3>3. d \in ids \ unread
      BY <2>5, <3>0, <3>2 DEF CandidateOK, Answered
    <3>. QED BY <2>5, <3>3 DEF ReadOK, Answered, InRadius
  <2>6. ASSUME NEW e \in InRadius, e \notin Result
        PROVE  Cardinality(Result) = n /\ \A s \in Result : Nearer(s, e)
    BY <2>1, <2>2, <2>3, <2>4, <2>6, NearestIsFull
  <2>7. ASSUME NEW s \in Result, s.dev = d
        PROVE  rec[d] # None /\ s = Entry(d) /\ Matches(s, ask)
    <3>1. s \in found /\ Matches(s, ask)
      BY <2>4 DEF Nearest, InRadius
    <3>. QED BY <2>7, <3>1 DEF ReadOK
  <2>. QED BY <2>5, <2>6, <2>7
<1>4. ~Answered => StandingIsFound
  BY DEF StandingIsFound
<1>. QED BY StoreKept, QueryTypeCorrect, <1>1, <1>2, <1>3, <1>4, PTL DEF QuerySpec
-----------------------------------------------------------------------------
(* Trips                                                                   *)

LEMMA BeforeOrder ==
  ASSUME NEW p \in Points, NEW q \in Points
  PROVE  /\ ~Before(p, p)
         /\ Before(p, q) => ~Before(q, p)
         /\ Before(p, q) \/ Before(q, p) \/ (p.t = q.t /\ p.seq = q.seq)
         /\ \A r \in Points : Before(p, q) /\ Before(q, r) => Before(p, r)
BY DEF Before, Points

\* A later time is not in an earlier bucket.
LEMMA BucketsGrow ==
  ASSUME NEW t \in Nat, NEW u \in Nat, t <= u, NEW n \in Nat \ {0}
  PROVE  t \div n \in Nat /\ u \div n \in Nat /\ t \div n <= u \div n
<1> DEFINE a == t \div n
           b == u \div n
<1>1. a \in Int /\ b \in Int /\ n * a <= t /\ t < n * a + n /\ n * b <= u /\ u < n * b + n
  OBVIOUS
<1> HIDE DEF a, b
<1>2. a >= 0 /\ b >= 0
  <2>1. ASSUME NEW c \in Int, c < 0 PROVE n * c + n <= 0
    <3>1. c + 1 <= 0
      BY <2>1
    <3>2. n * (c + 1) <= 0
      BY <3>1
    <3>. QED BY <3>2
  <2>. QED BY <1>1, <2>1
<1>3. a <= b
  <2> SUFFICES ASSUME b < a PROVE FALSE
    BY <1>1
  <2>1. a - b >= 1
    BY <1>1
  <2>2. n * (a - b) >= n
    BY <1>1, <2>1
  <2>3. n * a >= n * b + n
    BY <1>1, <2>2
  <2>4. n * a \in Int /\ n * b \in Int
    BY <1>1
  <2>. QED BY <1>1, <2>3, <2>4
<1>. QED BY <1>1, <1>2, <1>3 DEF a, b

\* The rows one after the other: Kept is what its recursion says.
LEMMA KeptRecursion ==
  ASSUME NEW rows \in Seq(Points), NEW n
  PROVE  /\ Kept(rows, n)[0] = <<>>
         /\ \A i \in 1..Len(rows) :
               Kept(rows, n)[i] = Sample(Kept(rows, n)[i - 1], rows[i], n)
<1> DEFINE L == Len(rows)
           Solves(f, m) == f = [i \in 0..m |-> IF i = 0 THEN <<>> ELSE Sample(f[i - 1], rows[i], n)]
           T == {m \in 0..L : ~\E f : Solves(f, m)}
<1>1. L \in Nat
  OBVIOUS
<1>2. T = {}
  <2> SUFFICES ASSUME T # {} PROVE FALSE
    OBVIOUS
  <2>1. T \subseteq Nat
    BY <1>1
  <2>2. PICK m \in T : \A k \in T : m <= k
    <3> HIDE DEF T
    <3>. QED BY <2>1, LeastNumber
  <2>3. m \in 0..L /\ ~\E f : Solves(f, m)
    OBVIOUS
  <2>4. CASE m = 0
    <3>1. Solves([i \in 0..0 |-> <<>>], 0)
      OBVIOUS
    <3>. QED BY <2>3, <2>4, <3>1
  <2>5. CASE m # 0
    <3>1. m - 1 \in 0..L /\ m - 1 \notin T
      <4>1. m - 1 \in 0..L /\ ~(m <= m - 1)
        BY <1>1, <2>3, <2>5
      <4> HIDE DEF T
      <4>. QED BY <2>2, <4>1
    <3>2. PICK f : Solves(f, m - 1)
      BY <3>1
    <3> DEFINE g == [i \in 0..m |-> IF i = m THEN Sample(f[m - 1], rows[m], n) ELSE f[i]]
    <3>3. ASSUME NEW i \in 0..m
          PROVE  g[i] = IF i = 0 THEN <<>> ELSE Sample(g[i - 1], rows[i], n)
      <4>1. CASE i = m
        <5>1. g[i] = Sample(f[m - 1], rows[m], n) /\ m - 1 \in 0..m /\ m - 1 # m
          BY <1>1, <2>3, <2>5, <4>1
        <5>2. g[m - 1] = f[m - 1]
          BY <5>1
        <5>. QED BY <2>5, <4>1, <5>1, <5>2
      <4>2. CASE i # m
        <5>1. i \in 0..(m - 1) /\ g[i] = f[i]
          BY <1>1, <2>3, <4>2
        <5>2. i # 0 => i - 1 \in 0..m /\ i - 1 # m
          BY <1>1, <2>3, <5>1
        <5>3. i # 0 => g[i - 1] = f[i - 1]
          BY <5>2
        <5>4. f[i] = IF i = 0 THEN <<>> ELSE Sample(f[i - 1], rows[i], n)
          BY <3>2, <5>1
        <5>. QED BY <5>1, <5>3, <5>4
      <4>. QED BY <4>1, <4>2
    <3>4. g = [i \in 0..m |-> g[i]]
      OBVIOUS
    <3> HIDE DEF g
    <3>5. Solves(g, m)
      BY <3>3, <3>4
    <3>. QED BY <2>3, <3>5
  <2>. QED BY <2>4, <2>5
<1>3. \E f : Solves(f, L)
  BY <1>1, <1>2
<1>4. Kept(rows, n) = CHOOSE f : Solves(f, L)
  BY DEF Kept
<1>5. Solves(Kept(rows, n), L)
  <2> HIDE DEF Solves
  <2>. QED BY <1>3, <1>4
<1> DEFINE K == Kept(rows, n)
<1>6. K = [i \in 0..L |-> IF i = 0 THEN <<>> ELSE Sample(K[i - 1], rows[i], n)]
  BY <1>5
<1> HIDE DEF K
<1>7. K[0] = <<>> /\ \A i \in 1..L : K[i] = Sample(K[i - 1], rows[i], n)
  <2>1. 0 \in 0..L /\ \A i \in 1..L : i \in 0..L /\ i # 0
    BY <1>1
  <2>. QED BY <1>6, <2>1
<1>. QED BY <1>7 DEF K

\* What sampling keeps of rows in the order of time
LEMMA SampledRows ==
  ASSUME NEW rows \in Seq(Points), NEW n \in Nat \ {0},
         \A i, j \in 1..Len(rows) : i < j => Before(rows[i], rows[j]),
         NEW K, K = Kept(rows, n), NEW m \in 0..Len(rows)
  PROVE  /\ K[m] \in Seq(Points)
         /\ Range(K[m]) = FirstOfEach({rows[j] : j \in 1..m}, n)
         /\ \A i, j \in 1..Len(K[m]) : i < j => Before(K[m][i], K[m][j])
<1> DEFINE S(i) == {rows[j] : j \in 1..i}
           L == Len(rows)
           Holds(i) == /\ K[i] \in Seq(Points)
                       /\ Range(K[i]) = FirstOfEach(S(i), n)
                       /\ \A j, k \in 1..Len(K[i]) : j < k => Before(K[i][j], K[i][k])
                       /\ i > 0 => /\ Len(K[i]) > 0
                                   /\ K[i][Len(K[i])].t \div n = rows[i].t \div n
           T == {i \in 0..L : ~Holds(i)}
<1>1. L \in Nat /\ \A i \in 1..L : rows[i] \in Points
  OBVIOUS
<1>2. Holds(0)
  <2>1. K[0] = <<>>
    BY KeptRecursion
  <2>2. S(0) = {} /\ FirstOfEach({}, n) = {}
    BY DEF FirstOfEach
  <2>3. <<>> \in Seq(Points) /\ Len(<<>>) = 0
    OBVIOUS
  <2>4. Range(<<>>) = {}
    BY <2>3 DEF Range
  <2>5. \A j \in 1..Len(K[0]) : FALSE
    BY <2>1, <2>3
  <2>6. Range(K[0]) = FirstOfEach(S(0), n)
    <3> HIDE DEF S
    <3>. QED BY <2>1, <2>2, <2>4
  <2> HIDE DEF S
  <2>. QED BY <2>1, <2>3, <2>5, <2>6
<1>3. ASSUME NEW i \in 1..L, Holds(i - 1) PROVE Holds(i)
  <2> DEFINE p == rows[i]
             k == K[i - 1]
  <2>1. p \in Points /\ i - 1 \in 0..L /\ k \in Seq(Points) /\ Range(k) = FirstOfEach(S(i - 1), n)
        /\ (\A a, b \in 1..Len(k) : a < b => Before(k[a], k[b]))
        /\ (i > 1 => Len(k) > 0 /\ k[Len(k)].t \div n = rows[i - 1].t \div n)
    BY <1>1, <1>3
  <2>2. S(i) = S(i - 1) \cup {p} /\ S(i - 1) \subseteq Points
    BY <1>1
  <2>3. \A q \in S(i - 1) : Before(q, p) /\ ~Before(p, q)
    <3>1. \A j \in 1..(i - 1) : j \in 1..L /\ j < i
      BY <1>1
    <3>2. \A j \in 1..(i - 1) : Before(rows[j], p) /\ rows[j] \in Points
      BY <1>1, <3>1
    <3>. QED BY <2>1, <3>2, BeforeOrder
  <2>4. K[i] = Sample(k, p, n)
    BY KeptRecursion
  <2>5. CASE k = <<>> \/ p.t \div n # k[Len(k)].t \div n
    <3>1. K[i] = Append(k, p)
      BY <2>4, <2>5 DEF Sample
    <3>2. \A q \in S(i - 1) : q.t \div n # p.t \div n
      <4> SUFFICES ASSUME NEW j \in 1..(i - 1), rows[j].t \div n = p.t \div n PROVE FALSE
        OBVIOUS
      <4>1. i > 1 /\ i - 1 \in 1..L /\ j \in 1..L /\ rows[j] \in Points /\ rows[i - 1] \in Points
        BY <1>1
      <4>2. rows[i - 1].t \div n # p.t \div n
        BY <2>1, <2>5, <4>1
      <4>3. rows[j].t \in Nat /\ rows[i - 1].t \in Nat /\ p.t \in Nat
        BY <2>1, <4>1 DEF Points
      <4>4. rows[j].t <= rows[i - 1].t /\ rows[i - 1].t <= p.t
        <5>1. Before(rows[i - 1], p) /\ (j = i - 1 \/ Before(rows[j], rows[i - 1]))
          BY <4>1
        <5>. QED BY <4>3, <5>1 DEF Before
      <4>5. rows[j].t \div n <= rows[i - 1].t \div n /\ rows[j].t \div n \in Nat
            /\ rows[i - 1].t \div n \in Nat
        BY <4>3, <4>4, BucketsGrow
      <4>6. rows[i - 1].t \div n <= p.t \div n /\ p.t \div n \in Nat
        BY <4>3, <4>4, BucketsGrow
      <4>. QED BY <4>2, <4>5, <4>6
    <3>3. FirstOfEach(S(i), n) = FirstOfEach(S(i - 1), n) \cup {p}
      <4> HIDE DEF S, p
      <4>. QED BY <2>1, <2>2, <2>3, <3>2, BeforeOrder DEF FirstOfEach
    <3>4. /\ Append(k, p) \in Seq(Points) /\ Len(Append(k, p)) = Len(k) + 1
          /\ Append(k, p)[Len(k) + 1] = p /\ \A a \in 1..Len(k) : Append(k, p)[a] = k[a]
      BY <2>1
    <3>5. Range(Append(k, p)) = Range(k) \cup {p}
      <4>1. DOMAIN k = 1..Len(k) /\ DOMAIN Append(k, p) = 1..(Len(k) + 1) /\ Len(k) \in Nat
        BY <2>1
      <4>2. 1..(Len(k) + 1) = 1..Len(k) \cup {Len(k) + 1}
        BY <4>1
      <4> HIDE DEF k, p
      <4>. QED BY <3>4, <4>1, <4>2 DEF Range
    <3>6. \A a \in 1..Len(k) : k[a] \in S(i - 1)
      <4>1. \A a \in 1..Len(k) : k[a] \in Range(k)
        BY <2>1 DEF Range
      <4>. QED BY <2>1, <4>1 DEF FirstOfEach
    <3>7. ASSUME NEW a \in 1..(Len(k) + 1), NEW b \in 1..(Len(k) + 1), a < b
          PROVE  Before(Append(k, p)[a], Append(k, p)[b])
      <4>1. a \in 1..Len(k) /\ (b \in 1..Len(k) \/ b = Len(k) + 1)
        BY <2>1, <3>7
      <4> HIDE DEF S, p, k
      <4>. QED BY <2>1, <2>3, <3>4, <3>6, <3>7, <4>1
    <3>8. Len(k) \in Nat
      BY <2>1
    <3> HIDE DEF S, k, p
    <3>. QED BY <2>1, <3>1, <3>3, <3>4, <3>5, <3>7, <3>8 DEF p
  <2>6. CASE ~(k = <<>> \/ p.t \div n # k[Len(k)].t \div n)
    <3>1. K[i] = k
      BY <2>4, <2>6 DEF Sample
    <3>2. i > 1 /\ rows[i - 1].t \div n = p.t \div n /\ rows[i - 1] \in S(i - 1)
      <4>1. i # 1
        <5>1. i = 1 => k = <<>>
          BY KeptRecursion
        <5>. QED BY <2>6, <5>1
      <4>2. i > 1 /\ i - 1 \in 1..(i - 1)
        BY <4>1
      <4>. QED BY <2>1, <2>6, <4>2
    <3>3. FirstOfEach(S(i), n) = FirstOfEach(S(i - 1), n)
      <4> HIDE DEF S, p
      <4>. QED BY <2>1, <2>2, <2>3, <3>2 DEF FirstOfEach
    <3> HIDE DEF S
    <3>. QED BY <2>1, <2>6, <3>1, <3>2, <3>3
  <2>. QED BY <2>5, <2>6
<1>4. T = {}
  <2> SUFFICES ASSUME T # {} PROVE FALSE
    OBVIOUS
  <2>1. T \subseteq Nat
    BY <1>1
  <2>2. PICK i \in T : \A j \in T : i <= j
    <3> HIDE DEF T
    <3>. QED BY <2>1, LeastNumber
  <2>3. i \in 0..L /\ ~Holds(i)
    OBVIOUS
  <2> HIDE DEF Holds
  <2>4. i \in 1..L
    <3>1. i # 0
      BY <1>2, <2>3
    <3>. QED BY <1>1, <2>3, <3>1
  <2>5. i - 1 \in 0..L /\ ~(i <= i - 1)
    BY <1>1, <2>4
  <2>6. Holds(i - 1)
    BY <2>2, <2>5
  <2>. QED BY <1>3, <2>3, <2>4, <2>6
<1>5. Holds(m)
  <2> HIDE DEF Holds
  <2>. QED BY <1>4
<1>. QED BY <1>5

\* The rows of a trip are its window in the order of time.
LEMMA RowsAreWindow ==
  ASSUME NEW points \in SUBSET History, NEW a \in TripAsks, a.limit > 0,
         NEW r, r = Rows(points, a)
  PROVE  /\ r \in Seq(Points)
         /\ Range(r) = Window(points, a)
         /\ \A i, j \in 1..Len(r) : i < j => Before(r[i], r[j])
<1> DEFINE S == {p \in points : Asked(p, a)}
           R == {pq \in S \X S : Before(pq[1], pq[2])}
           rank == [p \in S |-> Cardinality({q \in S : <<q, p>> \in R})]
           N == Cardinality(S)
           s == Ordered(S)
           M == IF N > a.limit THEN a.limit ELSE N
<1>1. S \subseteq Points /\ S \subseteq History /\ IsFiniteSet(S) /\ N \in Nat
  <2>1. IsFiniteSet(S)
    BY TripsAssumption, FS_Subset
  <2>. QED BY <2>1, TripsAssumption, FS_CardinalityType
<1>2. \A p, q \in S : <<p, q>> \in R <=> Before(p, q)
  OBVIOUS
<1>3. /\ \A p \in S : <<p, p>> \notin R
      /\ \A p, q \in S : p # q => <<p, q>> \in R \/ <<q, p>> \in R
      /\ \A p, q, u \in S : <<p, q>> \in R /\ <<q, u>> \in R => <<p, u>> \in R
  <2>1. \A p, q \in S : p.t = q.t /\ p.seq = q.seq => p = q
    BY <1>1, TripsAssumption
  <2> HIDE DEF R, S
  <2>. QED BY <1>1, <1>2, <2>1, BeforeOrder
<1>4. /\ rank \in Bijection(S, 0..(N - 1))
      /\ \A p, q \in S : Before(p, q) <=> rank[p] < rank[q]
  <2> HIDE DEF R, S
  <2>. QED BY <1>1, <1>2, <1>3, RanksCount
<1>5. \A p \in S : rank[p] = Cardinality({q \in S : Before(q, p)})
  <2>1. \A p \in S : {q \in S : <<q, p>> \in R} = {q \in S : Before(q, p)}
    <3> HIDE DEF R, S
    <3>. QED BY <1>2
  <2>. QED BY <2>1
<1> HIDE DEF rank, R, S
<1>6. s = [i \in 1..N |-> CHOOSE p \in S : Cardinality({q \in S : Before(q, p)}) = i - 1]
  BY DEF Ordered
<1>7. ASSUME NEW i \in 1..N PROVE s[i] \in S /\ rank[s[i]] = i - 1
  <2>1. i - 1 \in 0..(N - 1)
    BY <1>1
  <2>2. PICK p \in S : rank[p] = i - 1
    BY <1>4, <2>1 DEF Bijection, Surjection
  <2>3. \E q \in S : Cardinality({u \in S : Before(u, q)}) = i - 1
    BY <1>5, <2>2
  <2>. QED BY <1>5, <1>6, <2>3
<1>8. s \in Seq(Points) /\ Len(s) = N
  <2>1. DOMAIN s = 1..N /\ s = [i \in 1..N |-> s[i]] /\ \A i \in 1..N : s[i] \in Points
    BY <1>1, <1>6, <1>7
  <2> HIDE DEF s, N
  <2>2. s \in [1..N -> Points]
    BY <2>1
  <2>. QED BY <1>1, <2>2
<1>9. M \in Nat /\ M <= N /\ a.limit \in Int
  BY <1>1, TripsAssumption
<1> HIDE DEF s
<1>10. /\ r \in Seq(Points) /\ Len(r) = M /\ DOMAIN r = 1..M
       /\ \A i \in 1..M : r[i] = s[i] /\ i \in 1..N
  <2>1. r = SubSeq(s, 1, M)
    BY <1>8 DEF Rows, s, S
  <2>. QED BY <1>1, <1>8, <1>9, <2>1
<1>11. Range(r) = {p \in S : rank[p] < a.limit}
  <2>1. ASSUME NEW i \in 1..M PROVE r[i] \in S /\ rank[r[i]] < a.limit
    BY <1>1, <1>7, <1>9, <1>10
  <2>2. ASSUME NEW p \in S, rank[p] < a.limit PROVE \E i \in 1..M : r[i] = p
    <3>1. rank[p] \in 0..(N - 1)
      BY <1>4 DEF Bijection, Injection
    <3>2. rank[p] + 1 \in 1..M
      BY <1>1, <1>9, <2>2, <3>1
    <3>3. r[rank[p] + 1] \in S /\ rank[r[rank[p] + 1]] = rank[p]
      BY <1>7, <1>10, <3>1, <3>2
    <3>4. r[rank[p] + 1] = p
      BY <1>4, <3>3 DEF Bijection, Injection, IsInjective
    <3>. QED BY <3>2, <3>4
  <2>. QED BY <1>10, <2>1, <2>2 DEF Range
<1>12. Range(r) = Window(points, a)
  BY <1>5, <1>11 DEF Window, S
<1>13. \A i, j \in 1..M : i < j => Before(r[i], r[j])
  BY <1>4, <1>7, <1>10
<1>. QED BY <1>10, <1>12, <1>13

\* downsample_by_interval and the query before it: whatever the history and the
\* request, each interval in the window is told of once, by its earliest point.
THEOREM TripThinned == EveryTripIsThinned
<1> SUFFICES ASSUME NEW points \in SUBSET History, NEW a \in TripAsks,
                    GetTrip(points, a).status = "OK"
             PROVE  LET r == GetTrip(points, a).points
                        w == Window(points, a)
                    IN  /\ Range(r) = IF a.interval <= 0 THEN w ELSE FirstOfEach(w, a.interval)
                        /\ \A i, j \in DOMAIN r : i < j => Before(r[i], r[j])
  BY DEF EveryTripIsThinned, TripIsThinned
<1> DEFINE rows == Rows(points, a)
           r == Sampled(rows, a.interval)
           w == Window(points, a)
<1>1. ~Refuses(a) /\ a.filter # "bbox"
  BY DEF GetTrip
<1>2. GetTrip(points, a).points = r
  BY <1>1 DEF GetTrip, Trip
<1>3. a.limit > 0 /\ a.interval \in Int
  BY <1>1, TripsAssumption DEF Refuses
<1>4. /\ rows \in Seq(Points) /\ Range(rows) = w /\ Len(rows) \in Nat
      /\ \A i, j \in 1..Len(rows) : i < j => Before(rows[i], rows[j])
  <2>1. /\ rows \in Seq(Points) /\ Range(rows) = w
        /\ \A i, j \in 1..Len(rows) : i < j => Before(rows[i], rows[j])
    <3> HIDE DEF w
    <3>1. ASSUME NEW q, q = rows
          PROVE  /\ q \in Seq(Points) /\ Range(q) = w
                 /\ \A i, j \in 1..Len(q) : i < j => Before(q[i], q[j])
      BY <1>3, <3>1, RowsAreWindow DEF w
    <3> HIDE DEF rows
    <3>. QED BY <3>1
  <2> HIDE DEF rows, w
  <2>. QED BY <2>1
<1> HIDE DEF rows, w
<1>5. DOMAIN rows = 1..Len(rows) /\ w = {rows[j] : j \in 1..Len(rows)}
  BY <1>4 DEF Range
<1>6. /\ Range(r) = IF a.interval <= 0 THEN w ELSE FirstOfEach(w, a.interval)
      /\ \A i, j \in DOMAIN r : i < j => Before(r[i], r[j])
  <2>1. CASE a.interval <= 0
    BY <1>4, <1>5, <2>1 DEF Sampled
  <2>2. CASE a.interval > 0 /\ Len(rows) <= 1
    <3>1. r = rows
      BY <2>2 DEF Sampled
    <3>2. \A p, q \in w : p = q
      BY <1>4, <1>5, <2>2
    <3>3. \A p \in w : ~Before(p, p)
      <4>1. \A p \in w : p \in Points
        BY <1>4, <1>5
      <4>. QED BY <4>1, BeforeOrder
    <3>4. FirstOfEach(w, a.interval) = w
      BY <3>2, <3>3 DEF FirstOfEach
    <3>. QED BY <1>3, <1>4, <1>5, <2>2, <3>1, <3>4
  <2>3. CASE a.interval > 0 /\ Len(rows) > 1
    <3>1. a.interval \in Nat \ {0} /\ Len(rows) \in 0..Len(rows)
      BY <1>3, <1>4, <2>3
    <3>2. r = Kept(rows, a.interval)[Len(rows)]
      BY <1>3, <1>4, <2>3 DEF Sampled
    <3>3. /\ r \in Seq(Points)
          /\ Range(r) = FirstOfEach(w, a.interval)
          /\ \A i, j \in 1..Len(r) : i < j => Before(r[i], r[j])
      <4>1. ASSUME NEW K, K = Kept(rows, a.interval), NEW q, q = K[Len(rows)]
            PROVE  /\ q \in Seq(Points)
                   /\ Range(q) = FirstOfEach({rows[j] : j \in 1..Len(rows)}, a.interval)
                   /\ \A i, j \in 1..Len(q) : i < j => Before(q[i], q[j])
        BY <1>4, <3>1, <4>1, SampledRows
      <4> HIDE DEF r
      <4>. QED BY <1>5, <3>2, <4>1
    <3>4. DOMAIN r = 1..Len(r)
      BY <3>3
    <3> HIDE DEF r
    <3>. QED BY <1>3, <2>3, <3>3, <3>4
  <2>. QED BY <1>3, <1>4, <2>1, <2>2, <2>3
<1>. QED BY <1>2, <1>6 DEF w

\* TripsAreThinned, whatever else the server does
THEOREM TripsThinned == QuerySpec => []TripsAreThinned
<1>1. TripsAreThinned
  BY TripThinned DEF TripsAreThinned
<1>. QED BY <1>1, PTL
=============================================================================
