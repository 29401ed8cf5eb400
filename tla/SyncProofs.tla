----------------------------- MODULE SyncProofs -----------------------------
(***************************************************************************)
(* Proofs about one peer's mirror that hold whatever its policies are: the *)
(* types, that errors lead to a cooldown, that no living message is marked *)
(* deleted, what a rescan leaves, and that a FloodWait is kept if it is    *)
(* recorded and no prune fails.                                            *)
(***************************************************************************)
EXTENDS SyncEngine, FiniteSetTheorems, WellFoundedInduction, TLAPS

(* Least and greatest members *)

LEMMA LeastExists ==
    ASSUME NEW S \in SUBSET Nat, S # {}
    PROVE  \E x \in S : \A y \in S : x <= y
<1>1. \E x \in S : \A y \in S : ~ <<y, x>> \in OpToRel(<, Nat)
  BY NatLessThanWellFounded, WFMin
<1>2. \A x, y \in Nat : ~ <<y, x>> \in OpToRel(<, Nat) => x <= y
  BY DEF OpToRel
<1> QED
  BY <1>1, <1>2

LEMMA GreatestExists ==
    ASSUME NEW n \in Nat, NEW S \in SUBSET (0 .. n), S # {}
    PROVE  \E x \in S : \A y \in S : x >= y
<1> DEFINE T == {n - x : x \in S}
<1>1. T \in SUBSET Nat /\ T # {}
  <2>1. ASSUME NEW x \in S PROVE n - x \in Nat
    OBVIOUS
  <2> QED
    BY <2>1
<1>2. PICK t \in T : \A u \in T : t <= u
  <2> HIDE DEF T
  <2> QED
    BY <1>1, LeastExists
<1>3. PICK x \in S : t = n - x
  BY <1>2
<1>4. ASSUME NEW y \in S PROVE x >= y
  <2>1. n - x <= n - y
    BY <1>2, <1>3
  <2> QED
    BY <2>1
<1> QED
  BY <1>4

LEMMA MinIsLeast ==
    ASSUME NEW S \in SUBSET Nat, S # {}
    PROVE  Min(S) \in S /\ \A y \in S : Min(S) <= y
  BY LeastExists DEF Min

LEMMA MaxIsGreatest ==
    ASSUME NEW n \in Nat, NEW S \in SUBSET (0 .. n), S # {}
    PROVE  Max(S) \in S /\ \A y \in S : Max(S) >= y
  BY GreatestExists DEF Max

(* The newest messages of a set are those from some message on, and the oldest
   those up to one. *)
LEMMA NewestIsUpper ==
    ASSUME NEW m \in Nat, NEW S \in SUBSET (1 .. m), NEW n \in Nat,
           NEW j \in Newest(n, S), NEW i \in S, j <= i
    PROVE  i \in Newest(n, S)
<1> DEFINE above(k) == {x \in S : x > k}
<1>1. above(i) \in SUBSET above(j)
  <2>1. j \in 1 .. m /\ i \in 1 .. m
    BY DEF Newest
  <2>2. ASSUME NEW x \in S, x > i PROVE x > j
    BY <2>1, <2>2
  <2> QED
    BY <2>2
<1>2. IsFiniteSet(1 .. m)
  BY FS_Interval
<1>3. IsFiniteSet(above(j)) /\ above(j) \in SUBSET (1 .. m)
  BY <1>2, FS_Subset
<1>4. Cardinality(above(i)) <= Cardinality(above(j))
  BY <1>1, <1>3, FS_Subset
<1>5. IsFiniteSet(above(i))
  BY <1>1, <1>3, FS_Subset
<1>6. Cardinality(above(i)) \in Nat /\ Cardinality(above(j)) \in Nat
  BY <1>3, <1>5, FS_CardinalityType
<1>7. Cardinality(above(j)) < n
  BY DEF Newest
<1>8. Cardinality(above(i)) < n
  BY <1>4, <1>6, <1>7
<1> QED
  BY <1>8 DEF Newest

LEMMA OldestIsLower ==
    ASSUME NEW m \in Nat, NEW S \in SUBSET (1 .. m), NEW n \in Nat,
           NEW j \in Oldest(n, S), NEW i \in S, i <= j
    PROVE  i \in Oldest(n, S)
<1> DEFINE below(k) == {x \in S : x < k}
<1>1. below(i) \in SUBSET below(j)
  <2>1. j \in 1 .. m /\ i \in 1 .. m
    BY DEF Oldest
  <2>2. ASSUME NEW x \in S, x < i PROVE x < j
    BY <2>1, <2>2
  <2> QED
    BY <2>2
<1>2. IsFiniteSet(1 .. m)
  BY FS_Interval
<1>3. IsFiniteSet(below(j)) /\ below(j) \in SUBSET (1 .. m)
  BY <1>2, FS_Subset
<1>4. Cardinality(below(i)) <= Cardinality(below(j))
  BY <1>1, <1>3, FS_Subset
<1>5. IsFiniteSet(below(i))
  BY <1>1, <1>3, FS_Subset
<1>6. Cardinality(below(i)) \in Nat /\ Cardinality(below(j)) \in Nat
  BY <1>3, <1>5, FS_CardinalityType
<1>7. Cardinality(below(j)) < n
  BY DEF Oldest
<1>8. Cardinality(below(i)) < n
  BY <1>4, <1>6, <1>7
<1> QED
  BY <1>8 DEF Oldest

-----------------------------------------------------------------------------
(* Types *)

LEMMA Bounds ==
    /\ MaxMsg \in Nat /\ MaxVersion \in Nat /\ MaxTime \in Nat /\ MaxFaults \in Nat
    /\ Batch \in Nat \ {0} /\ Window \in Nat \ {0} /\ ErrorLimit \in Nat \ {0}
    /\ ErrorWait \in Nat \ {0}
  BY SyncBounds, SizesArePositive

LEMMA CutoffIsTyped ==
    ASSUME TypeOK
    PROVE  HistoryCutoff \in Maybe(Int)
<1>1. ValidPolicy(policy) /\ now \in Int
  BY PoliciesAreValid, Bounds DEF TypeOK, Times
<1> QED
  BY <1>1 DEF HistoryCutoff, Maybe, ValidPolicy

LEMMA FetchedIsTyped ==
    ASSUME TypeOK, NEW S \in SUBSET alive, Fetched(S)
    PROVE  (\E F \in SUBSET Ids : got' \in [F -> Versions]) /\ DOMAIN got' = S
<1>1. S \in SUBSET Ids
  BY Bounds DEF TypeOK, Ids
<1>2. got' \in [S -> Versions]
  BY <1>1 DEF Fetched, TypeOK
<1> QED
  BY <1>1, <1>2

LEMMA NoneIsTyped == \E F \in SUBSET Ids : None \in [F -> Versions]
<1>1. None \in [{} -> Versions]
  BY DEF None
<1> QED
  BY <1>1

LEMMA GotIsTyped ==
    ASSUME TypeOK
    PROVE  /\ DOMAIN got \in SUBSET Ids
           /\ \A i \in DOMAIN got : got[i] \in Versions
           /\ got # None => DOMAIN got # {}
<1>1. PICK F \in SUBSET Ids : got \in [F -> Versions]
  BY DEF TypeOK
<1>2. F = {} => got = None
  BY <1>1 DEF None
<1> QED
  BY <1>1, <1>2

LEMMA UpsertIsTyped ==
    ASSUME TypeOK, NEW S \in SUBSET DOMAIN got, Upsert(S)
    PROVE  /\ mirror' \in [Ids -> Maybe(Versions)]
           /\ gone' \subseteq {i \in Ids : mirror'[i] # Null}
           /\ Mirrored' = Mirrored \cup S
<1>1. Null \notin Versions
  BY NullIsNoNumber, Bounds DEF Versions
<1>2. \A i \in Ids : mirror'[i] = IF i \in S THEN got[i] ELSE mirror[i]
  BY DEF Upsert
<1>3. \A i \in S : i \in Ids /\ got[i] \in Versions
  BY GotIsTyped
<1>4. mirror' \in [Ids -> Maybe(Versions)]
  BY <1>3 DEF Upsert, TypeOK, Maybe
<1>5. gone' \subseteq {i \in Ids : mirror'[i] # Null}
  BY <1>1, <1>2, <1>3 DEF Upsert, TypeOK
<1>6. Mirrored' = Mirrored \cup S
  BY <1>1, <1>2, <1>3 DEF Mirrored
<1> QED
  BY <1>4, <1>5, <1>6

LEMMA ExtremesAreTyped ==
    ASSUME NEW F \in SUBSET Ids
    PROVE  /\ LowestOf(F) \in Maybe(Ids)
           /\ F # {} => Max(F) \in F /\ Max(F) \in Nat /\ \A i \in F : i <= Max(F)
           /\ F # {} => LowestOf(F) \in F /\ \A i \in F : LowestOf(F) <= i
<1>1. F \in SUBSET (0 .. MaxMsg) /\ F \in SUBSET Nat
  BY Bounds DEF Ids
<1>2. F # {} => Max(F) \in F /\ \A i \in F : Max(F) >= i
  BY <1>1, Bounds, MaxIsGreatest
<1>3. F # {} => Min(F) \in F /\ \A i \in F : Min(F) <= i
  BY <1>1, MinIsLeast
<1> QED
  BY <1>1, <1>2, <1>3 DEF LowestOf, Maybe

LEMMA FaultIsTyped ==
    ASSUME TypeOK, NEW kind, Fault(kind)
    PROVE  /\ faults' \in 0 .. MaxFaults /\ pc' = "idle" /\ pc' \in Steps
           /\ got' = None /\ cutoff' = Null /\ cutoff' \in Maybe(Int)
           /\ \E F \in SUBSET Ids : got' \in [F -> Versions]
  BY Bounds, NoneIsTyped DEF Fault, Goto, Forget, TypeOK, Steps, Maybe

LEMMA TypeInit == Init => TypeOK
<1> SUFFICES ASSUME Init PROVE TypeOK
  OBVIOUS
<1> USE Bounds DEF Init
<1>1. ts \in [Ids -> Times] /\ ver \in [Ids -> Versions] /\ mirror \in [Ids -> Maybe(Versions)]
  BY DEF Times, Versions, Maybe
<1>2. sync \in SyncStates
  BY DEF SyncStates, Maybe
<1> QED
  BY <1>1, <1>2, NoneIsTyped DEF TypeOK, Times, Steps, Maybe

LEMMA TypeStep == TypeOK /\ [Next]_vars => TypeOK'
<1> SUFFICES ASSUME TypeOK, [Next]_vars PROVE TypeOK'
  OBVIOUS
<1> USE Bounds DEF chat, tables, history, Goto, Forget
<1>1. CASE Tick
  BY <1>1 DEF Tick, TypeOK, Times
<1>2. CASE Post
  <2>1. top + 1 \in Ids /\ top' = top + 1 /\ now \in Times
    BY <1>2 DEF Post, TypeOK, Ids
  <2>2. ts' \in [Ids -> Times]
    BY <1>2, <2>1 DEF Post, TypeOK
  <2>3. alive' \subseteq 1 .. top'
    BY <1>2, <2>1 DEF Post, TypeOK, Ids
  <2> QED
    BY <1>2, <2>1, <2>2, <2>3 DEF Post, TypeOK, Ids
<1>3. ASSUME NEW i \in Ids, EditMessage(i) PROVE TypeOK'
  BY <1>3 DEF EditMessage, TypeOK, Versions
<1>4. ASSUME NEW i \in Ids, DeleteMessage(i) PROVE TypeOK'
  BY <1>4 DEF DeleteMessage, TypeOK
<1>5. ASSUME NEW p \in Policies, ChangePolicy(p) PROVE TypeOK'
  BY <1>5 DEF ChangePolicy, TypeOK
<1>6. CASE StartTick \/ IncrementalSkips \/ BackfillSkips \/ RescanSkips
  BY <1>6 DEF StartTick, IncrementalSkips, BackfillSkips, RescanSkips, TypeOK, Steps
<1>7. CASE FetchStart \/ FetchTail \/ FetchBackfill \/ FetchRescan
  <2>1. PICK S \in SUBSET alive : Fetched(S)
    BY <1>7 DEF FetchStart, FetchTail, FetchBackfill, FetchRescan, Newest, Oldest, Below
  <2>2. \E F \in SUBSET Ids : got' \in [F -> Versions]
    BY <2>1, FetchedIsTyped
  <2>3. cutoff' \in Maybe(Int)
    BY <1>7, CutoffIsTyped DEF FetchStart, FetchTail, FetchBackfill, FetchRescan, TypeOK
  <2>4. pc' \in Steps
    BY <1>7 DEF FetchStart, FetchTail, FetchBackfill, FetchRescan, Steps, Awaiting
  <2> QED
    BY <1>7, <2>2, <2>3, <2>4
       DEF FetchStart, FetchTail, FetchBackfill, FetchRescan, TypeOK
<1>8. CASE PersistStart
  <2>1. WithinHistory \in SUBSET DOMAIN got /\ Upsert(WithinHistory)
    BY <1>8 DEF PersistStart, WithinHistory
  <2>2. Max(DOMAIN got) \in Nat /\ LowestOf(DOMAIN got) \in Maybe(Ids)
    BY <1>8, GotIsTyped, ExtremesAreTyped DEF PersistStart
  <2>3. sync' \in SyncStates
    BY <1>8, <2>2 DEF PersistStart, TypeOK, SyncStates, Maybe, BatchEnds
  <2> QED
    BY <1>8, <2>1, <2>3, UpsertIsTyped, NoneIsTyped DEF PersistStart, TypeOK, Steps, Maybe
<1>9. CASE PersistTail
  <2>1. DOMAIN got \in SUBSET DOMAIN got /\ Upsert(DOMAIN got)
    BY <1>9 DEF PersistTail
  <2>2. Max(DOMAIN got) \in Nat
    BY <1>9, GotIsTyped, ExtremesAreTyped DEF PersistTail
  <2>3. sync' \in SyncStates
    BY <1>9, <2>2 DEF PersistTail, TypeOK, SyncStates, Maybe
  <2> QED
    BY <1>9, <2>1, <2>3, UpsertIsTyped, NoneIsTyped DEF PersistTail, TypeOK, Steps, Maybe
<1>10. CASE NothingNew
  BY <1>10, NoneIsTyped DEF NothingNew, TypeOK, Steps, Maybe
<1>11. CASE PersistBackfill
  <2>1. WithinHistory \in SUBSET DOMAIN got /\ Upsert(WithinHistory)
    BY <1>11 DEF PersistBackfill, WithinHistory
  <2>2. LowestOf(DOMAIN got) \in Maybe(Ids)
    BY GotIsTyped, ExtremesAreTyped
  <2>3. sync' \in SyncStates
    BY <1>11, <2>2 DEF PersistBackfill, TypeOK, SyncStates, Maybe, BatchEnds
  <2> QED
    BY <1>11, <2>1, <2>3, UpsertIsTyped, NoneIsTyped DEF PersistBackfill, TypeOK, Steps, Maybe
<1>12. CASE PersistRescan
  <2>1. \A i \in Changed : i \in Ids /\ got[i] \in Versions
    BY GotIsTyped DEF Changed
  <2>2. mirror' \in [Ids -> Maybe(Versions)]
    BY <1>12, <2>1 DEF PersistRescan, TypeOK, Maybe
  <2>3. \A i \in Ids : mirror[i] # Null => mirror'[i] # Null
    <3>1. Null \notin Versions
      BY NullIsNoNumber DEF Versions
    <3>2. \A i \in Ids : mirror'[i] = IF i \in Changed THEN got[i] ELSE mirror[i]
      BY <1>12 DEF PersistRescan
    <3> QED
      BY <2>1, <3>1, <3>2
  <2>4. gone' \subseteq {i \in Ids : mirror'[i] # Null}
    BY <1>12, <2>3 DEF PersistRescan, DeletedIds, Mirrored, TypeOK
  <2>5. sync' \in SyncStates
    BY <1>12 DEF PersistRescan, TypeOK, SyncStates, Maybe
  <2> QED
    BY <1>12, <2>2, <2>4, <2>5, NoneIsTyped DEF PersistRescan, TypeOK, Steps, Maybe
<1>13. CASE Prune
  <2>1. mirror' \in [Ids -> Maybe(Versions)] /\ gone' \subseteq {i \in Ids : mirror'[i] # Null}
    BY <1>13 DEF Prune, TypeOK, Maybe
  <2> QED
    BY <1>13, <2>1 DEF Prune, TypeOK, Steps, Expired, Mirrored
<1>14. ASSUME NEW seconds \in FloodWaits, FloodWait(seconds) PROVE TypeOK'
  <2>1. now + seconds \in Nat
    BY <1>14, WaitsArePositive DEF TypeOK, Times
  <2>2. sync' \in SyncStates
    <3>1. sync.errors + 1 \in Nat
      BY DEF TypeOK, SyncStates
    <3>2. sync' = [sync EXCEPT !.cooldown = now + seconds, !.errors = sync.errors + 1]
      BY <1>14 DEF FloodWait
    <3> QED
      BY <2>1, <3>1, <3>2 DEF TypeOK, SyncStates, Maybe
  <2> QED
    BY <1>14, <2>1, <2>2, FaultIsTyped DEF FloodWait, TypeOK
<1>15. CASE FetchErrs \/ PruneErrs
  <2>1. now + ErrorWait \in Nat
    BY DEF TypeOK, Times
  <2>2. sync' \in SyncStates
    <3>1. sync.errors + 1 \in Nat
      BY DEF TypeOK, SyncStates
    <3>2. PICK until \in Maybe(Nat) :
             sync' = [sync EXCEPT !.errors = sync.errors + 1, !.cooldown = until]
      BY <1>15, <2>1 DEF FetchErrs, PruneErrs, RecordError, Maybe
    <3> QED
      BY <3>1, <3>2 DEF TypeOK, SyncStates
  <2> QED
    BY <1>15, <2>2, FaultIsTyped DEF FetchErrs, PruneErrs, TypeOK
<1>16. CASE Crash
  BY <1>16, FaultIsTyped DEF Crash, TypeOK
<1>17. CASE UNCHANGED vars
  BY <1>17 DEF vars, TypeOK
<1>18. ASSUME NEW seconds \in FloodWaits, FloodWaitUnrecorded(seconds) PROVE TypeOK'
  <2>1. now + seconds \in Nat
    BY <1>18, WaitsArePositive DEF TypeOK, Times
  <2> QED
    BY <1>18, <2>1, FaultIsTyped DEF FloodWaitUnrecorded, TypeOK
<1> QED
  BY <1>1, <1>2, <1>3, <1>4, <1>5, <1>6, <1>7, <1>8, <1>9, <1>10, <1>11, <1>12, <1>13,
     <1>14, <1>15, <1>16, <1>17, <1>18 DEF Next, World, Step, Failure

(* Every variable of the engine keeps its type, for any policies and bounds: the
   cursors are ids that were fetched, never a bound of an empty batch. *)
THEOREM TypeCorrect == Spec => []TypeOK
  BY TypeInit, TypeStep, PTL DEF Spec

-----------------------------------------------------------------------------
(* Cooldowns *)

LEMMA CooldownStep == TypeOK /\ ErrorsCoolDown /\ [Next]_vars => ErrorsCoolDown'
<1> SUFFICES ASSUME TypeOK, ErrorsCoolDown, [Next]_vars PROVE ErrorsCoolDown'
  OBVIOUS
<1> USE Bounds, NullIsNoNumber DEF chat, tables, history, ErrorsCoolDown
<1>1. CASE UNCHANGED <<sync.errors, sync.cooldown>>
  BY <1>1
<1>2. CASE PersistStart \/ PersistTail \/ PersistBackfill
  <2>1. sync'.errors = 0
    BY <1>2 DEF PersistStart, PersistTail, PersistBackfill, TypeOK, SyncStates
  <2> QED
    BY <2>1
<1>3. ASSUME NEW seconds \in FloodWaits, FloodWait(seconds) PROVE ErrorsCoolDown'
  <2>1. sync'.cooldown = now + seconds /\ now + seconds \in Int
    BY <1>3, WaitsArePositive DEF FloodWait, TypeOK, SyncStates, Times
  <2> QED
    BY <2>1
<1>4. CASE FetchErrs \/ PruneErrs
  <2>1. now + ErrorWait \in Int
    BY DEF TypeOK, Times
  <2>2. /\ sync'.errors = sync.errors + 1
        /\ sync.errors + 1 >= ErrorLimit => sync'.cooldown = now + ErrorWait
    BY <1>4 DEF FetchErrs, PruneErrs, RecordError, TypeOK, SyncStates
  <2> QED
    BY <2>1, <2>2
<1>5. CASE PersistRescan
  BY <1>5 DEF PersistRescan, TypeOK, SyncStates
<1>6. CASE \/ World \/ (Step /\ UNCHANGED sync) \/ Crash \/ UNCHANGED vars
            \/ \E seconds \in FloodWaits : FloodWaitUnrecorded(seconds)
  BY <1>6 DEF World, Tick, Post, EditMessage, DeleteMessage, ChangePolicy, Crash, vars,
              FloodWaitUnrecorded
<1> QED
  BY <1>2, <1>3, <1>4, <1>5, <1>6
     DEF Next, Step, Failure, StartTick, IncrementalSkips, FetchStart, FetchTail, NothingNew,
         BackfillSkips, FetchBackfill, RescanSkips, FetchRescan, Prune

(* For any limit and any waits: a peer with that many errors in a row has a
   cooldown on record. *)
THEOREM LimitCoolsDown == Spec => []ErrorsCoolDown
<1>1. Init => ErrorsCoolDown
  BY Bounds DEF Init, ErrorsCoolDown
<1> QED
  BY <1>1, CooldownStep, TypeCorrect, PTL DEF Spec

-----------------------------------------------------------------------------
(* Soft deletes.  Between the fetch of a rescan and its write no step of the tick
   adds rows, posts are above everything mirrored, and what the fetch left out of
   its range was gone already. *)

Stale(i) == i \in Mirrored \ DOMAIN got /\ \E j \in DOMAIN got : j <= i

RowsInv ==
    /\ Mirrored \subseteq 1 .. top
    /\ DOMAIN got \subseteq 1 .. top
    /\ SoftDeletesAreSound
    /\ pc = "persist rescan" => \A i \in Ids : Stale(i) => i \notin alive

LEMMA NoneIsEmpty == DOMAIN None = {}
  BY DEF None

LEMMA MirroredSame ==
    ASSUME UNCHANGED mirror PROVE Mirrored' = Mirrored
  BY DEF Mirrored

LEMMA RescanKeepsRows ==
    ASSUME TypeOK, PersistRescan
    PROVE  Mirrored' = Mirrored
<1>1. Null \notin Versions
  BY NullIsNoNumber, Bounds DEF Versions
<1>2. \A i \in Changed : i \in Mirrored /\ got[i] \in Versions
  BY GotIsTyped DEF Changed
<1>3. \A i \in Ids : mirror'[i] = IF i \in Changed THEN got[i] ELSE mirror[i]
  BY DEF PersistRescan
<1> QED
  BY <1>1, <1>2, <1>3 DEF Mirrored

LEMMA PruneTakesRows ==
    ASSUME TypeOK, Prune
    PROVE  Mirrored' = Mirrored \ Expired
<1>1. \A i \in Ids : mirror'[i] = IF i \in Expired THEN Null ELSE mirror[i]
  BY DEF Prune
<1> QED
  BY <1>1 DEF Mirrored, Expired

LEMMA RowsStep == TypeOK /\ RowsInv /\ [Next]_vars => RowsInv'
<1> SUFFICES ASSUME TypeOK, RowsInv, [Next]_vars PROVE RowsInv'
  OBVIOUS
<1>a. top \in Nat /\ alive \subseteq 1 .. top
  BY Bounds DEF TypeOK
<1>b. gone \subseteq 1 .. top
  BY DEF TypeOK, RowsInv, Mirrored
<1>c. 1 .. top \subseteq Ids
  BY Bounds DEF TypeOK, Ids
<1>0. top \in Nat /\ alive \subseteq 1 .. top /\ gone \subseteq 1 .. top /\ 1 .. top \subseteq Ids
  BY <1>a, <1>b, <1>c
<1> USE DEF chat, tables, history, Goto, Forget
(* What leaves rows, marks and the fetch alone. *)
<1>1. ASSUME UNCHANGED <<top, mirror, gone, got>>, alive' \subseteq alive,
             pc' = "persist rescan" => pc = "persist rescan"
      PROVE  RowsInv'
  BY <1>1, MirroredSame DEF RowsInv, SoftDeletesAreSound, Stale
(* What brings rows that were fetched, and forgets the fetch. *)
<1>2. ASSUME UNCHANGED <<top, alive>>, Mirrored' \subseteq Mirrored \cup DOMAIN got,
             gone' \cap alive = {}, got' = None, pc' # "persist rescan"
      PROVE  RowsInv'
  BY <1>2, NoneIsEmpty DEF RowsInv, SoftDeletesAreSound
<1>3. CASE Post
  <2>1. top' = top + 1 /\ alive' = alive \cup {top + 1} /\ top + 1 \notin 1 .. top
    BY <1>3, <1>0 DEF Post
  <2>2. 1 .. top \subseteq 1 .. top'
    BY <2>1, <1>0
  <2>3. UNCHANGED <<mirror, gone, got, pc>>
    BY <1>3 DEF Post
  <2>4. Mirrored' = Mirrored
    BY <2>3, MirroredSame
  <2> QED
    BY <1>0, <2>1, <2>2, <2>3, <2>4 DEF RowsInv, SoftDeletesAreSound, Stale
<1>4. CASE FetchStart \/ FetchTail \/ FetchBackfill \/ FetchRescan
  <2>1. PICK S \in SUBSET alive : Fetched(S) /\ (FetchRescan => S = Newest(Window, alive))
    BY <1>4 DEF FetchStart, FetchTail, FetchBackfill, FetchRescan, Newest, Oldest, Below
  <2>2. DOMAIN got' = S
    BY <2>1 DEF Fetched
  <2>3. UNCHANGED <<top, alive, mirror, gone>>
    BY <1>4 DEF FetchStart, FetchTail, FetchBackfill, FetchRescan
  <2>4. Mirrored' = Mirrored
    BY <2>3, MirroredSame
  <2>5. ASSUME pc' = "persist rescan", NEW i \in alive, NEW j \in S, j <= i PROVE i \in S
    <3>1. FetchRescan
      BY <1>4, <2>5 DEF FetchStart, FetchTail, FetchBackfill
    <3>2. S = Newest(Window, alive)
      BY <2>1, <3>1
    <3>3. alive \in SUBSET (1 .. top) /\ Window \in Nat
      BY <1>0, Bounds
    <3>4. j \in Newest(Window, alive)
      BY <2>5, <3>2
    <3> QED
      BY <1>0, <2>5, <3>2, <3>3, <3>4, NewestIsUpper
  <2> QED
    BY <1>0, <2>1, <2>2, <2>3, <2>4, <2>5 DEF RowsInv, SoftDeletesAreSound, Stale
<1>5. CASE PersistStart \/ PersistTail \/ PersistBackfill
  <2>1. PICK S \in SUBSET DOMAIN got : Upsert(S)
    BY <1>5 DEF PersistStart, PersistTail, PersistBackfill, WithinHistory
  <2>2. Mirrored' = Mirrored \cup S /\ gone' \subseteq gone
    BY <2>1, UpsertIsTyped DEF Upsert
  <2>3. UNCHANGED <<top, alive>> /\ got' = None /\ pc' # "persist rescan"
    BY <1>5 DEF PersistStart, PersistTail, PersistBackfill
  <2> QED
    BY <1>2, <2>2, <2>3 DEF RowsInv, SoftDeletesAreSound
<1>6. CASE PersistRescan
  <2>1. DeletedIds \cap alive = {}
    BY <1>6 DEF PersistRescan, DeletedIds, RowsInv, Stale, Mirrored
  <2>2. gone' \cap alive = {}
    BY <1>6, <2>1 DEF PersistRescan, RowsInv, SoftDeletesAreSound
  <2>3. UNCHANGED <<top, alive>> /\ got' = None /\ pc' # "persist rescan"
    BY <1>6 DEF PersistRescan
  <2> QED
    BY <1>2, <1>6, <2>2, <2>3, RescanKeepsRows
<1>7. CASE Prune
  <2>1. UNCHANGED <<top, alive, got>> /\ gone' \subseteq gone /\ pc' # "persist rescan"
    BY <1>7 DEF Prune
  <2> QED
    BY <1>7, <2>1, PruneTakesRows DEF RowsInv, SoftDeletesAreSound
<1>8. CASE Failure \/ NothingNew
  <2>1. UNCHANGED <<top, alive, mirror, gone>> /\ got' = None /\ pc' # "persist rescan"
    BY <1>8 DEF Failure, FloodWait, FloodWaitUnrecorded, FetchErrs, PruneErrs, Crash, Fault, NothingNew
  <2> QED
    BY <1>2, <2>1, MirroredSame DEF RowsInv, SoftDeletesAreSound
<1>9. CASE StartTick \/ IncrementalSkips \/ BackfillSkips \/ RescanSkips
  BY <1>1, <1>9 DEF StartTick, IncrementalSkips, BackfillSkips, RescanSkips
<1>10. CASE Tick \/ (\E i \in Ids : EditMessage(i) \/ DeleteMessage(i))
              \/ (\E p \in Policies : ChangePolicy(p)) \/ UNCHANGED vars
  BY <1>1, <1>10 DEF Tick, EditMessage, DeleteMessage, ChangePolicy, vars
<1> QED
  BY <1>3, <1>4, <1>5, <1>6, <1>7, <1>8, <1>9, <1>10 DEF Next, World, Step

LEMMA RowsHold == Spec => []RowsInv
<1>1. Init => RowsInv
  BY NoneIsEmpty DEF Init, RowsInv, SoftDeletesAreSound, Mirrored
<1> QED
  BY <1>1, RowsStep, TypeCorrect, PTL DEF Spec

(* Whatever is posted, edited and deleted while rescan waits, in a window of any
   size: no row is marked deleted whose message is in the chat. *)
THEOREM MarkedAreGone == Spec => []SoftDeletesAreSound
<1>1. RowsInv => SoftDeletesAreSound
  BY DEF RowsInv
<1> QED
  BY <1>1, RowsHold, PTL

-----------------------------------------------------------------------------
(* Rescan *)

LEMMA RescanStep ==
    ASSUME TypeOK, RowsInv, PersistRescan,
           NEW i \in Mirrored, NEW j \in DOMAIN got, j <= i
    PROVE  /\ i \in alive => i \notin gone'
           /\ i \notin alive \cup DOMAIN got => i \in gone'
           /\ i \in alive \cap DOMAIN got /\ got[i] = ver[i] =>
                 Look[i][mirror'[i]] = Look[i][ver[i]]
<1>1. /\ mirror'[i] = IF i \in Changed THEN got[i] ELSE mirror[i]
      /\ gone' = (gone \ Changed) \cup DeletedIds
  BY DEF PersistRescan, Mirrored
<1>2. ASSUME i \in alive PROVE i \notin gone'
  <2>1. i \notin gone
    BY <1>2 DEF RowsInv, SoftDeletesAreSound
  <2>2. i \notin DeletedIds
    BY <1>2 DEF DeletedIds, RowsInv, Stale, PersistRescan, Mirrored
  <2> QED
    BY <1>1, <2>1, <2>2
<1>3. ASSUME i \notin DOMAIN got PROVE i \in gone'
  BY <1>1, <1>3 DEF Changed, DeletedIds
<1>4. ASSUME i \in DOMAIN got, got[i] = ver[i] PROVE Look[i][mirror'[i]] = Look[i][ver[i]]
  BY <1>1, <1>4 DEF Changed
<1> QED
  BY <1>2, <1>3, <1>4

(* For a chat and a window of any size, and whatever happens in the chat between
   the fetch and the write: a rescan adds and takes no row; in its range it marks
   deleted what had gone and nothing that is there; and a row whose message was not
   edited since looks as the message does in the columns that are compared
   (engine.py:270-347). *)
THEOREM RescanLeavesRangeExact == Spec => RescanIsExact
<1>1. TypeOK /\ RowsInv /\ [Next]_vars
          => [pc = "persist rescan" /\ pc' = "prune" =>
                /\ Mirrored' = Mirrored
                /\ \A i \in Mirrored : (\E j \in DOMAIN got : j <= i) =>
                      /\ i \in alive => i \notin gone'
                      /\ i \notin alive \cup DOMAIN got => i \in gone'
                      /\ i \in alive \cap DOMAIN got /\ got[i] = ver[i] =>
                            Look[i][mirror'[i]] = Look[i][ver[i]]]_vars
  <2> SUFFICES ASSUME TypeOK, RowsInv, [Next]_vars, pc = "persist rescan", pc' = "prune"
               PROVE  /\ Mirrored' = Mirrored
                      /\ \A i \in Mirrored : (\E j \in DOMAIN got : j <= i) =>
                            /\ i \in alive => i \notin gone'
                            /\ i \notin alive \cup DOMAIN got => i \in gone'
                            /\ i \in alive \cap DOMAIN got /\ got[i] = ver[i] =>
                                  Look[i][mirror'[i]] = Look[i][ver[i]]
    OBVIOUS
  <2>1. PersistRescan
    BY DEF Next, World, Step, Failure, Tick, Post, EditMessage, DeleteMessage, ChangePolicy,
       StartTick, IncrementalSkips, FetchStart, PersistStart, FetchTail, PersistTail, NothingNew,
       BackfillSkips, FetchBackfill, PersistBackfill, RescanSkips, FetchRescan, Prune,
       FloodWait, FloodWaitUnrecorded, FetchErrs, PruneErrs, Crash, Fault, Goto, vars
  <2> QED
    BY <2>1, RescanKeepsRows, RescanStep
<1> QED
  BY <1>1, TypeCorrect, RowsHold, PTL DEF Spec, RescanIsExact

-----------------------------------------------------------------------------
(* FloodWaits *)

(* While a recorded FloodWait lasts the row of sync_state says so, and no call is
   under way whose end could clear it. *)
FloodInv ==
    recorded > now => /\ sync.cooldown # Null
                        /\ sync.cooldown >= recorded
                        /\ pc \notin Awaiting

LEMMA FloodStep ==
    ASSUME "prune" \notin Failing, TypeOK, FloodInv, [Next]_vars
    PROVE  FloodInv'
<1> USE DEF chat, tables, history, Goto, Forget
<1>1. now \in Int /\ recorded \in Int /\ sync \in SyncStates
  BY Bounds DEF TypeOK, Times
<1>2. CASE Tick
  BY <1>1, <1>2 DEF Tick, FloodInv
<1>3. CASE Post \/ (\E i \in Ids : EditMessage(i) \/ DeleteMessage(i))
              \/ (\E p \in Policies : ChangePolicy(p)) \/ UNCHANGED vars
  BY <1>3 DEF Post, EditMessage, DeleteMessage, ChangePolicy, vars, FloodInv
<1>4. CASE StartTick \/ IncrementalSkips \/ NothingNew \/ BackfillSkips \/ RescanSkips \/ Prune
  BY <1>4 DEF StartTick, IncrementalSkips, NothingNew, BackfillSkips, RescanSkips, Prune,
              Awaiting, FloodInv
<1>5. CASE FetchStart \/ FetchTail \/ FetchBackfill \/ FetchRescan
  <2>1. ~ Cooling
    BY <1>5 DEF FetchStart, FetchTail, FetchBackfill, FetchRescan, CoolingDown
  <2>2. ~ (recorded > now)
    <3> SUFFICES ASSUME recorded > now PROVE FALSE
      OBVIOUS
    <3>1. sync.cooldown \in Int /\ sync.cooldown >= recorded /\ sync.cooldown # Null
      BY <1>1 DEF FloodInv, SyncStates, Maybe
    <3> QED
      BY <1>1, <2>1, <3>1 DEF Cooling
  <2>3. now' = now /\ recorded' = recorded
    BY <1>5 DEF FetchStart, FetchTail, FetchBackfill, FetchRescan
  <2> QED
    BY <2>2, <2>3 DEF FloodInv
<1>6. CASE PersistStart \/ PersistTail \/ PersistBackfill \/ PersistRescan \/ FetchErrs
  <2>1. pc \in Awaiting
    BY <1>6 DEF PersistStart, PersistTail, PersistBackfill, PersistRescan, FetchErrs, Awaiting
  <2>2. now' = now /\ recorded' = recorded
    BY <1>6 DEF PersistStart, PersistTail, PersistBackfill, PersistRescan, FetchErrs
  <2> QED
    BY <2>1, <2>2 DEF FloodInv
<1>7. ASSUME NEW seconds \in FloodWaits, FloodWait(seconds) PROVE FloodInv'
  <2>1. now + seconds \in Nat
    BY <1>1, WaitsArePositive, Bounds DEF TypeOK, Times
  <2>2. sync'.cooldown = now + seconds /\ recorded' = now + seconds /\ pc' = "idle"
    BY <1>1, <1>7 DEF FloodWait, Fault, SyncStates
  <2>3. now + seconds # Null /\ now + seconds >= now + seconds
    BY <2>1, NullIsNoNumber
  <2>4. pc' \notin Awaiting
    BY <2>2 DEF Awaiting
  <2> QED
    BY <2>2, <2>3, <2>4 DEF FloodInv
<1>8. CASE PruneErrs
  BY <1>8 DEF PruneErrs, Fault
<1>9. CASE Crash
  BY <1>9 DEF Crash, Fault, FloodInv, Awaiting
<1>10. ASSUME NEW seconds \in FloodWaits, FloodWaitUnrecorded(seconds) PROVE FloodInv'
  BY <1>10 DEF FloodWaitUnrecorded, Fault, FloodInv, Awaiting
<1> QED
  BY <1>2, <1>3, <1>4, <1>5, <1>6, <1>7, <1>8, <1>9, <1>10 DEF Next, World, Step, Failure

(* As long as no prune fails, no call to Telegram starts while a FloodWait lasts
   that was recorded, whatever fails otherwise, the record of another FloodWait
   among it.  Only the error that a failing prune records can take the cooldown of
   a FloodWait away (record_error, engine.py:389-415). *)
THEOREM RecordedWaitsAreKept ==
    ASSUME "prune" \notin Failing
    PROVE  Spec => RecordedWaitIsKept
<1>1. Init => FloodInv
  BY Bounds DEF Init, FloodInv
<1>2. TypeOK /\ FloodInv /\ [Next]_vars => FloodInv'
  BY FloodStep
<1>3. TypeOK /\ FloodInv /\ FloodInv' /\ [Next]_vars
         => [pc \notin Awaiting /\ pc' \in Awaiting => now >= recorded]_vars
  <2> SUFFICES ASSUME TypeOK, FloodInv, FloodInv', [Next]_vars,
                      pc \notin Awaiting, pc' \in Awaiting
               PROVE  now >= recorded
    OBVIOUS
  <2>1. now' = now /\ recorded' = recorded
    BY DEF Next, World, Step, Failure, Tick, Post, EditMessage, DeleteMessage, ChangePolicy,
           StartTick, IncrementalSkips, FetchStart, PersistStart, FetchTail, PersistTail,
           NothingNew, BackfillSkips, FetchBackfill, PersistBackfill, RescanSkips,
           FetchRescan, PersistRescan, Prune, FloodWait, FloodWaitUnrecorded, FetchErrs, PruneErrs, Crash,
           Fault, Goto, vars, Awaiting, history
  <2>2. now \in Int /\ recorded \in Int
    BY Bounds DEF TypeOK, Times
  <2> QED
    BY <2>1, <2>2 DEF FloodInv
<1> QED
  BY <1>1, <1>2, <1>3, TypeCorrect, PTL DEF Spec, RecordedWaitIsKept

(* If besides each FloodWait comes to be recorded, that is, no process dies between
   the exception and the update of record_flood_wait and this update does not fail
   (runtime.py:92-93), no call starts while any FloodWait lasts. *)
THEOREM FloodWaitsAreKept ==
    ASSUME "prune" \notin Failing, "unrecorded" \notin Failing
    PROVE  Spec => FloodWaitIsKept
<1> DEFINE AllRecorded == recorded = floodUntil
<1>1. Init => AllRecorded
  BY DEF Init
<1>2. AllRecorded /\ [Next]_vars => AllRecorded'
  BY DEF Next, World, Step, Failure, Tick, Post, EditMessage, DeleteMessage, ChangePolicy,
         StartTick, IncrementalSkips, FetchStart, PersistStart, FetchTail, PersistTail,
         NothingNew, BackfillSkips, FetchBackfill, PersistBackfill, RescanSkips,
         FetchRescan, PersistRescan, Prune, FloodWait, FloodWaitUnrecorded, FetchErrs,
         PruneErrs, Crash, Fault, vars, history
<1>3. Spec => RecordedWaitIsKept
  BY RecordedWaitsAreKept
<1>4. AllRecorded /\ [pc \notin Awaiting /\ pc' \in Awaiting => now >= recorded]_vars
         => [pc \notin Awaiting /\ pc' \in Awaiting => now >= floodUntil]_vars
  OBVIOUS
<1> QED
  BY <1>1, <1>2, <1>3, <1>4, PTL DEF Spec, FloodWaitIsKept, RecordedWaitIsKept

=============================================================================
