-------------------------- MODULE SyncMirrorProofs --------------------------
(***************************************************************************)
(* What one peer's mirror holds, for any chat, batch, window and order of  *)
(* posts, deletions, failures and restarts.  While the history of the      *)
(* policy stays the same, messages that retention deleted stay away and    *)
(* none is lost between the cursors.  While nothing is pruned, deepening   *)
(* the history resumes backfill below the oldest row.                      *)
(***************************************************************************)
EXTENDS SyncProofs

(* The peer's entry may change its retention, and not its history. *)
OneHistory == \A p, q \in Policies : p.history = q.history

Kept == Mirrored \cup pruned

(* Ids and dates grow together, and nothing is known of messages to come. *)
ChatInv ==
    /\ pruned \subseteq 1 .. top
    /\ sync.last <= top
    /\ \A i \in 1 .. top : ts[i] <= now
    /\ \A i, j \in 1 .. top : i <= j => ts[i] <= ts[j]

(* A cutoff once computed, and the date of what was pruned, lie before the
   history of now. *)
BeforeHistory(date) == policy.history # Null /\ date <= now - policy.history

CutoffInv ==
    /\ cutoff # Null => BeforeHistory(cutoff)
    /\ sync.cutoff # Null => BeforeHistory(sync.cutoff)
    /\ \A i \in pruned : BeforeHistory(ts[i] + 1)

(* Nothing alive is above last and below a row, and the backfill under way is
   below last. *)
CursorInv ==
    sync.last # 0 =>
        /\ \A i \in alive, m \in Kept : i <= m => i <= sync.last
        /\ ~sync.done => sync.cursor # Null /\ sync.cursor <= sync.last

(* What the cursors claim, of the messages up to last. *)
Covered(i) ==
    /\ i <= sync.last
    /\ IF sync.done THEN sync.cutoff = Null \/ ts[i] >= sync.cutoff ELSE i >= sync.cursor

FilledInv == sync.last # 0 => \A i \in alive : Covered(i) => i \in Kept

(* A fetch that is yet to be written: it has what is alive between its bounds, or
   down to the beginning if it ends the backfill, and nothing that the write must
   not bring back. *)
PrunedAreCut == \A i \in pruned : cutoff # Null /\ ts[i] < cutoff

StartInv ==
    /\ PrunedAreCut
    /\ \A i \in alive, m \in Kept \cup DOMAIN got : i <= m => \E j \in DOMAIN got : i <= j
    /\ \A i \in alive, j, k \in DOMAIN got : j <= i /\ i <= k => i \in DOMAIN got
    /\ BatchEnds(DOMAIN got) => \A i \in alive, k \in DOMAIN got : i <= k => i \in DOMAIN got

TailInv ==
    /\ sync.last # 0
    /\ DOMAIN got \cap pruned = {}
    /\ \A j \in DOMAIN got : j > MinId
    /\ \A i \in alive, j \in DOMAIN got : i > MinId /\ i <= j => i \in DOMAIN got

BackfillInv ==
    /\ PrunedAreCut
    /\ sync.last # 0 =>
          /\ ~sync.done
          /\ \A j \in DOMAIN got : j < sync.cursor
          /\ \A i \in alive, j \in DOMAIN got : j <= i /\ i < sync.cursor => i \in DOMAIN got
          /\ BatchEnds(DOMAIN got) => \A i \in alive : i < sync.cursor => i \in DOMAIN got

FetchInv ==
    /\ pc = "persist start" => StartInv
    /\ pc = "persist tail" => TailInv
    /\ pc = "persist backfill" => BackfillInv

MirrorInv ==
    ChatInv /\ CutoffInv /\ PrunedStaysGone /\ CursorInv /\ FilledInv /\ FetchInv

-----------------------------------------------------------------------------
(* What a fetch of the newest takes *)

LEMMA NewestHasTop ==
    ASSUME NEW m \in Nat, NEW S \in SUBSET (1 .. m), NEW n \in Nat \ {0}, NEW i \in S
    PROVE  \E j \in Newest(n, S) : i <= j
<1>0. S \in SUBSET (0 .. m) /\ S # {}
  OBVIOUS
<1>1. PICK x \in S : \A y \in S : x >= y
  BY <1>0, GreatestExists
<1>2. {y \in S : y > x} = {}
  <2>1. ASSUME NEW y \in S PROVE ~ (y > x)
    <3>1. x \in 0 .. m /\ y \in 0 .. m /\ x >= y
      BY <1>0, <1>1
    <3> QED
      BY <3>1
  <2> QED
    BY <2>1
<1>3. x \in Newest(n, S)
  BY <1>2, FS_EmptySet DEF Newest
<1>4. i <= x
  BY <1>1
<1> QED
  BY <1>3, <1>4

(* A fetch that is not full has left nothing out. *)
LEMMA NotFullIsAll ==
    ASSUME NEW m \in Nat, NEW S \in SUBSET (1 .. m), NEW n \in Nat,
           Cardinality(Newest(n, S)) < n
    PROVE  Newest(n, S) = S
<1> DEFINE left == S \ Newest(n, S)
<1> SUFFICES ASSUME left # {} PROVE FALSE
  BY DEF Newest
<1>1. left \in SUBSET (0 .. m)
  <2>1. left \in SUBSET (1 .. m)
    OBVIOUS
  <2>2. 1 .. m \subseteq 0 .. m
    OBVIOUS
  <2> QED
    BY <2>1, <2>2
<1>2. PICK x \in left : \A y \in left : x >= y
  <2> HIDE DEF left
  <2> QED
    BY <1>1, GreatestExists
<1> DEFINE above == {y \in S : y > x}
<1>3. above \in SUBSET Newest(n, S)
  <2>1. ASSUME NEW y \in S, y > x, y \notin Newest(n, S) PROVE FALSE
    <3>1. y \in left /\ x \in 1 .. m /\ y \in 1 .. m
      BY <2>1
    <3>2. x >= y
      BY <1>2, <3>1
    <3> QED
      BY <2>1, <3>1, <3>2
  <2> QED
    BY <2>1
<1>4. IsFiniteSet(Newest(n, S))
  <2>1. Newest(n, S) \in SUBSET (1 .. m)
    BY DEF Newest
  <2>2. IsFiniteSet(1 .. m)
    BY FS_Interval
  <2> QED
    BY <2>1, <2>2, FS_Subset
<1>5. Cardinality(above) <= Cardinality(Newest(n, S))
  BY <1>3, <1>4, FS_Subset
<1>6. Cardinality(above) \in Nat /\ Cardinality(Newest(n, S)) \in Nat
  BY <1>3, <1>4, FS_Subset, FS_CardinalityType
<1>7. Cardinality(above) < n
  BY <1>5, <1>6
<1> QED
  BY <1>2, <1>7 DEF Newest

-----------------------------------------------------------------------------
(* What the types say of the numbers compared below *)

LEMMA Numbers ==
    ASSUME TypeOK, RowsInv
    PROVE  /\ now \in Nat /\ top \in Nat /\ sync.last \in Nat
           /\ 1 .. top \subseteq Ids /\ Ids \subseteq Nat
           /\ alive \subseteq 1 .. top /\ Mirrored \subseteq 1 .. top /\ DOMAIN got \subseteq 1 .. top
           /\ \A i \in Ids : ts[i] \in Nat
           /\ sync.cursor # Null => sync.cursor \in Ids
           /\ cutoff # Null => cutoff \in Int
           /\ sync.cutoff # Null => sync.cutoff \in Int
           /\ policy.history # Null => policy.history \in Nat
<1>1. now \in Nat /\ top \in Nat /\ 1 .. top \subseteq Ids /\ alive \subseteq 1 .. top
  BY Bounds DEF TypeOK, Times, Ids
<1>2. \A i \in Ids : ts[i] \in Nat
  BY Bounds DEF TypeOK, Times
<1>3. /\ sync.last \in Nat
      /\ sync.cursor # Null => sync.cursor \in Ids
      /\ cutoff # Null => cutoff \in Int
      /\ sync.cutoff # Null => sync.cutoff \in Int
  BY DEF TypeOK, SyncStates, Maybe
<1>4. policy.history # Null => policy.history \in Nat
  BY PoliciesAreValid DEF TypeOK, ValidPolicy
<1>5. Mirrored \subseteq 1 .. top /\ DOMAIN got \subseteq 1 .. top
  BY DEF RowsInv
<1>6. Ids \subseteq Nat
  BY Bounds DEF Ids
<1> QED
  BY <1>1, <1>2, <1>3, <1>4, <1>5, <1>6

LEMMA MinIdIsTop ==
    ASSUME TypeOK, RowsInv
    PROVE  /\ MinId \in Nat /\ MinId >= sync.last
           /\ \A m \in Mirrored : m <= MinId
           /\ MinId = sync.last \/ MinId \in Mirrored
<1>1. PICK n \in Nat : sync.last <= n /\ top <= n
  BY Numbers
<1>2. {sync.last} \cup Mirrored \in SUBSET (0 .. n)
  BY <1>1, Numbers
<1>3. /\ MinId \in {sync.last} \cup Mirrored
      /\ \A y \in {sync.last} \cup Mirrored : MinId >= y
  BY <1>2, MaxIsGreatest DEF MinId
<1> QED
  BY <1>2, <1>3

-----------------------------------------------------------------------------
(* Steps that write no rows *)

Unfetched == pc \notin {"persist start", "persist tail", "persist backfill"}

(* The clock goes on, messages vanish, a fetch is forgotten, rows are pruned. *)
LEMMA MirrorFrame ==
    ASSUME TypeOK, RowsInv, TypeOK', RowsInv', MirrorInv,
           UNCHANGED <<top, ts>>, alive' \subseteq alive, now' >= now,
           policy'.history = policy.history,
           UNCHANGED <<Kept, sync.last, sync.cursor, sync.done, sync.cutoff>>,
           Mirrored' \subseteq Mirrored,
           (\A i \in pruned' \ pruned : i \in Mirrored /\ BeforeHistory(ts[i] + 1)'),
           pruned' \cap Mirrored' = {},
           cutoff' \in {cutoff, Null},
           Unfetched' \/ (UNCHANGED <<got, cutoff, pc, Mirrored, pruned>>)
    PROVE  MirrorInv'
<1> USE Numbers, NullIsNoNumber
<1>1. ChatInv'
  <2>1. pruned' \subseteq 1 .. top
    BY DEF MirrorInv, ChatInv
  <2>2. \A i \in 1 .. top : ts[i] <= now'
    <3>1. ASSUME NEW i \in 1 .. top PROVE ts[i] <= now'
      <4>1. ts[i] <= now /\ ts[i] \in Nat /\ now \in Nat /\ now' \in Nat
        BY DEF MirrorInv, ChatInv, TypeOK, Times
      <4> QED
        BY <4>1
    <3> QED
      BY <3>1
  <2> QED
    BY <2>1, <2>2 DEF MirrorInv, ChatInv
<1>2. ASSUME NEW d \in Int, BeforeHistory(d) PROVE BeforeHistory(d)'
  <2>1. policy.history \in Nat /\ now \in Nat /\ now' \in Nat
    BY <1>2 DEF BeforeHistory, TypeOK, Times
  <2> QED
    BY <1>2, <2>1 DEF BeforeHistory
<1>3. CutoffInv'
  <2>1. \A i \in pruned : ts[i] + 1 \in Int
    BY DEF MirrorInv, ChatInv
  <2> QED
    BY <1>2, <2>1 DEF MirrorInv, CutoffInv
<1>4. CursorInv' /\ FilledInv'
  BY DEF MirrorInv, CursorInv, FilledInv, Covered
<1>5. FetchInv'
  <2>1. CASE Unfetched'
    BY <2>1 DEF Unfetched, FetchInv
  <2>2. CASE UNCHANGED <<got, cutoff, pc, Mirrored, pruned>>
    <3>1. MinId' = MinId
      BY <2>2 DEF MinId
    <3>2. PrunedAreCut => PrunedAreCut'
      BY <2>2 DEF PrunedAreCut
    <3>3. StartInv => StartInv'
      BY <2>2, <3>2 DEF StartInv, BatchEnds
    <3>4. TailInv => TailInv'
      BY <2>2, <3>1 DEF TailInv
    <3>5. BackfillInv => BackfillInv'
      BY <2>2, <3>2 DEF BackfillInv, BatchEnds
    <3> QED
      BY <2>2, <3>3, <3>4, <3>5 DEF MirrorInv, FetchInv
  <2> QED
    BY <2>1, <2>2
<1> QED
  BY <1>1, <1>3, <1>4, <1>5 DEF MirrorInv, PrunedStaysGone

LEMMA KeptSame ==
    ASSUME UNCHANGED <<mirror, pruned>> PROVE Mirrored' = Mirrored /\ Kept' = Kept
  BY DEF Mirrored, Kept

LEMMA PostKeepsMirror ==
    ASSUME TypeOK, RowsInv, TypeOK', RowsInv', MirrorInv, Post
    PROVE  MirrorInv'
<1> USE Numbers, NullIsNoNumber
<1>1. /\ top' = top + 1 /\ alive' = alive \cup {top + 1}
      /\ top + 1 \notin 1 .. top
      /\ UNCHANGED <<now, policy, mirror, gone, sync, pc, got, cutoff, pruned>>
  BY DEF Post, tables, history
<1>2. Mirrored' = Mirrored /\ Kept' = Kept /\ MinId' = MinId
  BY <1>1, KeptSame DEF MinId
<1>3. (\A i \in 1 .. top : ts'[i] = ts[i]) /\ ts'[top + 1] = now
  BY <1>1 DEF Post, TypeOK, Ids
<1>4. 1 .. top' = (1 .. top) \cup {top + 1}
  BY <1>1
<1>5. Kept \subseteq 1 .. top /\ pruned \subseteq 1 .. top
  BY DEF Kept, MirrorInv, ChatInv
<1>6. ChatInv'
  <2>1. \A i \in 1 .. top' : ts'[i] <= now
    BY <1>3, <1>4 DEF MirrorInv, ChatInv
  <2>2. ASSUME NEW i \in 1 .. top', NEW j \in 1 .. top', i <= j PROVE ts'[i] <= ts'[j]
    <3>1. CASE j = top + 1
      BY <1>3, <2>1, <3>1
    <3>2. CASE j # top + 1
      <4>1. i \in 1 .. top /\ j \in 1 .. top
        BY <1>1, <2>2, <3>2
      <4> QED
        BY <1>3, <2>2, <4>1 DEF MirrorInv, ChatInv
    <3> QED
      BY <3>1, <3>2
  <2>3. pruned' \subseteq 1 .. top' /\ sync'.last <= top'
    <3>1. sync.last <= top
      BY DEF MirrorInv, ChatInv
    <3> QED
      BY <1>1, <1>4, <1>5, <3>1
  <2> QED
    BY <1>1, <2>1, <2>2, <2>3 DEF ChatInv
<1>7. CutoffInv'
  BY <1>1, <1>3, <1>5 DEF MirrorInv, CutoffInv, BeforeHistory
<1>8. CursorInv'
  <2>1. ASSUME NEW m \in Kept PROVE ~ (top + 1 <= m)
    BY <1>5, <2>1
  <2> QED
    BY <1>1, <1>2, <2>1 DEF MirrorInv, CursorInv
<1>9. FilledInv'
  <2>1. ~ (top + 1 <= sync.last)
    BY DEF MirrorInv, ChatInv
  <2>2. \A i \in alive : Covered(i)' => Covered(i)
    BY <1>1, <1>3 DEF Covered
  <2>3. ASSUME NEW i \in alive', Covered(i)' PROVE i \in alive
    BY <1>1, <2>1, <2>3 DEF Covered
  <2> QED
    BY <1>1, <1>2, <2>2, <2>3 DEF MirrorInv, FilledInv
<1>10. FetchInv'
  <2>1. PrunedAreCut => PrunedAreCut'
    BY <1>1, <1>3, <1>5 DEF PrunedAreCut
  <2>2. ASSUME NEW m \in Kept \cup DOMAIN got PROVE ~ (top + 1 <= m)
    BY <1>5, <2>2
  <2>3. StartInv => StartInv'
    BY <1>1, <1>2, <2>1, <2>2 DEF StartInv, BatchEnds
  <2>4. TailInv => TailInv'
    BY <1>1, <1>2, <2>2 DEF TailInv
  <2>5. BackfillInv => BackfillInv'
    <3>1. sync.last # 0 /\ ~sync.done => ~ (top + 1 < sync.cursor)
      <4>1. sync.last # 0 /\ ~sync.done
                => sync.cursor \in Nat /\ sync.cursor <= sync.last /\ sync.last <= top
        BY DEF MirrorInv, CursorInv, ChatInv
      <4> QED
        BY <4>1
    <3> QED
      BY <1>1, <2>1, <2>2, <3>1 DEF BackfillInv, BatchEnds
  <2> QED
    BY <1>1, <2>3, <2>4, <2>5 DEF MirrorInv, FetchInv
<1>11. PrunedStaysGone'
  BY <1>1, <1>2 DEF MirrorInv, PrunedStaysGone
<1> QED
  BY <1>6, <1>7, <1>8, <1>9, <1>10, <1>11 DEF MirrorInv

-----------------------------------------------------------------------------
(* Fetches *)

(* A fetch leaves all but pc, got and cutoff as they are. *)
LEMMA FetchFrame ==
    ASSUME TypeOK, RowsInv, MirrorInv,
           UNCHANGED <<now, top, ts, alive, policy, mirror, pruned, sync>>,
           cutoff' \in {cutoff, HistoryCutoff},
           FetchInv'
    PROVE  MirrorInv'
<1> USE Numbers, NullIsNoNumber
<1>1. Mirrored' = Mirrored /\ Kept' = Kept
  BY KeptSame
<1>2. ChatInv' /\ CursorInv' /\ FilledInv' /\ PrunedStaysGone'
  BY <1>1 DEF MirrorInv, ChatInv, CursorInv, FilledInv, Covered, PrunedStaysGone
<1>3. CutoffInv'
  <2>1. HistoryCutoff # Null => policy.history # Null /\ HistoryCutoff <= now - policy.history
    BY DEF HistoryCutoff
  <2> QED
    BY <2>1 DEF MirrorInv, CutoffInv, BeforeHistory
<1> QED
  BY <1>2, <1>3 DEF MirrorInv

(* The cutoff of a fetch is above what was pruned: a retention is never shorter
   than the history. *)
LEMMA CutoffCuts ==
    ASSUME TypeOK, RowsInv, MirrorInv, UNCHANGED <<ts, pruned>>, cutoff' = HistoryCutoff
    PROVE  PrunedAreCut'
<1>1. ASSUME NEW i \in pruned PROVE cutoff' # Null /\ ts[i] < cutoff'
  <2>1. ts[i] \in Nat /\ now \in Nat /\ BeforeHistory(ts[i] + 1)
    BY Numbers DEF MirrorInv, ChatInv, CutoffInv
  <2>2. policy.history \in Nat /\ ts[i] + 1 <= now - policy.history
    BY <2>1, Numbers DEF BeforeHistory
  <2>3. cutoff' = now - policy.history
    BY <2>2, NullIsNoNumber DEF HistoryCutoff
  <2> QED
    BY <2>1, <2>2, <2>3, NullIsNoNumber
<1> QED
  BY <1>1 DEF PrunedAreCut

LEMMA StartKeepsMirror ==
    ASSUME TypeOK, RowsInv, MirrorInv, FetchStart
    PROVE  MirrorInv'
<1> DEFINE F == Newest(Batch, alive)
<1>1. /\ UNCHANGED <<now, top, ts, alive, policy, mirror, pruned, sync>>
      /\ cutoff' = HistoryCutoff /\ pc' = "persist start" /\ DOMAIN got' = F
  BY DEF FetchStart, Fetched, Goto, chat, tables, history
<1>2. alive \in SUBSET (1 .. top) /\ top \in Nat /\ Batch \in Nat \ {0}
  BY Numbers, Bounds
<1>3. PrunedAreCut'
  BY <1>1, CutoffCuts
<1>4. \A i \in alive : \E j \in F : i <= j
  BY <1>2, NewestHasTop
<1>5. \A i \in alive, j \in F : j <= i => i \in F
  BY <1>2, NewestIsUpper
<1>6. BatchEnds(F) => F = alive
  BY <1>2, NotFullIsAll DEF BatchEnds
<1>7. StartInv'
  <2> HIDE DEF F
  <2>1. BatchEnds(DOMAIN got)' <=> BatchEnds(F)
    BY <1>1 DEF BatchEnds
  <2> QED
    BY <1>1, <1>3, <1>4, <1>5, <1>6, <2>1 DEF StartInv
<1>8. FetchInv'
  BY <1>1, <1>7 DEF FetchInv
<1> QED
  BY <1>1, <1>8, FetchFrame

LEMMA TailKeepsMirror ==
    ASSUME TypeOK, RowsInv, MirrorInv, FetchTail
    PROVE  MirrorInv'
<1> DEFINE new == {i \in alive : i > MinId}
           F   == Oldest(Batch, new)
<1>1. /\ UNCHANGED <<now, top, ts, alive, policy, mirror, pruned, sync, cutoff>>
      /\ pc' = "persist tail" /\ DOMAIN got' = F /\ sync.last # 0
  BY DEF FetchTail, Fetched, Goto, chat, tables, history
<1>2. /\ new \in SUBSET (1 .. top) /\ F \in SUBSET new
      /\ top \in Nat /\ Batch \in Nat
  BY Numbers, Bounds DEF Oldest
<1>3. MinId' = MinId
  BY <1>1, KeptSame DEF MinId
<1>4. \A i \in new, j \in F : i <= j => i \in F
  <2> HIDE DEF new
  <2> QED
    BY <1>2, OldestIsLower
<1>5. F \cap pruned = {}
  <2>1. ASSUME NEW i \in F, i \in pruned PROVE FALSE
    <3>1. i \in alive /\ i > MinId /\ i \in Kept /\ i \in Nat
      BY <1>2, <2>1, Numbers DEF Kept
    <3>2. \A m \in Kept : i <= m => i <= sync.last
      BY <1>1, <3>1 DEF MirrorInv, CursorInv
    <3>3. MinId \in Nat /\ MinId >= sync.last /\ sync.last \in Nat
      BY MinIdIsTop, Numbers
    <3> QED
      BY <3>1, <3>2, <3>3
  <2> QED
    BY <2>1
<1>6. \A j \in F : j > MinId
  BY <1>2
<1>7. TailInv'
  <2>1. \A i \in alive, j \in F : i > MinId /\ i <= j => i \in F
    BY <1>4
  <2> HIDE DEF F
  <2> QED
    BY <1>1, <1>3, <1>5, <1>6, <2>1 DEF TailInv
<1>8. FetchInv'
  BY <1>1, <1>7 DEF FetchInv
<1> QED
  BY <1>1, <1>8, FetchFrame

(* While the history stays the same, a backfill that is done is never deepened. *)
LEMMA NeverDeepened ==
    ASSUME TypeOK, RowsInv, MirrorInv
    PROVE  ~HistoryDeepened
<1> SUFFICES ASSUME HistoryDeepened PROVE FALSE
  OBVIOUS
<1>1. sync.cutoff # Null /\ BeforeHistory(sync.cutoff)
  BY DEF HistoryDeepened, MirrorInv, CutoffInv
<1>2. HistoryCutoff = now - policy.history
  BY <1>1 DEF BeforeHistory, HistoryCutoff
<1>3. now \in Nat /\ policy.history \in Nat /\ sync.cutoff \in Int
  BY <1>1, Numbers DEF BeforeHistory
<1>4. HistoryCutoff # Null
  BY <1>2, <1>3, NullIsNoNumber
<1> QED
  BY <1>1, <1>2, <1>3, <1>4 DEF HistoryDeepened, BeforeHistory

LEMMA BackfillKeepsMirror ==
    ASSUME TypeOK, RowsInv, MirrorInv, FetchBackfill
    PROVE  MirrorInv'
<1> DEFINE F == Newest(Batch, Below)
<1>1. /\ UNCHANGED <<now, top, ts, alive, policy, mirror, pruned, sync>>
      /\ cutoff' = HistoryCutoff /\ pc' = "persist backfill" /\ DOMAIN got' = F
      /\ ~sync.done
  BY NeverDeepened DEF FetchBackfill, Fetched, Goto, chat, tables, history
<1>2. /\ Below \in SUBSET (1 .. top) /\ F \in SUBSET Below
      /\ top \in Nat /\ Batch \in Nat
  BY Numbers, Bounds DEF Below, Newest
<1>3. PrunedAreCut'
  BY <1>1, CutoffCuts
<1>4. \A i \in Below, j \in F : j <= i => i \in F
  BY <1>2, NewestIsUpper
<1>5. BatchEnds(F) => F = Below
  BY <1>2, NotFullIsAll DEF BatchEnds
<1>6. sync.last # 0 => Below = {i \in alive : i < sync.cursor}
  BY <1>1 DEF Below, MirrorInv, CursorInv
<1>7. BackfillInv'
  <2> HIDE DEF F
  <2>1. BatchEnds(DOMAIN got)' <=> BatchEnds(F)
    BY <1>1 DEF BatchEnds
  <2> QED
    BY <1>1, <1>2, <1>3, <1>4, <1>5, <1>6, <2>1 DEF BackfillInv
<1>8. FetchInv'
  BY <1>1, <1>7 DEF FetchInv
<1> QED
  BY <1>1, <1>8, FetchFrame

-----------------------------------------------------------------------------
(* Writes *)

(* What a write of the rows S does, beyond the cursors. *)
LEMMA WriteKeeps ==
    ASSUME TypeOK, RowsInv, MirrorInv,
           UNCHANGED <<now, top, ts, alive, policy, pruned>>,
           NEW S \in SUBSET DOMAIN got, Upsert(S), S \cap pruned = {},
           cutoff' = Null, Unfetched',
           sync'.cutoff \in {sync.cutoff, cutoff, Null}, sync'.last <= top
    PROVE  /\ Mirrored' = Mirrored \cup S /\ Kept' = Kept \cup S
           /\ ChatInv' /\ CutoffInv' /\ PrunedStaysGone' /\ FetchInv'
<1>1. Mirrored' = Mirrored \cup S
  BY UpsertIsTyped
<1>2. Kept' = Kept \cup S
  BY <1>1 DEF Kept
<1>3. ChatInv' /\ FetchInv'
  BY DEF MirrorInv, ChatInv, Unfetched, FetchInv
<1>4. CutoffInv'
  BY DEF MirrorInv, CutoffInv, BeforeHistory
<1>5. PrunedStaysGone'
  BY <1>1 DEF MirrorInv, PrunedStaysGone
<1> QED
  BY <1>1, <1>2, <1>3, <1>4, <1>5

LEMMA PrunedAreOutside ==
    ASSUME TypeOK, RowsInv, MirrorInv, PrunedAreCut
    PROVE  WithinHistory \cap pruned = {}
<1>1. ASSUME NEW i \in pruned, i \in WithinHistory PROVE FALSE
  <2>1. cutoff # Null /\ ts[i] < cutoff /\ ts[i] >= cutoff
    BY <1>1 DEF PrunedAreCut, WithinHistory
  <2>2. ts[i] \in Nat /\ cutoff \in Int
    BY <2>1, Numbers DEF MirrorInv, ChatInv
  <2> QED
    BY <2>1, <2>2
<1> QED
  BY <1>1

(* If a fetched message is older than the cutoff, each message within the
   history is newer than some fetched one. *)
LEMMA CrossedBelow ==
    ASSUME TypeOK, RowsInv, ChatInv, WithinHistory # DOMAIN got
    PROVE  /\ cutoff # Null
           /\ \A i \in alive : ts[i] >= cutoff => \E j \in DOMAIN got : j <= i
<1>1. PICK x \in DOMAIN got : cutoff # Null /\ ~(ts[x] >= cutoff)
  BY DEF WithinHistory
<1>2. x \in 1 .. top /\ ts[x] \in Nat /\ cutoff \in Int
  BY <1>1, Numbers
<1>3. ASSUME NEW i \in alive, ts[i] >= cutoff PROVE x <= i
  <2>1. i \in 1 .. top /\ ts[i] \in Nat
    BY Numbers
  <2>2. i <= x => ts[i] <= ts[x]
    BY <1>2, <2>1 DEF ChatInv
  <2> QED
    BY <1>1, <1>2, <1>3, <2>1, <2>2
<1> QED
  BY <1>1, <1>3

LEMMA StartWriteKeeps ==
    ASSUME TypeOK, RowsInv, MirrorInv, PersistStart
    PROVE  MirrorInv'
<1> DEFINE F == DOMAIN got
           S == WithinHistory
           crossed == S # F
<1>1. /\ UNCHANGED <<now, top, ts, alive, policy, pruned>>
      /\ Upsert(S) /\ F # {}
      /\ cutoff' = Null /\ Unfetched'
  BY GotIsTyped DEF PersistStart, Goto, Forget, Unfetched, chat, history
<1>2. /\ sync'.last = Max(F) /\ sync'.cursor = LowestOf(F)
      /\ sync'.done = (crossed \/ BatchEnds(F))
      /\ sync'.cutoff = IF crossed THEN cutoff ELSE Null
  BY DEF PersistStart, TypeOK, SyncStates
<1>3. /\ F \in SUBSET Ids /\ F \in SUBSET (1 .. top)
      /\ Max(F) \in F /\ LowestOf(F) \in F
      /\ \A i \in F : LowestOf(F) <= i /\ i <= Max(F)
  BY <1>1, Numbers, GotIsTyped, ExtremesAreTyped
<1>4. StartInv
  BY DEF PersistStart, MirrorInv, FetchInv
<1>5. S \in SUBSET F /\ S \cap pruned = {}
  BY <1>4, PrunedAreOutside DEF StartInv, WithinHistory
<1>6. /\ Kept' = Kept \cup S
      /\ ChatInv' /\ CutoffInv' /\ PrunedStaysGone' /\ FetchInv'
  <2>1. sync'.last <= top
    BY <1>2, <1>3, Numbers
  <2> HIDE DEF S
  <2> QED
    BY <1>1, <1>2, <1>5, <2>1, WriteKeeps
<1>7. \A i \in alive : i \in Nat /\ F \in SUBSET Nat
  BY <1>3, Numbers
<1>8. CursorInv'
  <2>1. ASSUME NEW i \in alive, NEW m \in Kept', i <= m PROVE i <= Max(F)
    <3>1. m \in Kept \cup F
      BY <1>5, <1>6
    <3>2. PICK j \in F : i <= j
      BY <1>4, <2>1, <3>1 DEF StartInv
    <3>3. j <= Max(F) /\ i \in Nat /\ j \in Nat /\ Max(F) \in Nat
      BY <1>3, <1>7
    <3> QED
      BY <3>2, <3>3
  <2>2. LowestOf(F) # Null
    BY <1>3, Numbers, NullIsNoNumber
  <2>3. LowestOf(F) <= Max(F)
    BY <1>3
  <2> HIDE DEF F
  <2> QED
    BY <1>1, <1>2, <2>1, <2>2, <2>3 DEF CursorInv
<1>9. FilledInv'
  <2>1. ASSUME NEW i \in alive, i <= Max(F),
               IF crossed \/ BatchEnds(F) THEN ~crossed \/ ts[i] >= cutoff ELSE i >= LowestOf(F)
        PROVE  i \in S
    <3>1. CASE crossed
      <4>1. PICK j \in F : j <= i
        BY <2>1, <3>1, CrossedBelow DEF MirrorInv
      <4>2. i \in F
        BY <1>3, <1>4, <2>1, <4>1 DEF StartInv
      <4> QED
        BY <2>1, <3>1, <4>2 DEF WithinHistory
    <3>2. CASE ~crossed /\ BatchEnds(F)
      BY <1>3, <1>4, <2>1, <3>2 DEF StartInv
    <3>3. CASE ~crossed /\ ~BatchEnds(F)
      <4>1. LowestOf(F) <= i
        BY <1>3, <1>7, <2>1, <3>3
      <4> QED
        BY <1>3, <1>4, <2>1, <3>3, <4>1 DEF StartInv
    <3> QED
      BY <3>1, <3>2, <3>3
  <2>2. crossed => cutoff # Null
    BY CrossedBelow DEF MirrorInv
  <2>3. ASSUME NEW i \in alive, Covered(i)' PROVE i \in S
    <3>1. /\ i <= Max(F)
          /\ IF sync'.done THEN sync'.cutoff = Null \/ ts[i] >= sync'.cutoff
                           ELSE i >= sync'.cursor
      BY <1>1, <1>2, <2>3 DEF Covered
    <3>2. IF crossed \/ BatchEnds(F) THEN ~crossed \/ ts[i] >= cutoff ELSE i >= LowestOf(F)
      <4> HIDE DEF F, S
      <4>1. CASE S # F
        BY <1>2, <2>2, <3>1, <4>1
      <4>2. CASE S = F /\ BatchEnds(F)
        BY <4>2
      <4>3. CASE S = F /\ ~BatchEnds(F)
        BY <1>2, <3>1, <4>3 DEF BatchEnds
      <4> QED
        BY <4>1, <4>2, <4>3
    <3> QED
      BY <2>1, <3>1, <3>2
  <2> QED
    BY <1>1, <1>6, <2>3 DEF FilledInv
<1> QED
  BY <1>6, <1>8, <1>9 DEF MirrorInv

LEMMA TailWriteKeeps ==
    ASSUME TypeOK, RowsInv, MirrorInv, PersistTail
    PROVE  MirrorInv'
<1> DEFINE F == DOMAIN got
<1>1. /\ UNCHANGED <<now, top, ts, alive, policy, pruned>>
      /\ Upsert(F) /\ F # {}
      /\ cutoff' = Null /\ Unfetched'
  BY GotIsTyped DEF PersistTail, Goto, Forget, Unfetched, chat, history
<1>2. /\ sync'.last = Max(F) /\ sync'.cursor = sync.cursor
      /\ sync'.done = sync.done /\ sync'.cutoff = sync.cutoff
  BY DEF PersistTail, TypeOK, SyncStates
<1>3. /\ F \in SUBSET Ids /\ F \in SUBSET (1 .. top)
      /\ Max(F) \in F /\ \A i \in F : i <= Max(F)
  BY <1>1, Numbers, GotIsTyped, ExtremesAreTyped
<1>4. TailInv
  BY DEF PersistTail, MirrorInv, FetchInv
<1>5. /\ Kept' = Kept \cup F
      /\ ChatInv' /\ CutoffInv' /\ PrunedStaysGone' /\ FetchInv'
  <2>1. sync'.last <= top
    BY <1>2, <1>3, Numbers
  <2>2. F \cap pruned = {} /\ F \in SUBSET DOMAIN got
    BY <1>4 DEF TailInv
  <2> QED
    BY <1>1, <1>2, <2>1, <2>2, WriteKeeps
<1>6. /\ Max(F) \in Nat /\ MinId \in Nat /\ sync.last \in Nat
      /\ sync.last <= MinId /\ MinId < Max(F) /\ sync.last # 0
      /\ alive \in SUBSET Nat
  BY <1>3, <1>4, MinIdIsTop, Numbers DEF TailInv
<1>7. CursorInv'
  <2>1. ASSUME NEW i \in alive, NEW m \in Kept', i <= m PROVE i <= Max(F)
    <3>1. CASE m \in F
      BY <1>3, <1>6, <2>1, <3>1, Numbers
    <3>2. CASE m \in Kept
      <4>1. i <= sync.last
        BY <1>6, <2>1, <3>2 DEF MirrorInv, CursorInv
      <4> QED
        BY <1>6, <4>1
    <3> QED
      BY <1>5, <2>1, <3>1, <3>2
  <2>2. ~sync.done => sync.cursor # Null /\ sync.cursor <= Max(F)
    <3>1. ~sync.done => sync.cursor \in Nat /\ sync.cursor # Null /\ sync.cursor <= sync.last
      BY <1>6, Numbers DEF MirrorInv, CursorInv
    <3> QED
      BY <1>6, <3>1
  <2> HIDE DEF F
  <2> QED
    BY <1>1, <1>2, <2>1, <2>2 DEF CursorInv
<1>8. FilledInv'
  <2>1. ASSUME NEW i \in alive, Covered(i)' PROVE i \in Kept \cup F
    <3>1. i <= Max(F) /\ i \in Nat
      BY <1>2, <1>6, <2>1 DEF Covered
    <3>2. CASE i > MinId
      BY <1>3, <1>4, <3>1, <3>2 DEF TailInv
    <3>3. CASE i <= MinId
      <4>1. i <= sync.last
        <5>1. CASE MinId \in Mirrored
          <6>1. MinId \in Kept
            BY <5>1 DEF Kept
          <6> QED
            BY <1>6, <3>3, <6>1 DEF MirrorInv, CursorInv
        <5> QED
          BY <3>3, <5>1, MinIdIsTop
      <4>2. Covered(i)
        BY <1>1, <1>2, <2>1, <4>1 DEF Covered
      <4> QED
        BY <1>6, <4>2 DEF MirrorInv, FilledInv
    <3> QED
      BY <1>6, <3>1, <3>2, <3>3
  <2> QED
    BY <1>1, <1>5, <2>1 DEF FilledInv
<1> QED
  BY <1>5, <1>7, <1>8 DEF MirrorInv

LEMMA BackfillWriteKeeps ==
    ASSUME TypeOK, RowsInv, MirrorInv, PersistBackfill
    PROVE  MirrorInv'
<1> DEFINE F == DOMAIN got
           S == WithinHistory
           crossed == S # F
<1>1. /\ UNCHANGED <<now, top, ts, alive, policy, pruned>>
      /\ Upsert(S) /\ cutoff' = Null /\ Unfetched'
  BY DEF PersistBackfill, Goto, Forget, Unfetched, chat, history
<1>2. /\ sync'.last = sync.last /\ sync'.cursor = LowestOf(F)
      /\ sync'.done = (crossed \/ BatchEnds(F))
      /\ sync'.cutoff = IF crossed THEN cutoff ELSE Null
  BY DEF PersistBackfill, TypeOK, SyncStates
<1>3. /\ F \in SUBSET Ids /\ F \in SUBSET (1 .. top)
      /\ F # {} => LowestOf(F) \in F /\ \A i \in F : LowestOf(F) <= i
  BY Numbers, GotIsTyped, ExtremesAreTyped
<1>4. BackfillInv
  BY DEF PersistBackfill, MirrorInv, FetchInv
<1>5. S \in SUBSET F /\ S \cap pruned = {}
  BY <1>4, PrunedAreOutside DEF BackfillInv, WithinHistory
<1>6. /\ Kept' = Kept \cup S
      /\ ChatInv' /\ CutoffInv' /\ PrunedStaysGone' /\ FetchInv'
  <2>1. sync'.last <= top
    BY <1>2 DEF MirrorInv, ChatInv
  <2> HIDE DEF S
  <2> QED
    BY <1>1, <1>2, <1>5, <2>1, WriteKeeps
<1>7. alive \in SUBSET Nat /\ F \in SUBSET Nat /\ sync.last \in Nat
  BY <1>3, Numbers
(* While incremental has not begun, nothing is claimed. *)
<1>8. CASE sync.last = 0
  BY <1>2, <1>6, <1>8 DEF MirrorInv, CursorInv, FilledInv
<1>9. CASE sync.last # 0
  <2>1. /\ ~sync.done /\ sync.cursor \in Nat /\ sync.cursor <= sync.last
        /\ \A j \in F : j < sync.cursor
        /\ \A i \in alive, j \in F : j <= i /\ i < sync.cursor => i \in F
        /\ BatchEnds(F) => \A i \in alive : i < sync.cursor => i \in F
    BY <1>4, <1>9, Numbers DEF BackfillInv, MirrorInv, CursorInv
  <2>2. ~BatchEnds(F) => F # {}
    BY Bounds, FS_EmptySet DEF BatchEnds
  <2>3. CursorInv'
    <3>1. ASSUME NEW i \in alive, NEW m \in Kept', i <= m PROVE i <= sync.last
      <4>1. CASE m \in F
        <5>1. m < sync.cursor /\ m \in Nat /\ i \in Nat
          BY <1>7, <2>1, <4>1
        <5> QED
          BY <1>7, <2>1, <3>1, <5>1
      <4>2. CASE m \in Kept
        BY <1>9, <3>1, <4>2 DEF MirrorInv, CursorInv
      <4> QED
        BY <1>5, <1>6, <3>1, <4>1, <4>2
    <3>2. ASSUME ~BatchEnds(F) PROVE LowestOf(F) # Null /\ LowestOf(F) <= sync.last
      <4>1. LowestOf(F) \in F /\ LowestOf(F) \in Nat /\ LowestOf(F) < sync.cursor
        BY <1>3, <1>7, <2>1, <2>2, <3>2
      <4> QED
        BY <1>7, <2>1, <4>1, NullIsNoNumber
    <3>3. ~sync'.done => sync'.cursor # Null /\ sync'.cursor <= sync'.last
      <4> HIDE DEF F, S
      <4> QED
        BY <1>2, <3>2 DEF BatchEnds
    <3> QED
      BY <1>1, <1>2, <3>1, <3>3 DEF CursorInv
  <2>4. ASSUME NEW i \in alive, Covered(i)' PROVE i \in Kept \cup S
    <3>1. /\ i <= sync.last
          /\ IF sync'.done THEN sync'.cutoff = Null \/ ts[i] >= sync'.cutoff
                           ELSE i >= sync'.cursor
      BY <1>1, <1>2, <2>4 DEF Covered
    <3>2. CASE i >= sync.cursor
      BY <1>9, <2>1, <3>1, <3>2 DEF MirrorInv, FilledInv, Covered
    <3>3. CASE ~(i >= sync.cursor)
      <4>0. i < sync.cursor
        BY <1>7, <2>1, <3>3
      <4>1. CASE S # F
        <5>1. cutoff # Null /\ sync'.done /\ sync'.cutoff = cutoff
          BY <1>2, <4>1, CrossedBelow DEF MirrorInv
        <5>2. ts[i] >= cutoff
          BY <3>1, <5>1
        <5>3. PICK j \in F : j <= i
          BY <4>1, <5>2, CrossedBelow DEF MirrorInv
        <5>4. i \in F
          BY <2>1, <4>0, <5>3
        <5> QED
          BY <5>2, <5>4 DEF WithinHistory
      <4>2. CASE S = F /\ BatchEnds(F)
        BY <2>1, <4>0, <4>2
      <4>3. CASE S = F /\ ~BatchEnds(F)
        <5>1. LowestOf(F) \in F
          BY <1>3, <2>2, <4>3
        <5>2. ~sync'.done
          BY <1>2, <4>3 DEF BatchEnds
        <5>3. LowestOf(F) <= i
          BY <1>2, <1>7, <3>1, <5>1, <5>2
        <5>4. i \in F
          BY <2>1, <4>0, <5>1, <5>3
        <5> QED
          BY <4>3, <5>4
      <4> QED
        BY <4>1, <4>2, <4>3
    <3> QED
      BY <3>2, <3>3
  <2>5. FilledInv'
    BY <1>1, <1>6, <2>4 DEF FilledInv
  <2> QED
    BY <1>6, <2>3, <2>5 DEF MirrorInv
<1> QED
  BY <1>8, <1>9

LEMMA PruneKeepsMirror ==
    ASSUME TypeOK, RowsInv, TypeOK', RowsInv', MirrorInv, Prune
    PROVE  MirrorInv'
<1>1. /\ UNCHANGED <<now, top, ts, alive, policy, sync, cutoff>>
      /\ pruned' = pruned \cup Expired /\ Unfetched'
  BY DEF Prune, Goto, Unfetched, chat
<1>2. Mirrored' = Mirrored \ Expired
  BY PruneTakesRows
<1>3. ASSUME NEW i \in Expired PROVE i \in Mirrored /\ BeforeHistory(ts[i] + 1)'
  <2>1. /\ i \in Mirrored /\ policy.retention # Null /\ ts[i] < now - policy.retention
        /\ ts[i] \in Nat /\ now \in Nat
    BY <1>3, Numbers DEF Expired
  <2>2. /\ policy.retention \in Nat /\ policy.history \in Nat
        /\ policy.history # Null /\ policy.history <= policy.retention
    BY <2>1, PoliciesAreValid, Numbers DEF TypeOK, ValidPolicy
  <2> QED
    BY <1>1, <2>1, <2>2 DEF BeforeHistory
<1>4. Kept' = Kept
  BY <1>1, <1>2, <1>3 DEF Kept
<1>5. pruned' \cap Mirrored' = {}
  BY <1>1, <1>2 DEF MirrorInv, PrunedStaysGone
<1>6. now' >= now
  BY <1>1, Numbers
<1> QED
  BY <1>1, <1>2, <1>3, <1>4, <1>5, <1>6, MirrorFrame

LEMMA MirrorStep ==
    ASSUME OneHistory
    PROVE  TypeOK /\ TypeOK' /\ RowsInv /\ RowsInv' /\ MirrorInv /\ [Next]_vars => MirrorInv'
<1> SUFFICES ASSUME TypeOK, TypeOK', RowsInv, RowsInv', MirrorInv, [Next]_vars PROVE MirrorInv'
  OBVIOUS
<1> USE DEF chat, tables, history, Goto, Forget
<1>0. now \in Nat /\ now >= now /\ PrunedStaysGone
  BY Numbers DEF MirrorInv
(* Steps that write neither rows nor cursors. *)
<1>1. ASSUME UNCHANGED <<top, ts, mirror, pruned>>, alive' \subseteq alive, now' >= now,
             policy'.history = policy.history,
             UNCHANGED <<sync.last, sync.cursor, sync.done, sync.cutoff>>,
             cutoff' \in {cutoff, Null},
             Unfetched' \/ UNCHANGED <<got, cutoff, pc>>
      PROVE  MirrorInv'
  <2>1. Mirrored' = Mirrored /\ Kept' = Kept
    BY <1>1, KeptSame
  <2>2. pruned' \ pruned = {} /\ pruned' \cap Mirrored' = {}
    BY <1>0, <1>1, <2>1 DEF PrunedStaysGone
  <2> QED
    BY <1>1, <2>1, <2>2, MirrorFrame
<1>2. CASE Tick \/ (\E i \in Ids : EditMessage(i) \/ DeleteMessage(i)) \/ UNCHANGED vars
  <2>1. now' >= now
    BY <1>0, <1>2 DEF Tick, EditMessage, DeleteMessage, vars
  <2> QED
    BY <1>1, <1>2, <2>1 DEF Tick, EditMessage, DeleteMessage, vars
<1>3. CASE \E p \in Policies : ChangePolicy(p)
  <2>1. policy'.history = policy.history
    BY <1>3, OneHistory DEF ChangePolicy, OneHistory, TypeOK
  <2> QED
    BY <1>0, <1>1, <1>3, <2>1 DEF ChangePolicy
<1>4. CASE StartTick \/ IncrementalSkips \/ NothingNew \/ BackfillSkips \/ RescanSkips
  BY <1>0, <1>1, <1>4
     DEF StartTick, IncrementalSkips, NothingNew, BackfillSkips, RescanSkips, Unfetched
<1>5. CASE FetchRescan
  BY <1>0, <1>1, <1>5 DEF FetchRescan, Unfetched
<1>6. CASE PersistRescan
  <2>1. Mirrored' = Mirrored /\ Kept' = Kept
    BY <1>6, RescanKeepsRows DEF PersistRescan, Kept
  <2>2. UNCHANGED <<sync.last, sync.cursor, sync.done, sync.cutoff>>
    BY <1>6 DEF PersistRescan, TypeOK, SyncStates
  <2>3. /\ UNCHANGED <<now, top, ts, alive, policy, pruned>>
        /\ cutoff' = Null /\ Unfetched'
    BY <1>6 DEF PersistRescan, Unfetched
  <2>4. pruned' \ pruned = {} /\ pruned' \cap Mirrored' = {}
    BY <1>0, <2>1, <2>3 DEF PrunedStaysGone
  <2> QED
    BY <1>0, <2>1, <2>2, <2>3, <2>4, MirrorFrame
<1>7. CASE Failure
  <2>1. UNCHANGED <<sync.last, sync.cursor, sync.done, sync.cutoff>>
    BY <1>7 DEF Failure, FloodWait, FloodWaitUnrecorded, FetchErrs, PruneErrs, RecordError, Crash, TypeOK, SyncStates
  <2>2. /\ UNCHANGED <<now, top, ts, alive, policy, mirror, pruned>>
        /\ cutoff' = Null /\ Unfetched'
    BY <1>7 DEF Failure, FloodWait, FloodWaitUnrecorded, FetchErrs, PruneErrs, Crash, Fault, Unfetched
  <2> QED
    BY <1>0, <1>1, <2>1, <2>2
<1> QED
  BY <1>2, <1>3, <1>4, <1>5, <1>6, <1>7, PostKeepsMirror, StartKeepsMirror, TailKeepsMirror,
     BackfillKeepsMirror, StartWriteKeeps, TailWriteKeeps, BackfillWriteKeeps, PruneKeepsMirror
     DEF Next, World, Step

LEMMA MirrorInit == Init => MirrorInv
<1> SUFFICES ASSUME Init PROVE MirrorInv
  OBVIOUS
<1>1. Mirrored = {} /\ pruned = {} /\ alive = {} /\ top = 0 /\ pc = "idle"
  BY DEF Init, Mirrored
<1>2. ChatInv
  BY <1>1 DEF Init, ChatInv
<1>3. CutoffInv /\ CursorInv /\ FilledInv /\ FetchInv /\ PrunedStaysGone
  BY <1>1 DEF Init, CutoffInv, CursorInv, FilledInv, FetchInv, PrunedStaysGone
<1> QED
  BY <1>2, <1>3 DEF MirrorInv

LEMMA MirrorHolds ==
    ASSUME OneHistory PROVE Spec => [](TypeOK /\ RowsInv /\ MirrorInv)
  BY MirrorInit, MirrorStep, TypeCorrect, RowsHold, PTL DEF Spec

-----------------------------------------------------------------------------
(* Results *)

LEMMA RestIsSkip ==
    ASSUME [Next]_vars, BackfillRests
    PROVE  BackfillSkips
<1>1. pc = "backfill" /\ pc' = "rescan"
  BY DEF BackfillRests
<1> QED
  BY <1>1 DEF Next, World, Step, Failure, Tick, Post, EditMessage, DeleteMessage, ChangePolicy,
     StartTick, IncrementalSkips, FetchStart, PersistStart, FetchTail, PersistTail, NothingNew,
     FetchBackfill, PersistBackfill, RescanSkips, FetchRescan, PersistRescan, Prune,
     FloodWait, FloodWaitUnrecorded, FetchErrs, PruneErrs, Crash, Fault, Goto, vars

(* While the history of the policy stays the same, whatever its retention does, a
   message that retention deleted is never mirrored again: not by a batch fetched
   before it expired, nor by a new start, nor by rescan (engine.py:93-228). *)
THEOREM PrunedNeverReturns ==
    ASSUME OneHistory PROVE Spec => []PrunedStaysGone
<1>1. MirrorInv => PrunedStaysGone
  BY DEF MirrorInv
<1> QED
  BY <1>1, MirrorHolds, PTL

(* While the history of the policy stays the same, what lies between the cursors is
   in the mirror or was deleted by retention, for a chat and batches of any size and
   any posts, deletions, failures and restarts between fetch and write
   (engine.py:93-210). *)
THEOREM NothingBetweenCursorsIsLost ==
    ASSUME OneHistory PROVE Spec => []NoHoles
<1>1. TypeOK /\ RowsInv /\ MirrorInv => NoHoles
  <2> SUFFICES ASSUME TypeOK, RowsInv, MirrorInv, NEW i \in Claimed, i \in alive
               PROVE  i \in Kept
    BY DEF NoHoles, Kept
  <2>1. sync.last # 0 /\ i <= MinId
    BY DEF Claimed
  <2>2. i <= sync.last
    <3>1. CASE MinId \in Mirrored
      BY <2>1, <3>1 DEF MirrorInv, CursorInv, Kept
    <3> QED
      BY <2>1, <3>1, MinIdIsTop
  <2>3. Covered(i)
    BY <2>2 DEF Claimed, Covered
  <2> QED
    BY <2>1, <2>3 DEF MirrorInv, FilledInv
<1> QED
  BY <1>1, MirrorHolds, PTL

(* While the history of the policy stays the same, backfill rests only when the
   mirror holds every message of the peer's history up to its top, though it works
   in batches and under a clock that goes on (backfill, engine.py:156-210). *)
THEOREM BackfillLeavesNothing ==
    ASSUME OneHistory PROVE Spec => NothingLeftToFill
<1>1. TypeOK /\ RowsInv /\ MirrorInv /\ [Next]_vars
          => [BackfillRests =>
                \A i \in alive : i <= MinId /\ WithinPolicy(i) => i \in Mirrored]_vars
  <2> SUFFICES ASSUME TypeOK, RowsInv, MirrorInv, [Next]_vars, BackfillRests,
                      NEW i \in alive, i <= MinId, WithinPolicy(i)
               PROVE  i \in Mirrored
    OBVIOUS
  <2> USE Numbers, NullIsNoNumber
  <2>1. sync.done /\ sync.last # 0
    BY RestIsSkip DEF BackfillRests, BackfillSkips
  <2>2. i <= sync.last
    <3>1. CASE MinId \in Mirrored
      BY <2>1, <3>1 DEF MirrorInv, CursorInv, Kept
    <3> QED
      BY <3>1, MinIdIsTop
  <2>3. ASSUME NEW d \in Int, BeforeHistory(d) PROVE d <= ts[i]
    <3>1. policy.history \in Nat /\ d <= now - policy.history
      BY <2>3 DEF BeforeHistory
    <3>2. HistoryCutoff = now - policy.history
      BY <3>1 DEF HistoryCutoff
    <3>3. ts[i] >= HistoryCutoff
      BY <3>1, <3>2 DEF WithinPolicy
    <3>4. ts[i] \in Nat /\ now \in Nat
      OBVIOUS
    <3> QED
      BY <3>1, <3>2, <3>3, <3>4
  <2>4. sync.cutoff = Null \/ ts[i] >= sync.cutoff
    <3>1. CASE sync.cutoff # Null
      <4>1. sync.cutoff \in Int /\ BeforeHistory(sync.cutoff)
        BY <3>1 DEF MirrorInv, CutoffInv
      <4>2. sync.cutoff <= ts[i] /\ ts[i] \in Nat
        BY <2>3, <4>1
      <4> QED
        BY <4>1, <4>2
    <3> QED
      BY <3>1
  <2>5. i \in Kept
    BY <2>1, <2>2, <2>4 DEF MirrorInv, FilledInv, Covered
  <2>6. i \notin pruned
    <3>1. ts[i] + 1 \in Int /\ ~(ts[i] + 1 <= ts[i])
      <4>1. ts[i] \in Nat
        OBVIOUS
      <4> QED
        BY <4>1
    <3> QED
      BY <2>3, <3>1 DEF MirrorInv, CutoffInv
  <2> QED
    BY <2>5, <2>6 DEF Kept
<1> QED
  BY <1>1, MirrorHolds, PTL DEF Spec, NothingLeftToFill

-----------------------------------------------------------------------------
(* Deepening, for policies that keep what they mirror.  The history may change
   at will. *)

NoRetention == \A p \in Policies : p.retention = Null

Reached(i) == \E j \in Mirrored : j <= i
Beyond(i)  == i > MinId

(* Where a message is that a pending fetch may have left out: below all of it, or
   posted since. *)
Fetches(i) == i \in DOMAIN got
Under(i)   == \A k \in DOMAIN got : i < k
Unseen(i)  == \A m \in Mirrored \cup DOMAIN got \cup {sync.last} : m < i

(* Backfill goes on from a mirrored message, and where it ended nothing within
   its cutoff is below the oldest row. *)
EndInv ==
    sync.last # 0 =>
        /\ ~sync.done => sync.cursor \in Mirrored
        /\ sync.done => \A i \in alive :
              sync.cutoff = Null \/ ts[i] >= sync.cutoff => Reached(i) \/ Beyond(i)

StartReaches ==
    \A i \in alive : /\ Fetches(i) \/ Under(i) \/ Unseen(i)
                     /\ BatchEnds(DOMAIN got) => Fetches(i) \/ Unseen(i)

TailReaches ==
    /\ sync.last # 0
    /\ \A k \in DOMAIN got : k > MinId
    /\ \A i \in alive : \/ Fetches(i) \/ ~Beyond(i)
                        \/ \A k \in DOMAIN got : i > k

BackfillReaches ==
    sync.last # 0 =>
        \A i \in alive : /\ Fetches(i) \/ Under(i) \/ Unseen(i) \/ Reached(i)
                         /\ BatchEnds(DOMAIN got) => Fetches(i) \/ Unseen(i) \/ Reached(i)

FetchReaches ==
    /\ pc = "persist start" => StartReaches
    /\ pc = "persist tail" => TailReaches
    /\ pc = "persist backfill" => BackfillReaches

DeepInv == ChatInv /\ EndInv /\ FetchReaches

LEMMA ChatStep ==
    ASSUME TypeOK, TypeOK', RowsInv, RowsInv', ChatInv, [Next]_vars
    PROVE  ChatInv'
<1> USE Numbers DEF chat, tables, history, Goto, Forget
<1>1. CASE Post
  <2>1. /\ top' = top + 1 /\ UNCHANGED <<now, sync, pruned>>
        /\ (\A i \in 1 .. top : ts'[i] = ts[i]) /\ ts'[top + 1] = now
    BY <1>1 DEF Post, TypeOK, Ids
  <2>2. pruned' \subseteq 1 .. top' /\ sync'.last <= top'
    <3>1. sync.last <= top /\ pruned \subseteq 1 .. top
      BY DEF ChatInv
    <3> QED
      BY <2>1, <3>1
  <2>3. \A i \in 1 .. top' : ts'[i] <= now
    BY <2>1 DEF ChatInv
  <2>4. ASSUME NEW i \in 1 .. top', NEW j \in 1 .. top', i <= j PROVE ts'[i] <= ts'[j]
    <3>1. CASE j = top + 1
      BY <2>1, <2>3, <3>1
    <3>2. CASE j # top + 1
      <4>1. i \in 1 .. top /\ j \in 1 .. top
        BY <2>1, <2>4, <3>2
      <4> QED
        BY <2>1, <2>4, <4>1 DEF ChatInv
    <3> QED
      BY <3>1, <3>2
  <2> QED
    BY <2>1, <2>2, <2>3, <2>4 DEF ChatInv
<1>2. CASE ~Post
  <2>1. UNCHANGED <<top, ts>> /\ now' >= now
    <3>1. UNCHANGED <<top, ts>> /\ now' \in {now, now + 1}
      BY <1>2 DEF Next, World, Step, Failure, Tick, EditMessage, DeleteMessage, ChangePolicy,
         StartTick, IncrementalSkips, FetchStart, PersistStart, FetchTail, PersistTail,
         NothingNew, BackfillSkips, FetchBackfill, PersistBackfill, RescanSkips, FetchRescan,
         PersistRescan, Prune, FloodWait, FloodWaitUnrecorded, FetchErrs, PruneErrs, Crash, vars
    <3>2. now \in Nat
      OBVIOUS
    <3> QED
      BY <3>1, <3>2
  <2>2. pruned' \subseteq pruned \cup Mirrored
    BY <1>2 DEF Next, World, Step, Failure, Tick, EditMessage, DeleteMessage, ChangePolicy,
       StartTick, IncrementalSkips, FetchStart, PersistStart, FetchTail, PersistTail, NothingNew,
       BackfillSkips, FetchBackfill, PersistBackfill, RescanSkips, FetchRescan, PersistRescan,
       Prune, Expired, FloodWait, FloodWaitUnrecorded, FetchErrs, PruneErrs, Crash, vars
  <2>3. sync'.last <= top
    <3>1. CASE PersistStart \/ PersistTail
      <4>1. sync'.last = Max(DOMAIN got) /\ DOMAIN got # {}
        BY <3>1, GotIsTyped DEF PersistStart, PersistTail, TypeOK, SyncStates
      <4>2. Max(DOMAIN got) \in 1 .. top
        BY <4>1, GotIsTyped, ExtremesAreTyped
      <4> QED
        BY <4>1, <4>2
    <3>2. CASE ~(PersistStart \/ PersistTail)
      <4>1. sync'.last = sync.last
        BY <1>2, <3>2 DEF Next, World, Step, Failure, Tick, EditMessage, DeleteMessage,
           ChangePolicy, StartTick, IncrementalSkips, FetchStart, FetchTail, NothingNew,
           BackfillSkips, FetchBackfill, PersistBackfill, RescanSkips, FetchRescan, PersistRescan,
           Prune, FloodWait, FloodWaitUnrecorded, FetchErrs, PruneErrs, RecordError, Crash, vars, TypeOK, SyncStates
      <4> QED
        BY <4>1 DEF ChatInv
    <3> QED
      BY <3>1, <3>2
  <2>4. \A i \in 1 .. top : ts[i] <= now'
    <3>1. ASSUME NEW i \in 1 .. top PROVE ts[i] <= now'
      <4>1. ts[i] <= now /\ ts[i] \in Nat /\ now \in Nat /\ now' \in Nat
        BY Bounds DEF ChatInv, TypeOK, Times
      <4> QED
        BY <2>1, <4>1
    <3> QED
      BY <3>1
  <2> QED
    BY <2>1, <2>2, <2>3, <2>4 DEF ChatInv
<1> QED
  BY <1>1, <1>2

(* Messages vanish, the clock goes on, a fetch is forgotten. *)
LEMMA DeepFrame ==
    ASSUME DeepInv, ChatInv', alive' \subseteq alive, UNCHANGED ts, Mirrored' = Mirrored,
           UNCHANGED <<sync.last, sync.cursor, sync.done, sync.cutoff>>,
           Unfetched' \/ UNCHANGED <<got, pc>>
    PROVE  DeepInv'
<1>1. MinId' = MinId
  BY DEF MinId
<1>2. EndInv'
  BY <1>1 DEF DeepInv, EndInv, Reached, Beyond
<1>3. FetchReaches'
  <2>1. CASE Unfetched'
    BY <2>1 DEF Unfetched, FetchReaches
  <2>2. CASE UNCHANGED <<got, pc>>
    <3>1. \A i \in alive : /\ Fetches(i)' <=> Fetches(i)
                           /\ Under(i)' <=> Under(i)
                           /\ Unseen(i)' <=> Unseen(i)
                           /\ Reached(i)' <=> Reached(i)
                           /\ Beyond(i)' <=> Beyond(i)
      BY <1>1, <2>2 DEF Fetches, Under, Unseen, Reached, Beyond
    <3>2. BatchEnds(DOMAIN got)' <=> BatchEnds(DOMAIN got)
      BY <2>2 DEF BatchEnds
    <3>3. StartReaches => StartReaches'
      BY <2>2, <3>1, <3>2 DEF StartReaches
    <3>4. TailReaches => TailReaches'
      BY <1>1, <2>2, <3>1 DEF TailReaches
    <3>5. BackfillReaches => BackfillReaches'
      BY <2>2, <3>1, <3>2 DEF BackfillReaches
    <3> QED
      BY <2>2, <3>3, <3>4, <3>5 DEF DeepInv, FetchReaches
  <2> QED
    BY <2>1, <2>2
<1> QED
  BY <1>2, <1>3 DEF DeepInv

(* A new message is above everything mirrored and fetched. *)
LEMMA PostKeepsDeep ==
    ASSUME TypeOK, RowsInv, DeepInv, ChatInv', Post
    PROVE  DeepInv'
<1> USE Numbers
<1>0. PICK new \in Nat : new = top + 1
  OBVIOUS
<1>1. /\ alive' = alive \cup {new} /\ UNCHANGED <<mirror, sync, pc, got>>
      /\ \A i \in alive : ts'[i] = ts[i]
  BY <1>0 DEF Post, tables, TypeOK, Ids
<1>2. Mirrored' = Mirrored /\ MinId' = MinId
  BY <1>1, MirroredSame DEF MinId
<1>3. \A m \in Mirrored \cup DOMAIN got \cup {sync.last} : m <= top /\ m < new
  BY <1>0 DEF DeepInv, ChatInv
<1>4. Unseen(new)' /\ Beyond(new)' /\ \A k \in DOMAIN got : new > k
  <2>1. MinId <= top
    BY <1>3, MinIdIsTop
  <2>2. Beyond(new)
    BY <1>0, <2>1, MinIdIsTop DEF Beyond
  <2> QED
    BY <1>1, <1>2, <1>3, <2>2 DEF Unseen, Beyond
<1>5. \A i \in alive : /\ Fetches(i)' <=> Fetches(i)
                       /\ Under(i)' <=> Under(i)
                       /\ Unseen(i)' <=> Unseen(i)
                       /\ Reached(i)' <=> Reached(i)
                       /\ Beyond(i)' <=> Beyond(i)
  BY <1>1, <1>2 DEF Fetches, Under, Unseen, Reached, Beyond
<1>6. BatchEnds(DOMAIN got)' <=> BatchEnds(DOMAIN got)
  BY <1>1 DEF BatchEnds
<1>7. EndInv'
  BY <1>1, <1>2, <1>4, <1>5 DEF DeepInv, EndInv
<1>8. StartReaches => StartReaches'
  BY <1>1, <1>4, <1>5, <1>6 DEF StartReaches
<1>9. TailReaches => TailReaches'
  BY <1>1, <1>2, <1>4, <1>5 DEF TailReaches
<1>10. BackfillReaches => BackfillReaches'
  BY <1>1, <1>4, <1>5, <1>6 DEF BackfillReaches
<1> QED
  BY <1>1, <1>7, <1>8, <1>9, <1>10 DEF DeepInv, FetchReaches

LEMMA FetchKeepsDeep ==
    ASSUME TypeOK, RowsInv, DeepInv, ChatInv', FetchStart \/ FetchTail \/ FetchBackfill
    PROVE  DeepInv'
<1> USE Numbers DEF chat, tables, history, Goto
<1>1. UNCHANGED <<ts, alive, mirror, sync>>
  BY DEF FetchStart, FetchTail, FetchBackfill
<1>2. Mirrored' = Mirrored /\ MinId' = MinId
  BY <1>1, MirroredSame DEF MinId
<1>3. EndInv'
  BY <1>1, <1>2 DEF DeepInv, EndInv, Reached, Beyond
<1>4. alive \in SUBSET (1 .. top) /\ top \in Nat /\ Batch \in Nat \ {0}
  BY Bounds
<1>5. ASSUME NEW S \in SUBSET alive, DOMAIN got' = Newest(Batch, S)
      PROVE  \A i \in S : /\ Fetches(i)' \/ Under(i)'
                          /\ BatchEnds(DOMAIN got)' => Fetches(i)'
  <2> DEFINE F == Newest(Batch, S)
  <2>1. S \in SUBSET (1 .. top) /\ S \in SUBSET Nat /\ F \in SUBSET S
    BY <1>4 DEF Newest
  <2>2. \A i \in S, j \in F : j <= i => i \in F
    BY <1>4, <2>1, NewestIsUpper
  <2>3. BatchEnds(F) => F = S
    BY <1>4, <2>1, NotFullIsAll DEF BatchEnds
  <2>4. BatchEnds(DOMAIN got)' <=> BatchEnds(F)
    BY <1>5 DEF BatchEnds
  <2> HIDE DEF F
  <2>5. ASSUME NEW i \in S, i \notin F PROVE \A k \in F : i < k
    BY <2>1, <2>2, <2>5
  <2> QED
    BY <1>5, <2>3, <2>4, <2>5 DEF Fetches, Under, F
<1>6. CASE FetchStart
  <2>1. DOMAIN got' = Newest(Batch, alive) /\ pc' = "persist start"
    BY <1>6 DEF FetchStart, Fetched
  <2>2. StartReaches'
    BY <1>1, <1>5, <2>1 DEF StartReaches
  <2> QED
    BY <1>3, <2>1, <2>2 DEF DeepInv, FetchReaches
<1>7. CASE FetchTail
  <2> DEFINE new == {i \in alive : i > MinId}
             F   == Oldest(Batch, new)
  <2>1. DOMAIN got' = F /\ pc' = "persist tail" /\ sync.last # 0
    BY <1>7 DEF FetchTail, Fetched
  <2>2. /\ new \in SUBSET (1 .. top) /\ F \in SUBSET new /\ new \in SUBSET Nat
    BY <1>4 DEF Oldest
  <2>3. \A i \in new, j \in F : i <= j => i \in F
    <3> HIDE DEF new
    <3> QED
      BY <1>4, <2>2, OldestIsLower
  <2>4. ASSUME NEW i \in alive, i > MinId, i \notin F PROVE \A k \in F : i > k
    <3>1. i \in new
      BY <2>4
    <3> HIDE DEF new, F
    <3> QED
      BY <2>2, <2>3, <2>4, <3>1
  <2>5. \A k \in F : k > MinId
    BY <2>2
  <2>6. TailReaches'
    <3> HIDE DEF F
    <3> QED
      BY <1>1, <1>2, <2>1, <2>4, <2>5 DEF TailReaches, Fetches, Beyond
  <2> QED
    BY <1>3, <2>1, <2>6 DEF DeepInv, FetchReaches
<1>8. CASE FetchBackfill
  <2>1. DOMAIN got' = Newest(Batch, Below) /\ pc' = "persist backfill"
    BY <1>8 DEF FetchBackfill, Fetched
  <2>2. Below \in SUBSET alive
    BY DEF Below
  <2>3. ASSUME sync.last # 0, NEW i \in alive, i \notin Below PROVE Reached(i)'
    <3> DEFINE offset == IF sync.done THEN IF Mirrored = {} THEN Null ELSE Min(Mirrored)
                                      ELSE sync.cursor
    <3>1. offset # Null /\ ~(i < offset)
      BY <2>3 DEF Below
    <3>2. Mirrored \in SUBSET Nat
      OBVIOUS
    <3>3. offset \in Mirrored
      <4>1. CASE sync.done
        BY <3>1, <3>2, <4>1, MinIsLeast
      <4>2. CASE ~sync.done
        BY <2>3, <4>2 DEF DeepInv, EndInv
      <4> QED
        BY <4>1, <4>2
    <3>4. offset <= i
      <4> HIDE DEF offset
      <4> QED
        BY <3>1, <3>2, <3>3
    <3> HIDE DEF offset
    <3> QED
      BY <1>2, <3>3, <3>4 DEF Reached
  <2>4. BackfillReaches'
    BY <1>1, <1>5, <2>1, <2>2, <2>3 DEF BackfillReaches
  <2> QED
    BY <1>3, <2>1, <2>4 DEF DeepInv, FetchReaches
<1> QED
  BY <1>6, <1>7, <1>8

(* A batch that crosses the cutoff has every message within it that is not below
   all of the batch. *)
LEMMA CrossedIsNotUnder ==
    ASSUME TypeOK, RowsInv, ChatInv, WithinHistory # DOMAIN got,
           NEW i \in alive, ts[i] >= cutoff
    PROVE  ~Under(i)
<1>1. PICK j \in DOMAIN got : j <= i
  BY CrossedBelow
<1>2. i \in Nat /\ j \in Nat
  BY Numbers
<1> QED
  BY <1>1, <1>2 DEF Under

LEMMA NextMinIdIsTop ==
    ASSUME TypeOK', RowsInv', ChatInv'
    PROVE  /\ MinId' \in {sync'.last} \cup Mirrored' /\ MinId' \in Nat
           /\ \A y \in {sync'.last} \cup Mirrored' : MinId' >= y
<1>1. top' \in Nat /\ sync'.last \in Nat /\ sync'.last <= top'
  BY Bounds DEF TypeOK, SyncStates, ChatInv
<1>2. Mirrored' \in SUBSET (1 .. top')
  BY DEF RowsInv
<1> DEFINE S == {sync'.last} \cup Mirrored'
<1>3. ASSUME NEW y \in S PROVE y \in 0 .. top'
  <2>1. CASE y = sync'.last
    BY <1>1, <2>1
  <2>2. CASE y \in Mirrored'
    <3>1. y \in 1 .. top'
      BY <1>2, <2>2
    <3> QED
      BY <1>1, <3>1
  <2> QED
    BY <2>1, <2>2
<1>4. S \in SUBSET (0 .. top') /\ S # {}
  <2> HIDE DEF S
  <2>1. S \in SUBSET (0 .. top')
    BY <1>3
  <2> QED
    BY <2>1 DEF S
<1>5. MinId' = Max(S)
  BY DEF MinId
<1>6. Max(S) \in S /\ \A y \in S : Max(S) >= y
  <2> HIDE DEF S
  <2> QED
    BY <1>1, <1>4, MaxIsGreatest
<1>7. Max(S) \in Nat
  BY <1>1, <1>3, <1>6
<1> QED
  BY <1>5, <1>6, <1>7

(* A start or a backfill has written its batch: the cursor is the oldest of it, and
   an end leaves out only what the cutoff excludes. *)
LEMMA BatchWriteKeepsDeep ==
    ASSUME TypeOK, TypeOK', RowsInv, RowsInv', DeepInv, ChatInv',
           PersistStart \/ PersistBackfill
    PROVE  DeepInv'
<1> USE Numbers
<1> DEFINE F == DOMAIN got
           S == WithinHistory
           crossed == S # F
<1>1. UNCHANGED <<top, ts, alive>> /\ Upsert(S) /\ Unfetched'
  BY DEF PersistStart, PersistBackfill, Goto, Forget, Unfetched, chat
<1>2. /\ sync'.cursor = LowestOf(F)
      /\ sync'.done = (crossed \/ BatchEnds(F))
      /\ sync'.cutoff = IF crossed THEN cutoff ELSE Null
  BY DEF PersistStart, PersistBackfill, TypeOK, SyncStates
<1>3. /\ S \in SUBSET F /\ F \in SUBSET Ids /\ F \in SUBSET Nat
      /\ F # {} => LowestOf(F) \in F
  BY GotIsTyped, ExtremesAreTyped DEF WithinHistory
<1>4. Mirrored' = Mirrored \cup S
  <2> HIDE DEF S
  <2> QED
    BY <1>1, <1>3, UpsertIsTyped
<1>5. sync'.last \in F \cup {sync.last}
  <2>1. CASE PersistStart
    <3>1. sync'.last = Max(F) /\ F # {}
      BY <2>1, GotIsTyped DEF PersistStart, TypeOK, SyncStates
    <3> QED
      BY <1>3, <3>1, ExtremesAreTyped
  <2>2. CASE PersistBackfill
    BY <2>2 DEF PersistBackfill, TypeOK, SyncStates
  <2> QED
    BY <2>1, <2>2
<1>6. ASSUME NEW i \in alive, Unseen(i) PROVE Beyond(i)'
  <2>1. MinId' \in Mirrored' \cup {sync'.last}
    BY NextMinIdIsTop
  <2> QED
    BY <1>3, <1>4, <1>5, <1>6, <2>1 DEF Unseen, Beyond
<1>7. ASSUME NEW i \in alive, i \in S \/ Reached(i) PROVE Reached(i)'
  BY <1>3, <1>4, <1>7 DEF Reached
<1>8. ASSUME sync'.last # 0, ~sync'.done PROVE sync'.cursor \in Mirrored'
  <2>1. ~BatchEnds(F) /\ S = F
    BY <1>2, <1>8
  <2>2. F # {}
    BY <2>1, Bounds, FS_EmptySet DEF BatchEnds
  <2> QED
    BY <1>2, <1>3, <1>4, <2>1, <2>2
<1>9. ASSUME sync'.last # 0, sync'.done, NEW i \in alive,
             sync'.cutoff = Null \/ ts[i] >= sync'.cutoff
      PROVE  Reached(i)' \/ Beyond(i)'
  <2>0. /\ Fetches(i) \/ Under(i) \/ Unseen(i) \/ Reached(i)
        /\ BatchEnds(F) => Fetches(i) \/ Unseen(i) \/ Reached(i)
    <3>1. CASE PersistStart
      BY <3>1 DEF PersistStart, DeepInv, FetchReaches, StartReaches
    <3>2. CASE PersistBackfill
      <4>1. sync'.last = sync.last
        BY <3>2 DEF PersistBackfill, TypeOK, SyncStates
      <4> QED
        BY <1>9, <3>2, <4>1 DEF PersistBackfill, DeepInv, FetchReaches, BackfillReaches
    <3> QED
      BY <3>1, <3>2
  <2>1. CASE crossed
    <3>1. cutoff # Null /\ ts[i] >= cutoff
      BY <1>2, <1>9, <2>1, CrossedBelow DEF DeepInv
    <3>2. ~Under(i)
      BY <2>1, <3>1, CrossedIsNotUnder DEF DeepInv
    <3>3. Fetches(i) => i \in S
      BY <3>1 DEF Fetches, WithinHistory
    <3> QED
      BY <1>6, <1>7, <2>0, <3>2, <3>3
  <2>2. CASE ~crossed
    <3>1. BatchEnds(F)
      BY <1>2, <1>9, <2>2
    <3>2. Fetches(i) => i \in S
      BY <2>2 DEF Fetches
    <3> QED
      BY <1>6, <1>7, <2>0, <3>1, <3>2
  <2> QED
    BY <2>1, <2>2
<1>10. EndInv'
  BY <1>1, <1>8, <1>9 DEF EndInv
<1>11. FetchReaches'
  BY <1>1 DEF Unfetched, FetchReaches
<1> QED
  BY <1>10, <1>11 DEF DeepInv

LEMMA TailWriteKeepsDeep ==
    ASSUME TypeOK, TypeOK', RowsInv, RowsInv', DeepInv, ChatInv', PersistTail
    PROVE  DeepInv'
<1> USE Numbers
<1> DEFINE F == DOMAIN got
<1>1. UNCHANGED <<ts, alive>> /\ Upsert(F) /\ Unfetched' /\ F # {}
  BY GotIsTyped DEF PersistTail, Goto, Forget, Unfetched, chat
<1>2. /\ sync'.last = Max(F) /\ sync'.cursor = sync.cursor
      /\ sync'.done = sync.done /\ sync'.cutoff = sync.cutoff
  BY DEF PersistTail, TypeOK, SyncStates
<1>3. /\ F \in SUBSET Ids /\ F \in SUBSET Nat
      /\ Max(F) \in F /\ \A i \in F : i <= Max(F)
  BY <1>1, GotIsTyped, ExtremesAreTyped
<1>4. Mirrored' = Mirrored \cup F
  BY <1>1, UpsertIsTyped
<1>5. TailReaches
  BY DEF PersistTail, DeepInv, FetchReaches
<1>6. MinId' \in F
  <2>1. MinId' \in Mirrored \cup F /\ MinId' >= Max(F) /\ MinId' \in Nat
    BY <1>2, <1>3, <1>4, NextMinIdIsTop
  <2>2. ASSUME NEW m \in Mirrored PROVE m < Max(F)
    <3>1. m <= MinId /\ MinId < Max(F) /\ MinId \in Nat /\ Max(F) \in Nat /\ m \in Nat
      BY <1>3, <1>5, MinIdIsTop DEF TailReaches
    <3> QED
      BY <3>1
  <2> QED
    BY <1>3, <2>1, <2>2
<1>7. ASSUME NEW i \in alive, sync.cutoff = Null \/ ts[i] >= sync.cutoff, sync.done
      PROVE  Reached(i)' \/ Beyond(i)'
  <2>1. CASE i \in F
    BY <1>3, <1>4, <2>1 DEF Reached
  <2>2. CASE Beyond(i) /\ i \notin F
    BY <1>5, <1>6, <2>2 DEF TailReaches, Fetches, Beyond
  <2>3. CASE ~Beyond(i)
    BY <1>4, <1>5, <1>7, <2>3 DEF TailReaches, DeepInv, EndInv, Reached
  <2> QED
    BY <2>1, <2>2, <2>3
<1>8. EndInv'
  <2>1. ~sync.done => sync.cursor \in Mirrored
    BY <1>5 DEF TailReaches, DeepInv, EndInv
  <2> QED
    BY <1>1, <1>2, <1>4, <1>7, <2>1 DEF EndInv
<1>9. FetchReaches'
  BY <1>1 DEF Unfetched, FetchReaches
<1> QED
  BY <1>8, <1>9 DEF DeepInv

LEMMA DeepStep ==
    ASSUME NoRetention
    PROVE  TypeOK /\ TypeOK' /\ RowsInv /\ RowsInv' /\ DeepInv /\ [Next]_vars => DeepInv'
<1> SUFFICES ASSUME TypeOK, TypeOK', RowsInv, RowsInv', DeepInv, [Next]_vars PROVE DeepInv'
  OBVIOUS
<1> USE DEF chat, tables, history, Goto, Forget
<1>0. ChatInv'
  BY ChatStep DEF DeepInv
<1>1. CASE \/ Tick \/ (\E i \in Ids : EditMessage(i) \/ DeleteMessage(i))
           \/ (\E p \in Policies : ChangePolicy(p)) \/ UNCHANGED vars
  <2>1. /\ alive' \subseteq alive /\ UNCHANGED <<ts, mirror, sync, got, pc>>
    BY <1>1 DEF Tick, EditMessage, DeleteMessage, ChangePolicy, vars
  <2> QED
    BY <1>0, <2>1, MirroredSame, DeepFrame
<1>2. CASE StartTick \/ IncrementalSkips \/ NothingNew \/ BackfillSkips \/ RescanSkips
           \/ FetchRescan
  <2>1. UNCHANGED <<ts, alive, mirror, sync>> /\ Unfetched'
    BY <1>2 DEF StartTick, IncrementalSkips, NothingNew, BackfillSkips, RescanSkips,
                FetchRescan, Unfetched
  <2> QED
    BY <1>0, <2>1, MirroredSame, DeepFrame
<1>3. CASE PersistRescan
  <2>1. Mirrored' = Mirrored
    BY <1>3, RescanKeepsRows
  <2>2. /\ UNCHANGED <<ts, alive>> /\ Unfetched'
        /\ UNCHANGED <<sync.last, sync.cursor, sync.done, sync.cutoff>>
    BY <1>3 DEF PersistRescan, Unfetched, TypeOK, SyncStates
  <2> QED
    BY <1>0, <2>1, <2>2, DeepFrame
<1>4. CASE Prune
  <2>1. Expired = {}
    BY NoRetention DEF Expired, NoRetention, TypeOK
  <2>2. Mirrored' = Mirrored
    BY <1>4, <2>1, PruneTakesRows
  <2>3. UNCHANGED <<ts, alive, sync>> /\ Unfetched'
    BY <1>4 DEF Prune, Unfetched
  <2> QED
    BY <1>0, <2>2, <2>3, DeepFrame
<1>5. CASE Failure
  <2>1. UNCHANGED <<sync.last, sync.cursor, sync.done, sync.cutoff>>
    BY <1>5 DEF Failure, FloodWait, FloodWaitUnrecorded, FetchErrs, PruneErrs, RecordError, Crash, TypeOK, SyncStates
  <2>2. UNCHANGED <<ts, alive, mirror>> /\ Unfetched'
    BY <1>5 DEF Failure, FloodWait, FloodWaitUnrecorded, FetchErrs, PruneErrs, Crash, Fault, Unfetched
  <2> QED
    BY <1>0, <2>1, <2>2, MirroredSame, DeepFrame
<1> QED
  BY <1>0, <1>1, <1>2, <1>3, <1>4, <1>5, PostKeepsDeep, FetchKeepsDeep, BatchWriteKeepsDeep,
     TailWriteKeepsDeep DEF Next, World, Step

LEMMA DeepInit == Init => DeepInv
<1> SUFFICES ASSUME Init PROVE DeepInv
  OBVIOUS
<1>1. ChatInv
  BY MirrorInit DEF MirrorInv
<1>2. EndInv /\ FetchReaches
  BY DEF Init, EndInv, FetchReaches
<1> QED
  BY <1>1, <1>2 DEF DeepInv

(* For policies without retention, backfill rests only when no message of the chat
   within the history is older than the oldest mirrored one, however the history
   was deepened and cut back before: the promise of README.md:268.  With a
   retention it fails, for pruning moves the oldest row (backfill,
   engine.py:156-210). *)
THEOREM DeepeningReachesBack ==
    ASSUME NoRetention PROVE Spec => DeepeningResumes
<1>1. TypeOK /\ RowsInv /\ DeepInv /\ [Next]_vars
          => [BackfillRests =>
                \A i \in alive : i <= MinId /\ WithinPolicy(i)
                                    => \E j \in Mirrored : j <= i]_vars
  <2> SUFFICES ASSUME TypeOK, RowsInv, DeepInv, [Next]_vars, BackfillRests,
                      NEW i \in alive, i <= MinId, WithinPolicy(i)
               PROVE  Reached(i)
    BY DEF Reached
  <2>1. sync.done /\ ~HistoryDeepened /\ sync.last # 0
    BY RestIsSkip DEF BackfillRests, BackfillSkips
  <2>2. sync.cutoff = Null \/ ts[i] >= sync.cutoff
    <3> SUFFICES ASSUME sync.cutoff # Null PROVE ts[i] >= sync.cutoff
      OBVIOUS
    <3>1. HistoryCutoff # Null /\ ~(HistoryCutoff < sync.cutoff)
      BY <2>1 DEF HistoryDeepened
    <3>2. ts[i] >= HistoryCutoff
      BY <3>1 DEF WithinPolicy
    <3>3. ts[i] \in Int /\ sync.cutoff \in Int /\ HistoryCutoff \in Int
      BY <3>1, CutoffIsTyped, Numbers DEF Maybe
    <3> QED
      BY <3>1, <3>2, <3>3
  <2>3. ~Beyond(i)
    <3>1. i \in Nat /\ MinId \in Nat
      BY Numbers, MinIdIsTop
    <3> QED
      BY <3>1 DEF Beyond
  <2> QED
    BY <2>1, <2>2, <2>3 DEF DeepInv, EndInv
<1>2. Spec => [](TypeOK /\ RowsInv /\ DeepInv)
  BY DeepInit, DeepStep, TypeCorrect, RowsHold, PTL DEF Spec
<1> QED
  BY <1>1, <1>2, PTL DEF Spec, DeepeningResumes

=============================================================================
