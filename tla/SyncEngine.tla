----------------------------- MODULE SyncEngine -----------------------------
(***************************************************************************)
(* One watched peer: the remote chat, its mirror in the table messages,    *)
(* its row of sync_state, and the process that holds the sync lock and     *)
(* runs tick after tick                                                    *)
(*                                                                         *)
(*    incremental -> backfill -> rescan -> prune                           *)
(*                                                                         *)
(* Each of the first three reads the database, awaits a fetch and then     *)
(* writes in one transaction; people post, edit and delete meanwhile.  A   *)
(* fetch that is paged is taken as one snapshot of the chat.  A message is *)
(* its id and a version, of which Look is what the columns show that       *)
(* rescan compares; ids and dates grow together.  Null is SQL's NULL, and  *)
(* None of Python where a policy or a cutoff has no bound.                 *)
(***************************************************************************)
EXTENDS Integers, FiniteSets, FiniteSetsExt

CONSTANTS
    MaxMsg,         \* bound: messages ever posted
    MaxVersion,     \* bound: edits of a message
    Look,           \* text, has_media and media_kind of each version of a message
    MaxTime,        \* bound: the clock stops here
    MaxFaults,      \* bound: failed ticks
    Policies,       \* the policies the peer's entry may name, one after another
    Batch,          \* batch_size (150)
    Window,         \* window of a rescan (200)
    Floor,          \* seconds between two incremental writes (60)
    RescanEvery,    \* interval of rescan (3600)
    FloodWaits,     \* cooldowns a FloodWait may ask for, random slack included
    ErrorLimit,     \* errors before a cooldown (5)
    ErrorWait,      \* cooldown after that many errors (900)
    Failing,        \* which of "flood", "unrecorded", "fetch", "prune", "crash" may happen
    Null

ASSUME SizesArePositive ==
    {Batch, Window, Floor, RescanEvery, ErrorLimit, ErrorWait} \subseteq Nat \ {0}

ASSUME SyncBounds == {MaxMsg, MaxVersion, MaxTime, MaxFaults} \subseteq Nat

ASSUME VersionsHaveLooks ==
    /\ DOMAIN Look = 1 .. MaxMsg
    /\ \A i \in 1 .. MaxMsg : DOMAIN Look[i] = 0 .. MaxVersion

ASSUME WaitsArePositive == FloodWaits \subseteq Nat \ {0}

ASSUME NullIsNoNumber == Null \notin Int

(* config._policy: retention needs a finite history no longer than itself. *)
ValidPolicy(p) ==
    /\ p.history \in (Nat \ {0}) \cup {Null}
    /\ p.retention # Null => /\ p.retention \in Nat \ {0}
                             /\ p.history # Null
                             /\ p.history <= p.retention

ASSUME PoliciesAreValid == \A p \in Policies : ValidPolicy(p)

Ids      == 1 .. MaxMsg
Times    == 0 .. MaxTime
Versions == 0 .. MaxVersion

(* Where the process is; a step that awaits its fetch is named for the write
   that follows. *)
Awaiting == {"persist start", "persist tail", "persist backfill", "persist rescan"}
Steps    == {"idle", "incremental", "backfill", "rescan", "prune"} \cup Awaiting

VARIABLES
    now,        \* the wall clock
    top,        \* ids 1..top have been posted
    ts,         \* date of each message
    alive,      \* messages that exist in the chat
    ver,        \* version of each message in the chat
    policy,     \* the policy the process runs the peer with
    mirror,     \* version of each mirrored row, Null without a row
    gone,       \* rows whose deleted_at is set
    sync,       \* the row of sync_state
    pc,         \* the step of the tick
    got,        \* what the fetch returned: a version for each message
    cutoff,     \* history cutoff computed before the fetch
    pruned,     \* history variable: messages that retention has deleted
    floodUntil, \* history variable: end of the latest FloodWait that was raised
    recorded,   \* history variable: end of the latest FloodWait that was recorded
    faults      \* failed ticks so far

chat    == <<top, ts, alive, ver>>
tables  == <<mirror, gone, sync>>
history == <<pruned, floodUntil, recorded>>
vars    == <<now, chat, policy, tables, pc, got, cutoff, history, faults>>

None == [i \in {} |-> 0]

Maybe(S) == S \cup {Null}

SyncStates ==
    [last : Nat, cursor : Maybe(Ids), done : BOOLEAN, cutoff : Maybe(Int),
     synced : Maybe(Times), errors : Nat, cooldown : Maybe(Nat), rescanned : Maybe(Times)]

TypeOK ==
    /\ now \in Times
    /\ top \in 0 .. MaxMsg
    /\ ts \in [Ids -> Times]
    /\ alive \subseteq 1 .. top
    /\ ver \in [Ids -> Versions]
    /\ policy \in Policies
    /\ mirror \in [Ids -> Maybe(Versions)]
    /\ gone \subseteq {i \in Ids : mirror[i] # Null}
    /\ sync \in SyncStates
    /\ pc \in Steps
    /\ \E F \in SUBSET Ids : got \in [F -> Versions]
    /\ cutoff \in Maybe(Int)
    /\ pruned \subseteq Ids
    /\ floodUntil \in Nat
    /\ recorded \in Nat
    /\ faults \in 0 .. MaxFaults

(* register_peer has just created the row of sync_state. *)
Init ==
    /\ now = 0
    /\ top = 0
    /\ ts = [i \in Ids |-> 0]
    /\ alive = {}
    /\ ver = [i \in Ids |-> 0]
    /\ policy \in Policies
    /\ mirror = [i \in Ids |-> Null]
    /\ gone = {}
    /\ sync = [last |-> 0, cursor |-> Null, done |-> FALSE, cutoff |-> Null,
               synced |-> Null, errors |-> 0, cooldown |-> Null, rescanned |-> Null]
    /\ pc = "idle"
    /\ got = None
    /\ cutoff = Null
    /\ pruned = {}
    /\ floodUntil = 0
    /\ recorded = 0
    /\ faults = 0

-----------------------------------------------------------------------------
(* The chat, the clock and the watchlist *)

Tick ==
    /\ now < MaxTime
    /\ now' = now + 1
    /\ UNCHANGED <<chat, policy, tables, pc, got, cutoff, history, faults>>

Post ==
    /\ top < MaxMsg
    /\ top' = top + 1
    /\ ts' = [ts EXCEPT ![top + 1] = now]
    /\ alive' = alive \cup {top + 1}
    /\ UNCHANGED <<now, ver, policy, tables, pc, got, cutoff, history, faults>>

EditMessage(i) ==
    /\ i \in alive
    /\ ver[i] < MaxVersion
    /\ ver' = [ver EXCEPT ![i] = @ + 1]
    /\ UNCHANGED <<now, top, ts, alive, policy, tables, pc, got, cutoff, history, faults>>

DeleteMessage(i) ==
    /\ i \in alive
    /\ alive' = alive \ {i}
    /\ UNCHANGED <<now, top, ts, ver, policy, tables, pc, got, cutoff, history, faults>>

(* The watchlist is read when a process starts, hence between two ticks. *)
ChangePolicy(p) ==
    /\ pc = "idle"
    /\ p # policy
    /\ policy' = p
    /\ UNCHANGED <<now, chat, tables, pc, got, cutoff, history, faults>>

-----------------------------------------------------------------------------
(* What the steps compute.  A definition named Operator_Mistake is a mutant of
   Operator: the runs must tell the two apart. *)

Mirrored == {i \in Ids : mirror[i] # Null}

Highest(S) == Max(S \cup {0})

Newest(n, S) == {i \in S : Cardinality({j \in S : j > i}) < n}
Oldest_NewestFirst(n, S) == Newest(n, S)
Oldest(n, S) == {i \in S : Cardinality({j \in S : j < i}) < n}

(* _collect: the messages of S as they are in the chat now. *)
Fetched(S) == got' = [i \in S |-> ver[i]]

Cooling == sync.cooldown # Null /\ sync.cooldown > now

CoolingDown ==
    \/ Cooling
    \/ sync.synced # Null /\ now - sync.synced < Floor

HistoryCutoff == IF policy.history = Null THEN Null ELSE now - policy.history

WithinHistory == {i \in DOMAIN got : cutoff = Null \/ ts[i] >= cutoff}

HistoryDeepened_NeverToAll ==
    /\ {sync.cutoff, HistoryCutoff} \cap {Null} = {}
    /\ HistoryCutoff < sync.cutoff

HistoryDeepened ==
    /\ sync.cutoff # Null
    /\ HistoryCutoff # Null => HistoryCutoff < sync.cutoff

MinId_TopOnly == Max({0} \cup Mirrored)

(* incremental asks for what is above this id. *)
MinId == Max({sync.last} \cup Mirrored)

Below_Inclusive ==
    LET offset == IF sync.done THEN IF Mirrored = {} THEN Null ELSE Min(Mirrored)
                               ELSE sync.cursor
    IN  {i \in alive : offset = Null \/ i <= offset}

(* backfill asks for what is below the cursor, or below the oldest row when the
   history was deepened; without either it starts from the newest message. *)
Below ==
    LET offset == IF sync.done THEN IF Mirrored = {} THEN Null ELSE Min(Mirrored)
                               ELSE sync.cursor
    IN  {i \in alive : offset = Null \/ i < offset}

LowestOf_Zero(F) == IF F = {} THEN 0 ELSE Min(F)

(* The cursor a batch leaves behind. *)
LowestOf(F) == IF F = {} THEN Null ELSE Min(F)

BatchEnds_Full(F) == Cardinality(F) <= Batch

(* A batch that is not full has come to the beginning of the chat. *)
BatchEnds(F) == Cardinality(F) < Batch

(* upsert_many: the row gets the fetched version and loses its deleted_at. *)
Upsert(S) ==
    /\ mirror' = [i \in Ids |-> IF i \in S THEN got[i] ELSE mirror[i]]
    /\ gone' = gone \ S

Goto(step) == pc' = step
Forget == got' = None /\ cutoff' = Null

-----------------------------------------------------------------------------
(* The steps of a tick *)

StartTick ==
    /\ pc = "idle"
    /\ Goto("incremental")
    /\ UNCHANGED <<now, chat, policy, tables, got, cutoff, history, faults>>

IncrementalSkips ==
    /\ pc = "incremental"
    /\ CoolingDown
    /\ Goto("backfill")
    /\ UNCHANGED <<now, chat, policy, tables, got, cutoff, history, faults>>

(* _start: the newest batch of a peer that has no cursor yet. *)
FetchStart ==
    /\ pc = "incremental"
    /\ ~CoolingDown
    /\ sync.last = 0
    /\ cutoff' = HistoryCutoff
    /\ Fetched(Newest(Batch, alive))
    /\ Goto("persist start")
    /\ UNCHANGED <<now, chat, policy, tables, history, faults>>

PersistStart ==
    /\ pc = "persist start"
    /\ got # None
    /\ LET F == DOMAIN got
           crossed == WithinHistory # F
       IN  /\ Upsert(WithinHistory)
           /\ sync' = [sync EXCEPT
                         !.last = Max(F), !.cursor = LowestOf(F),
                         !.done = crossed \/ BatchEnds(F),
                         !.cutoff = IF crossed THEN cutoff ELSE Null,
                         !.synced = now, !.errors = 0, !.cooldown = Null]
    /\ Goto("backfill")
    /\ Forget
    /\ UNCHANGED <<now, chat, policy, history, faults>>

FetchTail ==
    /\ pc = "incremental"
    /\ ~CoolingDown
    /\ sync.last # 0
    /\ Fetched(Oldest(Batch, {i \in alive : i > MinId}))
    /\ Goto("persist tail")
    /\ UNCHANGED <<now, chat, policy, tables, cutoff, history, faults>>

PersistTail ==
    /\ pc = "persist tail"
    /\ got # None
    /\ Upsert(DOMAIN got)
    /\ sync' = [sync EXCEPT !.last = Max(DOMAIN got), !.synced = now,
                            !.errors = 0, !.cooldown = Null]
    /\ Goto("backfill")
    /\ Forget
    /\ UNCHANGED <<now, chat, policy, history, faults>>

(* Neither incremental nor _start writes anything after an empty fetch. *)
NothingNew ==
    /\ pc \in {"persist start", "persist tail"}
    /\ got = None
    /\ Goto("backfill")
    /\ Forget
    /\ UNCHANGED <<now, chat, policy, tables, history, faults>>

BackfillSkips ==
    /\ pc = "backfill"
    /\ Cooling \/ (sync.done /\ ~HistoryDeepened)
    /\ Goto("rescan")
    /\ UNCHANGED <<now, chat, policy, tables, got, cutoff, history, faults>>

FetchBackfill_InCooldown ==
    /\ pc = "backfill"
    /\ ~sync.done \/ HistoryDeepened
    /\ cutoff' = HistoryCutoff
    /\ Fetched(Newest(Batch, Below))
    /\ Goto("persist backfill")
    /\ UNCHANGED <<now, chat, policy, tables, history, faults>>

FetchBackfill ==
    /\ pc = "backfill"
    /\ ~Cooling
    /\ ~sync.done \/ HistoryDeepened
    /\ cutoff' = HistoryCutoff
    /\ Fetched(Newest(Batch, Below))
    /\ Goto("persist backfill")
    /\ UNCHANGED <<now, chat, policy, tables, history, faults>>

(* An empty fetch is written too: it ends the backfill. *)
PersistBackfill ==
    /\ pc = "persist backfill"
    /\ LET F == DOMAIN got
           crossed == WithinHistory # F
       IN  /\ Upsert(WithinHistory)
           /\ sync' = [sync EXCEPT
                         !.cursor = LowestOf(F),
                         !.done = crossed \/ BatchEnds(F),
                         !.cutoff = IF crossed THEN cutoff ELSE Null,
                         !.synced = now, !.errors = 0]
    /\ Goto("rescan")
    /\ Forget
    /\ UNCHANGED <<now, chat, policy, history, faults>>

RescanDue == sync.rescanned # Null => now - sync.rescanned >= RescanEvery

RescanSkips ==
    /\ pc = "rescan"
    /\ Cooling \/ ~RescanDue
    /\ Goto("prune")
    /\ UNCHANGED <<now, chat, policy, tables, got, cutoff, history, faults>>

FetchRescan ==
    /\ pc = "rescan"
    /\ ~Cooling
    /\ RescanDue
    /\ Fetched(Newest(Window, alive))
    /\ Goto("persist rescan")
    /\ UNCHANGED <<now, chat, policy, tables, cutoff, history, faults>>

Changed_AllFetched == DOMAIN got

(* _rescan_diff: rows that look different from what was fetched, or are marked
   deleted; the other columns, raw_json among them, are not compared ... *)
Changed ==
    {i \in DOMAIN got \cap Mirrored : Look[i][mirror[i]] # Look[i][got[i]] \/ i \in gone}

DeletedIds_NoFloor == {i \in Mirrored \ gone : i \notin DOMAIN got}

(* ... and rows of the fetched range that were not returned. *)
DeletedIds ==
    {i \in Mirrored \ gone : /\ i \notin DOMAIN got
                             /\ \E j \in DOMAIN got : j <= i}

PersistRescan ==
    /\ pc = "persist rescan"
    /\ mirror' = [i \in Ids |-> IF i \in Changed THEN got[i] ELSE mirror[i]]
    /\ gone' = (gone \ Changed) \cup DeletedIds
    /\ sync' = [sync EXCEPT !.rescanned = now]
    /\ Goto("prune")
    /\ Forget
    /\ UNCHANGED <<now, chat, policy, history, faults>>

Expired ==
    {i \in Mirrored : policy.retention # Null /\ ts[i] < now - policy.retention}

(* The tick ends here. *)
Prune ==
    /\ pc = "prune"
    /\ mirror' = [i \in Ids |-> IF i \in Expired THEN Null ELSE mirror[i]]
    /\ gone' = gone \ Expired
    /\ pruned' = pruned \cup Expired
    /\ Goto("idle")
    /\ UNCHANGED <<now, chat, policy, sync, got, cutoff, floodUntil, recorded, faults>>

-----------------------------------------------------------------------------
(* Failures: the rest of the tick is skipped *)

Fault(kind) ==
    /\ kind \in Failing
    /\ faults < MaxFaults
    /\ faults' = faults + 1
    /\ Goto("idle")
    /\ Forget

(* A fetch raises FloodWaitError: record_flood_wait. *)
FloodWait(seconds) ==
    /\ Fault("flood")
    /\ pc \in Awaiting
    /\ sync' = [sync EXCEPT !.cooldown = now + seconds, !.errors = @ + 1]
    /\ floodUntil' = now + seconds
    /\ recorded' = now + seconds
    /\ UNCHANGED <<now, chat, policy, mirror, gone, pruned>>

(* A fetch raises FloodWaitError, and the process is killed before the update of
   record_flood_wait, or the update fails on a locked database: nobody knows. *)
FloodWaitUnrecorded(seconds) ==
    /\ Fault("unrecorded")
    /\ pc \in Awaiting
    /\ floodUntil' = now + seconds
    /\ UNCHANGED <<now, chat, policy, tables, pruned, recorded>>

RecordError_OneLate ==
    LET count == sync.errors + 1
    IN  sync' = [sync EXCEPT !.errors = count,
                             !.cooldown = IF count > ErrorLimit THEN now + ErrorWait
                                                                ELSE Null]

(* Another exception: record_error.  Below the limit it stores no cooldown. *)
RecordError ==
    LET count == sync.errors + 1
    IN  sync' = [sync EXCEPT !.errors = count,
                             !.cooldown = IF count >= ErrorLimit THEN now + ErrorWait
                                                                 ELSE Null]

(* A fetch raises, or the transaction after it is rolled back. *)
FetchErrs ==
    /\ Fault("fetch")
    /\ pc \in Awaiting
    /\ RecordError
    /\ UNCHANGED <<now, chat, policy, mirror, gone, history>>

(* The transaction of prune is rolled back, for a database that stays locked. *)
PruneErrs ==
    /\ Fault("prune")
    /\ pc = "prune"
    /\ RecordError
    /\ UNCHANGED <<now, chat, policy, mirror, gone, history>>

(* The process is killed, or record_error fails in its turn. *)
Crash ==
    /\ Fault("crash")
    /\ pc # "idle"
    /\ UNCHANGED <<now, chat, policy, tables, history>>

-----------------------------------------------------------------------------

World ==
    \/ Tick
    \/ Post
    \/ \E i \in Ids : EditMessage(i) \/ DeleteMessage(i)
    \/ \E p \in Policies : ChangePolicy(p)

Step ==
    \/ StartTick
    \/ IncrementalSkips \/ FetchStart \/ PersistStart
    \/ FetchTail \/ PersistTail \/ NothingNew
    \/ BackfillSkips \/ FetchBackfill \/ PersistBackfill
    \/ RescanSkips \/ FetchRescan \/ PersistRescan
    \/ Prune

Failure ==
    \/ \E seconds \in FloodWaits : FloodWait(seconds) \/ FloodWaitUnrecorded(seconds)
    \/ FetchErrs
    \/ PruneErrs
    \/ Crash

Next == World \/ Step \/ Failure

Spec == Init /\ [][Next]_vars

(* A timer starts a tick again and again, and a fetch returns or raises. *)
FairSpec == Spec /\ WF_vars(Step)

-----------------------------------------------------------------------------
(* Properties *)

(* What the row of sync_state says has been mirrored: everything from the
   backfill cursor up while backfill is under way, everything within the
   history it stopped at when it is done. *)
Claimed ==
    {i \in 1 .. MinId : /\ sync.last # 0
                        /\ IF sync.done THEN sync.cutoff = Null \/ ts[i] >= sync.cutoff
                                        ELSE sync.cursor # Null /\ i >= sync.cursor}

(* No message is lost between the two cursors: a message of the chat that the
   cursors claim is in the mirror, or retention deleted it, however posts,
   failures and restarts fall between a fetch and its write (incremental and
   backfill, engine.py:93-210). *)
NoHoles == \A i \in Claimed \cap alive : i \in Mirrored \cup pruned

(* A row is marked deleted only if its message is gone from the chat, though
   rescan sees a window of the chat that is old when it is written (_rescan_diff,
   engine.py:312-347). *)
SoftDeletesAreSound == gone \cap alive = {}

(* A message that retention deleted does not come back while the policy stays
   the same: neither the cursors nor rescan refetch it. *)
PrunedStaysGone == pruned \cap Mirrored = {}

(* Errors in a row end in a cooldown: a peer at the limit has one on record
   (record_flood_wait and record_error, engine.py:369-415). *)
ErrorsCoolDown == sync.errors >= ErrorLimit => sync.cooldown # Null

(* A rescan adds and takes no row: new messages are left to the cursors.  In the
   range it fetched it marks deleted what had gone when it fetched and no message
   that is still there, and a row whose message was not edited since then looks as
   the message does (engine.py:270-347). *)
RescanIsExact ==
    [][pc = "persist rescan" /\ pc' = "prune" =>
          /\ Mirrored' = Mirrored
          /\ \A i \in Mirrored : (\E j \in DOMAIN got : j <= i) =>
                /\ i \in alive => i \notin gone'
                /\ i \notin alive \cup DOMAIN got => i \in gone'
                /\ i \in alive \cap DOMAIN got /\ got[i] = ver[i] =>
                      Look[i][mirror'[i]] = Look[i][ver[i]]]_vars

WithinPolicy(i) == HistoryCutoff # Null => ts[i] >= HistoryCutoff

(* Backfill calls nothing, for the work is done and not for a cooldown. *)
BackfillRests == pc = "backfill" /\ pc' = "rescan" /\ ~Cooling /\ sync.last # 0

(* Under one policy, when backfill rests the mirror holds every message of the
   peer's history up to its top (backfill, engine.py:156-210). *)
NothingLeftToFill ==
    [][BackfillRests =>
          \A i \in alive : i <= MinId /\ WithinPolicy(i) => i \in Mirrored]_vars

(* Backfill does not rest while the chat has messages within the history that
   are older than the oldest mirrored one, whatever policies came before.
   README.md:268: "Deepening history later (for example 14d -> all) resumes
   backfill from the oldest mirrored message". *)
DeepeningResumes ==
    [][BackfillRests =>
          \A i \in alive : i <= MinId /\ WithinPolicy(i)
                              => \E j \in Mirrored : j <= i]_vars

(* No call to Telegram starts while a FloodWait lasts.  README.md:239-240:
   "never during a FloodWait/error cooldown"; CHANGELOG.md:57: "Backfill no
   longer calls Telegram while a peer is in FloodWait/error cooldown". *)
FloodWaitIsKept ==
    [][pc \notin Awaiting /\ pc' \in Awaiting => now >= floodUntil]_vars

(* No call to Telegram starts while a FloodWait lasts that came to be recorded,
   whatever the tick writes or fails at since (record_flood_wait,
   engine.py:369-388).  One that was raised and not recorded is forgotten. *)
RecordedWaitIsKept ==
    [][pc \notin Awaiting /\ pc' \in Awaiting => now >= recorded]_vars

(* Backfill comes to its end, unless a cooldown is on when the clock stops: each
   batch moves the cursor (engine.py:156-201). *)
BackfillCompletes == sync.last # 0 ~> sync.done \/ Cooling

=============================================================================
