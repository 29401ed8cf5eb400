------------------------------ MODULE Accounts ------------------------------
(***************************************************************************)
(* The accounts of one settings file and the commands that run on them:    *)
(* how `tgq` selects accounts, opens and migrates the mirror of each, runs *)
(* its command on one after another and merges what they answer, while     *)
(* other processes do the same and any of them may fail or be killed.      *)
(*                                                                         *)
(* The settings file stays as it is.  --account or TGQ_ACCOUNT is one      *)
(* request.  --db and TGQ_DB stand for the options and variables of paths. *)
(* What a command does in a mirror is the matter of the other modules:     *)
(* here a sync adds messages and any other write leaves a mark.            *)
(***************************************************************************)
EXTENDS Integers, Sequences, FiniteSets

CONSTANTS
    Names,      \* the names that accounts may be given
    Files,      \* paths of mirrors
    Dirs,       \* directories of session files
    Written,    \* the settings files that people may have written
    Commands,   \* the commands that people and timers run
    Processes,
    Messages,   \* what a mirror may hold; id stands for peer and number
    Arriving,   \* bound: those of them that syncs add
    Stores,     \* what the mirrors may hold at the start
    Latest,     \* the number of the last migration (3 in the code)
    Failing,    \* bound: the exit codes that commands fail with
    Mark,       \* what a write leaves other than messages
    All, None

ASSUME LatestIsPositive == Latest \in Nat \ {0}

ASSUME FailingAreCodes == Failing \subseteq 2 .. 5

ASSUME AllAndNoneAreNoNames == {All, None} \cap (Names \cup Files) = {}

ASSUME MarkIsNoMessage == Mark \notin Messages /\ Arriving \subseteq Messages

ASSUME MessagesAreRecords == Messages \subseteq [ts : Int, id : Int]

ASSUME StoresAreTyped ==
    Stores \subseteq [Files -> SUBSET Messages] /\ \A s \in Stores : \A f \in Files : IsFiniteSet(s[f])

Kinds == {"search", "look", "list", "thread", "tag", "act", "sync", "loop"}
Codes == Failing \cup {2, 3}

ASSUME SettingsAreTyped ==
    \A s \in Written :
        LET accounts == {s.order[i] : i \in DOMAIN s.order}
        IN  /\ s.named \in BOOLEAN
            /\ s.order \in Seq(Names) /\ s.default \in Names \cup {None}
            /\ \A i, j \in DOMAIN s.order : s.order[i] = s.order[j] => i = j   \* keys of a mapping
            /\ s.db \in [accounts -> Files \cup {None}]
            /\ s.dir \in [accounts -> Dirs \cup {None}]

ASSUME CommandsAreTyped ==
    \A c \in Commands :
        /\ c.kind \in Kinds
        /\ c.account \in Names \cup {All, None}     \* the account asked for
        /\ {c.db, c.env} \subseteq Files \cup {None}  \* --db and TGQ_DB
        /\ c.dry \in BOOLEAN                        \* --dry-run
        /\ c.handle \in Names \cup {None}           \* what qualifies the handle
        /\ c.limit \in Int /\ c.asc \in BOOLEAN     \* --limit and --order

(* The schema of a mirror: the migrations applied, in order, and user_version. *)
Absent  == [applied |-> << >>, version |-> -1]
Fresh   == [applied |-> << >>, version |-> 0]
Whole(n) == [applied |-> [i \in 1 .. n |-> i], version |-> n]

VARIABLES
    settings,   \* the settings file
    mirror,     \* the schema of each mirror
    rows,       \* the messages and marks in each mirror
    proc        \* what each process does

vars == <<settings, mirror, rows, proc>>

(* What came of an account: not tried, an error of an exit code, an error of
   none, sync found the lock held, no rows, some, or the messages read. *)
Untried    == [is |-> "untried"]
Error(n)   == [is |-> "error", code |-> n]
Bug        == [is |-> "bug"]
Skipped    == [is |-> "skipped"]
Nothing    == [is |-> "nothing"]
Something  == [is |-> "something"]
Read(S)    == [is |-> "read", rows |-> S]
Outcomes   == {Untried, Bug, Skipped, Nothing, Something}
                 \cup {Error(n) : n \in Codes} \cup {Read(S) : S \in SUBSET Messages}

Idle  == [at |-> "idle"]
Runs  == [at : {"opening", "migrating", "ready", "syncing", "done"}, cmd : Commands,
          todo : Seq(Names), base : 0 .. Latest, failure : {0} \cup Codes,
          bug : BOOLEAN, out : [Names -> Outcomes]]

TypeOK ==
    /\ settings \in Written
    /\ mirror \in [Files -> [applied : Seq(1 .. Latest), version : -1 .. Latest]]
    /\ rows \in [Files -> SUBSET (Messages \cup {Mark})]
    /\ \A p \in Processes : proc[p] = Idle \/ proc[p] \in Runs

-----------------------------------------------------------------------------
(* Settings.  A definition named Operator_Mistake, here and below, is a mutant
   of Operator. *)

AccountsOf(s) == {s.order[i] : i \in DOMAIN s.order}

Unshared_DbOnly(s) ==
    \A a, b \in AccountsOf(s) : a # b => s.db[a] # s.db[b]

(* _reject_shared_paths *)
Unshared(s) ==
    \A a, b \in AccountsOf(s) : a # b => s.db[a] # s.db[b] /\ s.dir[a] # s.dir[b]

(* load_settings; without an accounts section there is one account, and paths
   need not be given. *)
Loads(s) ==
    \/ ~s.named /\ Len(s.order) = 1 /\ s.default = None
    \/ /\ s.named
       /\ s.order # << >>
       /\ All \notin AccountsOf(s)
       /\ \A a \in AccountsOf(s) : None \notin {s.db[a], s.dir[a]}
       /\ Unshared(s)
       /\ s.default \in AccountsOf(s) \cup {None}

(* UserSettings.select, empty where it raises *)
Selected(c) ==
    CASE c.account = All -> settings.order
      [] c.account \in AccountsOf(settings) -> <<c.account>>
      [] c.account = None /\ settings.default # None -> <<settings.default>>
      [] c.account = None /\ settings.default = None /\ Len(settings.order) = 1 -> settings.order
      [] OTHER -> << >>

Fanout(c) == c.account = All /\ settings.named

TakesHandle(c) == c.kind \in {"thread", "tag"}

(* _apply_user_settings and _run_fanout refuse it. *)
Refused(c) ==
    \/ Fanout(c) /\ c.db # None
    \/ settings.named /\ c.env # None /\ c.db = None
    \/ Fanout(c) /\ c.kind \in {"act", "loop"}
    \/ Fanout(c) /\ TakesHandle(c) /\ c.handle \notin AccountsOf(settings)

(* The accounts that a command runs on, one after another. *)
Targets(c) ==
    IF Refused(c) THEN << >>
    ELSE IF Fanout(c) /\ TakesHandle(c) THEN <<c.handle>>
    ELSE Selected(c)

(* _apply_account: the option, the variable unless accounts are named, the file *)
PathOf(c, a) ==
    CASE c.db # None -> c.db
      [] c.db = None /\ ~settings.named /\ c.env # None -> c.env
      [] OTHER -> settings.db[a]

Init ==
    /\ settings \in {s \in Written : Loads(s)}
    /\ mirror \in [Files -> {Absent} \cup {Whole(n) : n \in 0 .. Latest}]
    /\ rows \in {s \in Stores : \A f \in Files : mirror[f].version < 1 => s[f] = {}}
    /\ proc = [p \in Processes |-> Idle]

-----------------------------------------------------------------------------
(* How a command goes through its accounts *)

At(p, place) == proc[p].at = place
Account(p)   == Head(proc[p].todo)
Path(p)      == PathOf(proc[p].cmd, Account(p))

Start(p, c) ==
    /\ At(p, "idle")
    /\ Targets(c) # << >>
    /\ proc' = [proc EXCEPT ![p] =
          [at |-> "opening", cmd |-> c, todo |-> Targets(c), base |-> 0, failure |-> 0,
           bug |-> FALSE, out |-> [a \in Names |-> Untried]]]
    /\ UNCHANGED <<settings, mirror, rows>>

Noted_LastCode(r, o) ==
    CASE o.is = "error" -> [r EXCEPT !.failure = o.code]
      [] o.is = "bug"   -> [r EXCEPT !.bug = TRUE]
      [] OTHER          -> r

(* The first failure decides the exit code; an error that has none is kept. *)
Noted(r, o) ==
    CASE o.is = "error" /\ r.failure = 0 -> [r EXCEPT !.failure = o.code]
      [] o.is = "bug"                     -> [r EXCEPT !.bug = TRUE]
      [] OTHER                            -> r

(* The account is done with, one way or another: on to the next. *)
Concluded(p, o) ==
    LET r == Noted(proc[p], o)
    IN  proc' = [proc EXCEPT ![p] =
           [r EXCEPT !.out[Account(p)] = o, !.base = 0, !.todo = Tail(r.todo),
                     !.at = IF Len(r.todo) = 1 THEN "done" ELSE "opening"]]

Goes(p, place) == proc' = [proc EXCEPT ![p].at = place]

Leave(p) ==
    /\ At(p, "done")
    /\ proc' = [proc EXCEPT ![p] = Idle]
    /\ UNCHANGED <<settings, mirror, rows>>

(* The process is killed: the connection and the lock go with it. *)
Crash(p) ==
    /\ proc[p].at \notin {"idle", "done"}
    /\ proc' = [proc EXCEPT ![p] = Idle]
    /\ UNCHANGED <<settings, mirror, rows>>

-----------------------------------------------------------------------------
(* Opening a mirror *)

WriteKinds   == {"sync", "loop", "list", "tag", "act"}
Writes(c)    == c.kind \in WriteKinds
Creates(c)   == c.kind \in WriteKinds \ {"list"}

(* Under --dry-run a write works on a migrated copy in memory. *)
Transient(c) == c.dry /\ Writes(c)

Missing(f) == f \notin {g \in Files : mirror[g] # Absent}

OpenRefused(p) ==
    /\ At(p, "opening")
    /\ Missing(Path(p))
    /\ Path(p) # None => ~Creates(proc[p].cmd)
    /\ Concluded(p, Error(3))
    /\ UNCHANGED <<settings, mirror, rows>>

OpenCopy(p) ==
    /\ At(p, "opening")
    /\ Path(p) \in Files
    /\ Missing(Path(p)) => Creates(proc[p].cmd)
    /\ Transient(proc[p].cmd)
    /\ Goes(p, "ready")
    /\ UNCHANGED <<settings, mirror, rows>>

OpenRead(p) ==
    /\ At(p, "opening")
    /\ ~Missing(Path(p))
    /\ ~Writes(proc[p].cmd)
    /\ IF mirror[Path(p)].version < 1 THEN Concluded(p, Error(3)) ELSE Goes(p, "ready")
    /\ UNCHANGED <<settings, mirror, rows>>

(* connect creates the file; migrate reads user_version before its
   transactions. *)
OpenWrite(p) ==
    /\ At(p, "opening")
    /\ Path(p) \in Files
    /\ Missing(Path(p)) => Creates(proc[p].cmd)
    /\ Writes(proc[p].cmd)
    /\ ~Transient(proc[p].cmd)
    /\ LET found == IF mirror[Path(p)] = Absent THEN Fresh ELSE mirror[Path(p)]
       IN  /\ mirror' = [mirror EXCEPT ![Path(p)] = found]
           /\ proc' = [proc EXCEPT ![p].at = "migrating", ![p].base = found.version]
    /\ UNCHANGED <<settings, rows>>

RunsOn_Again(f, n) == TRUE

(* The statements of a migration fail where it has been applied: its tables or
   its column exist. *)
RunsOn(f, n) == \A i \in DOMAIN mirror[f].applied : mirror[f].applied[i] # n

(* One transaction. *)
Migrate(p) ==
    LET n == proc[p].base + 1
    IN  /\ At(p, "migrating")
        /\ n <= Latest
        /\ \/ /\ RunsOn(Path(p), n)
              /\ mirror' = [mirror EXCEPT ![Path(p)] =
                               [applied |-> Append(@.applied, n), version |-> n]]
              /\ proc' = [proc EXCEPT ![p].base = n]
           \/ /\ ~RunsOn(Path(p), n)
              /\ Concluded(p, Error(3))
              /\ UNCHANGED mirror
        /\ UNCHANGED <<settings, rows>>

Migrated(p) ==
    /\ At(p, "migrating")
    /\ proc[p].base = Latest
    /\ Goes(p, "ready")
    /\ UNCHANGED <<settings, mirror, rows>>

(* A database that is locked or broken *)
DatabaseErrs(p) ==
    /\ proc[p].at \in {"opening", "migrating", "ready"}
    /\ Concluded(p, Error(3))
    /\ UNCHANGED <<settings, mirror, rows>>

-----------------------------------------------------------------------------
(* Running the command on the account *)

Gains(f, S) == rows' = [rows EXCEPT ![f] = @ \cup S]

Search_Marks(p) ==
    /\ At(p, "ready")
    /\ proc[p].cmd.kind = "search"
    /\ Concluded(p, Read(rows[Path(p)]))
    /\ UNCHANGED <<settings, mirror, rows>>

Search(p) ==
    /\ At(p, "ready")
    /\ proc[p].cmd.kind = "search"
    /\ Concluded(p, Read(rows[Path(p)] \ {Mark}))
    /\ UNCHANGED <<settings, mirror, rows>>

Misrouted_Never(c, a) == FALSE

(* _local_handle: the handle names another account. *)
Misrouted(c, a) == settings.named /\ TakesHandle(c) /\ c.handle \notin {None, a}

Look(p) ==
    /\ At(p, "ready")
    /\ proc[p].cmd.kind \in {"look", "list", "thread"}
    /\ ~Misrouted(proc[p].cmd, Account(p))
    /\ Concluded(p, Nothing) \/ Concluded(p, Something)
    /\ UNCHANGED <<settings, mirror, rows>>

Act(p) ==
    /\ At(p, "ready")
    /\ proc[p].cmd.kind \in {"tag", "act"}
    /\ ~Misrouted(proc[p].cmd, Account(p))
    /\ Concluded(p, Something)
    /\ IF proc[p].cmd.dry THEN UNCHANGED rows ELSE Gains(Path(p), {Mark})
    /\ UNCHANGED <<settings, mirror>>

(* A handle of another account, a dry loop, an unknown peer, a broken watchlist, what the
   policy refuses, what Telegram answers, or a bug *)
CommandErrs(p) ==
    /\ At(p, "ready")
    /\ \/ /\ \/ Misrouted(proc[p].cmd, Account(p))
             \/ proc[p].cmd.kind = "loop" /\ proc[p].cmd.dry
          /\ Concluded(p, Error(2))
       \/ \E o \in {Bug} \cup {Error(n) : n \in Failing} : Concluded(p, o)
    /\ UNCHANGED <<settings, mirror, rows>>

Syncs(c) == c.kind \in {"sync", "loop"}

(* sync_lock_path: the lock is in the directory of the session. *)
LockOf(p) == settings.dir[Account(p)]

Free(p) == \A q \in Processes : At(q, "syncing") => LockOf(q) # LockOf(p)

TakeLock(p) ==
    /\ At(p, "ready") /\ Syncs(proc[p].cmd)
    /\ proc[p].cmd.kind = "loop" => ~proc[p].cmd.dry
    /\ Free(p)
    /\ Goes(p, "syncing")
    /\ UNCHANGED <<settings, mirror, rows>>

SkipSync(p) ==
    /\ At(p, "ready") /\ Syncs(proc[p].cmd)
    /\ ~Free(p)
    /\ Concluded(p, Skipped)
    /\ UNCHANGED <<settings, mirror, rows>>

SyncWrites(p, m) ==
    /\ At(p, "syncing")
    /\ ~proc[p].cmd.dry
    /\ Gains(Path(p), {m})
    /\ UNCHANGED <<settings, mirror, proc>>

(* It answers with a count, a loop with nothing, or it fails. *)
SyncEnds(p) ==
    /\ At(p, "syncing")
    /\ \E o \in {Something, Nothing, Bug} \cup {Error(n) : n \in Failing} :
          /\ o = Nothing => proc[p].cmd.kind = "loop"
          /\ o = Something => proc[p].cmd.kind = "sync"
          /\ Concluded(p, o)
    /\ UNCHANGED <<settings, mirror, rows>>

-----------------------------------------------------------------------------
(* Merging what the accounts answered *)

(* ORDER BY ts, peer_id, msg_id in one direction: id stands for the last two. *)
Precedes(c, m, n) ==
    LET less(x, y) == x.ts < y.ts \/ (x.ts = y.ts /\ x.id < y.id)
    IN  IF c.asc THEN less(m, n) ELSE less(n, m)

(* A limit below zero is none. *)
Cut(c, q) == IF c.limit < 0 \/ Len(q) <= c.limit THEN q ELSE SubSeq(q, 1, c.limit)

(* In a sorted sequence, i - 1 elements of the set come before the i-th. *)
Sorted(S, order) ==
    [i \in 1 .. Cardinality(S) |->
        CHOOSE x \in S : Cardinality({y \in S : <<y, x>> \in order}) = i - 1]

(* search_messages, on one mirror *)
Top(c, S) == Cut(c, Sorted(S, {e \in S \X S : Precedes(c, e[1], e[2])}))

(* What the accounts answered that could be read, each by its place in the row *)
Answer(p, i) == proc[p].out[Targets(proc[p].cmd)[i]]

Answers(p) ==
    [i \in {j \in DOMAIN Targets(proc[p].cmd) : Answer(p, j).is = "read"} |-> Answer(p, i).rows]

MergeBefore_RowFirst(c, e, f) ==
    \/ e.row < f.row
    \/ e.row = f.row /\ e.account < f.account

(* By time, then by account, then as the account answered *)
MergeBefore(c, e, f) ==
    \/ IF c.asc THEN e.msg.ts < f.msg.ts ELSE e.msg.ts > f.msg.ts
    \/ e.msg.ts = f.msg.ts /\ e.account < f.account
    \/ e.msg.ts = f.msg.ts /\ e.account = f.account /\ e.row < f.row

Entries(c, answers) ==
    UNION {{[account |-> i, row |-> j, msg |-> Top(c, answers[i])[j]] :
               j \in DOMAIN Top(c, answers[i])} : i \in DOMAIN answers}

(* _merge *)
Merged(c, answers) ==
    LET E == Entries(c, answers)
    IN  Cut(c, Sorted(E, {e \in E \X E : MergeBefore(c, e[1], e[2])}))

Shows(p) ==
    \/ \E a \in Names : proc[p].out[a] = Something
    \/ Merged(proc[p].cmd, Answers(p)) # << >>

(* _collect_each and _exit_code; an error that has no code is raised, and ends
   the interpreter with 1 as if there were no rows. *)
ExitCode(p) ==
    CASE proc[p].bug -> 1
      [] ~proc[p].bug /\ proc[p].failure # 0 -> proc[p].failure
      [] OTHER -> IF Shows(p) \/ Syncs(proc[p].cmd) THEN 0 ELSE 1

-----------------------------------------------------------------------------

CommandStep(p) ==
    \/ OpenRefused(p) \/ OpenCopy(p) \/ OpenRead(p) \/ OpenWrite(p)
    \/ Migrate(p) \/ Migrated(p) \/ DatabaseErrs(p)
    \/ Search(p) \/ Look(p) \/ Act(p) \/ CommandErrs(p)
    \/ TakeLock(p) \/ SkipSync(p) \/ SyncEnds(p)
    \/ \E m \in Arriving : SyncWrites(p, m)

Next ==
    \E p \in Processes :
       \/ \E c \in Commands : Start(p, c)
       \/ CommandStep(p)
       \/ Leave(p)
       \/ Crash(p)

Spec == Init /\ [][Next]_vars

-----------------------------------------------------------------------------
(* Properties *)

(* Whatever races, fails or is killed, a mirror has the migrations that its
   version says, each applied once and in order, although user_version is read
   outside of the transactions (migrate.py:10-30).  So has a mirror with rows. *)
SchemaIsWhole ==
    \A f \in Files :
        /\ mirror[f] \in {Absent} \cup {Whole(n) : n \in 0 .. Latest}
        /\ rows[f] # {} => mirror[f].version >= 1

(* The command names the mirror f: by --db, or else by the account it asks for,
   or the one that is meant where it asks for none. *)
Owns(a, f) == a \in AccountsOf(settings) /\ settings.db[a] = f

AsksFor(c, a) ==
    \/ c.account \in {a, All}
    \/ c.account = None /\ (AccountsOf(settings) = {a} \/ settings.default = a)

Reaches(c, f) ==
    /\ Writes(c) /\ ~c.dry
    /\ IF c.db # None THEN c.db = f
       ELSE IF c.env # None THEN c.env = f /\ ~settings.named
       ELSE \E a \in Names : Owns(a, f) /\ AsksFor(c, a)

(* A qualified handle belongs to the account that it names. *)
Means(c, f) ==
    settings.named /\ c.db = None /\ TakesHandle(c) /\ c.handle # None => Owns(c.handle, f)

(* No mirror is created, migrated or written but by a command that reaches it,
   and no row is changed for the handle of another account: not by a read, not by
   a dry run, and with several accounts not by an exported path (README.md:122-145;
   main.py:202-304, 397-419, 510-532, 693-705).  A command that is refused for its
   handle has opened the mirror before that. *)
OnlyItsMirror ==
    [][\A f \in Files :
          /\ mirror'[f] # mirror[f] =>
                \E p \in Processes : ~At(p, "idle") /\ Reaches(proc[p].cmd, f)
          /\ rows'[f] # rows[f] =>
                \E p \in Processes :
                   ~At(p, "idle") /\ Reaches(proc[p].cmd, f) /\ Means(proc[p].cmd, f)]_vars

(* README.md:87: "a FloodWait or a broken session on one account never blocks
   another".  A sync is skipped only while another one of the same account runs,
   and starts only if those that run are of other accounts and, unless --db says
   otherwise, write to other mirrors (settings.py:214-229, lock.py:10-35). *)
SyncingNow(p) == {q \in Processes \ {p} : At(q, "syncing")}

AccountsAreApart ==
    [][\A p \in Processes :
          /\ SkipSync(p) => \E q \in SyncingNow(p) : Account(q) = Account(p)
          /\ TakeLock(p) => \A q \in SyncingNow(p) :
                /\ Account(q) # Account(p)
                /\ {proc[p].cmd.db, proc[q].cmd.db} = {None} => Path(q) # Path(p)]_vars

(* What --account all prints is what one mirror that held everything read would
   have answered: ordered by time, then account, and cut after that, though each
   mirror was cut before (_merge, main.py:458-476; query.py:102-116). *)
Everything(answers) ==
    UNION {{[account |-> i, msg |-> m] : m \in answers[i]} : i \in DOMAIN answers}

Before(c, e, f) ==
    \/ IF c.asc THEN e.msg.ts < f.msg.ts ELSE e.msg.ts > f.msg.ts
    \/ e.msg.ts = f.msg.ts /\ e.account < f.account
    \/ e.msg.ts = f.msg.ts /\ e.account = f.account /\ Precedes(c, e.msg, f.msg)

GlobalTop(c, answers) ==
    LET V == Everything(answers)
    IN  Cut(c, Sorted(V, {e \in V \X V : Before(c, e[1], e[2])}))

Shown(q) == [i \in DOMAIN q |-> <<q[i].account, q[i].msg>>]

FanoutIsGlobalTop ==
    \A p \in Processes :
        At(p, "done") =>
            Shown(Merged(proc[p].cmd, Answers(p))) = Shown(GlobalTop(proc[p].cmd, Answers(p)))

(* A command that ends has tried each of its accounts, and its exit code is that
   of the first one that failed, unless an error without a code is raised; 0 says
   that none failed (README.md:125-136; main.py:479-507). *)
Failed(o) == o.is \in {"error", "bug"}

ExitIsHonest ==
    \A p \in Processes : At(p, "done") =>
        LET tried  == Targets(proc[p].cmd)
            out(i) == proc[p].out[tried[i]]
            code   == ExitCode(p)
        IN  /\ \A i \in DOMAIN tried : out(i) # Untried
            /\ code = 0 => \A i \in DOMAIN tried : ~Failed(out(i))
            /\ code \in Codes => \E i \in DOMAIN tried :
                  out(i) = Error(code) /\ \A j \in 1 .. i - 1 : ~Failed(out(j))
            /\ (\E i \in DOMAIN tried : Failed(out(i)))
                  => code \in Codes \/ \E i \in DOMAIN tried : out(i) = Bug

=============================================================================
