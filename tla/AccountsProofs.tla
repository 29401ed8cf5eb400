--------------------------- MODULE AccountsProofs ---------------------------
(***************************************************************************)
(* Types, migrations, the separation of accounts, exit codes and merged    *)
(* answers for any number of processes, accounts, mirrors and commands.    *)
(***************************************************************************)
EXTENDS Accounts, SequenceTheorems, FunctionTheorems, FiniteSetTheorems, WellFoundedInduction, TLAPS

(* A process that runs has a record of these fields, and an account before it
   until it is done. *)
Fields == {"at", "cmd", "todo", "base", "failure", "bug", "out"}

Queues == Seq(AccountsOf(settings)) \ {<< >>}

GoodRun(r) ==
    \/ r.at = "idle"
    \/ Fields \subseteq DOMAIN r /\ (r.at # "done" => r.todo \in Queues)

RunInv ==
    /\ settings \in Written /\ Loads(settings)
    /\ DOMAIN proc = Processes
    /\ \A p \in Processes : GoodRun(proc[p])

Running(p) == proc[p].at \notin {"idle", "done"}

(* Noting an outcome touches the failure and the bug only. *)
LEMMA NotedRun ==
    ASSUME NEW r, Fields \subseteq DOMAIN r, NEW o
    PROVE  LET s == Noted(r, o)
           IN  Fields \subseteq DOMAIN s /\ s.at = r.at /\ s.cmd = r.cmd /\ s.todo = r.todo
<1>1. CASE o.is = "error" /\ r.failure = 0
  <2>1. Noted(r, o) = [r EXCEPT !.failure = o.code]
    BY <1>1 DEF Noted
  <2> QED
    BY <2>1 DEF Fields
<1>2. CASE o.is = "bug"
  <2>1. Noted(r, o) = [r EXCEPT !.bug = TRUE]
    BY <1>2 DEF Noted
  <2> QED
    BY <2>1 DEF Fields
<1>3. CASE ~(o.is = "error" /\ r.failure = 0) /\ o.is # "bug"
  <2>1. Noted(r, o) = r
    BY <1>3 DEF Noted
  <2> QED
    BY <2>1
<1> QED
  BY <1>1, <1>2, <1>3

LEMMA MovedOn ==
    ASSUME NEW s, Fields \subseteq DOMAIN s, NEW a, NEW o, NEW place
    PROVE  LET t == [s EXCEPT !.out[a] = o, !.base = 0, !.todo = Tail(@), !.at = place]
           IN  Fields \subseteq DOMAIN t /\ t.at = place /\ t.cmd = s.cmd /\ t.todo = Tail(s.todo)
  BY DEF Fields

(* The two ways in which a process goes on. *)
LEMMA ConcludedRun ==
    ASSUME RunInv, NEW p \in Processes, Running(p), NEW o, Concluded(p, o)
    PROVE  /\ DOMAIN proc' = Processes
           /\ \A q \in Processes \ {p} : proc'[q] = proc[q]
           /\ proc'[p].at \in {"opening", "done"}
           /\ GoodRun(proc'[p])
<1> DEFINE r == proc[p]
           s == Noted(r, o)
           place == IF Len(s.todo) = 1 THEN "done" ELSE "opening"
           t == [s EXCEPT !.out[Account(p)] = o, !.base = 0, !.todo = Tail(@), !.at = place]
<1>1. Fields \subseteq DOMAIN r /\ r.todo \in Queues
  BY DEF RunInv, GoodRun, Running
<1>2. Fields \subseteq DOMAIN s /\ s.todo = r.todo
  BY <1>1, NotedRun
<1>3. proc' = [proc EXCEPT ![p] = t]
  BY DEF Concluded
<1>4. Fields \subseteq DOMAIN t /\ t.at = place /\ t.todo = Tail(s.todo)
  <2> HIDE DEF s, place
  <2> QED
    BY <1>2, MovedOn
<1>5. Len(s.todo) # 1 => Tail(s.todo) \in Queues
  <2>1. ASSUME NEW q \in Seq(AccountsOf(settings)), q # << >>, Len(q) # 1
        PROVE  Tail(q) \in Seq(AccountsOf(settings)) /\ Tail(q) # << >>
    <3>1. Tail(q) \in Seq(AccountsOf(settings)) /\ Len(Tail(q)) = Len(q) - 1
      BY <2>1, HeadTailProperties
    <3>2. Len(Tail(q)) # 0
      BY <2>1, <3>1
    <3>3. Len(<< >>) = 0
      OBVIOUS
    <3> QED
      BY <3>1, <3>2, <3>3, Zenon
  <2> QED
    BY <1>1, <1>2, <2>1 DEF Queues
<1> HIDE DEF t, s, r
<1> QED
  BY <1>3, <1>4, <1>5 DEF RunInv, GoodRun

LEMMA GoesRun ==
    ASSUME RunInv, NEW p \in Processes, Running(p), NEW place, Goes(p, place)
    PROVE  /\ DOMAIN proc' = Processes
           /\ \A q \in Processes \ {p} : proc'[q] = proc[q]
           /\ proc'[p].at = place /\ proc'[p].cmd = proc[p].cmd
           /\ proc'[p].todo = proc[p].todo /\ proc'[p].base = proc[p].base
           /\ place # "idle" => GoodRun(proc'[p])
  BY DEF Goes, RunInv, GoodRun, Running, Fields

(* The accounts that a command runs on are in the settings. *)
LEMMA TargetsAreAccounts ==
    ASSUME RunInv, NEW c, Targets(c) # << >>
    PROVE  Targets(c) \in Queues
<1>1. settings.order \in Seq(AccountsOf(settings)) /\ settings.order # << >>
  <2>1. settings.order \in Seq(Names)
    BY SettingsAreTyped DEF RunInv
  <2>2. settings.order \in Seq(AccountsOf(settings))
    BY <2>1 DEF AccountsOf
  <2> QED
    BY <2>1, <2>2 DEF RunInv, Loads
<1>2. settings.default # None => settings.default \in AccountsOf(settings)
  BY DEF RunInv, Loads
<1>3. Selected(c) # << >> => Selected(c) \in Queues
  BY <1>1, <1>2 DEF Selected, Queues
<1>4. \/ Targets(c) = <<c.handle>> /\ c.handle \in AccountsOf(settings)
      \/ Targets(c) = Selected(c)
  BY DEF Targets, Refused
<1> QED
  BY <1>3, <1>4 DEF Queues

LEMMA RunInit == Init => RunInv
  BY DEF Init, RunInv, GoodRun, Idle

LEMMA RunStep == RunInv /\ [Next]_vars => RunInv'
<1> SUFFICES ASSUME RunInv, [Next]_vars PROVE RunInv'
  OBVIOUS
<1>2. ASSUME Next PROVE settings' = settings
  BY <1>2 DEF Next, CommandStep, Start, Leave, Crash, OpenRefused, OpenCopy, OpenRead, OpenWrite,
     Migrate, Migrated, DatabaseErrs, Search, Look, Act, CommandErrs, TakeLock, SkipSync,
     SyncWrites, SyncEnds
<1>3. ASSUME settings' = settings, DOMAIN proc' = Processes,
             \A q \in Processes : GoodRun(proc'[q])
      PROVE  RunInv'
  <2>1. (settings \in Written /\ Loads(settings))'
    BY <1>3 DEF RunInv, Loads, AccountsOf, Unshared
  <2>2. Queues' = Queues
    BY <1>3 DEF Queues, AccountsOf
  <2>3. ASSUME NEW q \in Processes PROVE GoodRun(proc[q])'
    BY <1>3, <2>2, <2>3 DEF GoodRun
  <2> QED
    BY <1>3, <2>1, <2>3 DEF RunInv
<1>1. CASE UNCHANGED vars
  BY <1>1, <1>3 DEF vars, RunInv
<1>4. ASSUME NEW p \in Processes, NEW c, Start(p, c) PROVE RunInv'
  <2>1. Targets(c) \in Queues
    BY <1>4, TargetsAreAccounts DEF Start
  <2>2. proc'[p].at = "opening" /\ proc'[p].todo = Targets(c) /\ Fields \subseteq DOMAIN proc'[p]
    BY <1>4 DEF Start, RunInv, Fields
  <2> QED
    BY <1>4, <2>1, <2>2, <1>3 DEF Start, RunInv, GoodRun
<1>5. ASSUME NEW p \in Processes, Leave(p) \/ Crash(p) PROVE RunInv'
  BY <1>5, <1>3 DEF Leave, Crash, Idle, RunInv, GoodRun
<1>6. ASSUME NEW p \in Processes, Running(p), settings' = settings, NEW o, Concluded(p, o)
      PROVE  RunInv'
  BY <1>6, <1>3, ConcludedRun DEF RunInv
<1>7. ASSUME NEW p \in Processes, Running(p), settings' = settings,
             NEW place \in {"ready", "syncing"}, Goes(p, place)
      PROVE  RunInv'
  BY <1>7, <1>3, GoesRun DEF RunInv
<1>8. ASSUME NEW p \in Processes, OpenWrite(p) \/ Migrate(p), NEW o, ~Concluded(p, Error(3))
      PROVE  RunInv'
  <2>1. /\ DOMAIN proc' = Processes /\ settings' = settings /\ Running(p)
        /\ \A q \in Processes \ {p} : proc'[q] = proc[q]
        /\ proc'[p].at = "migrating" /\ proc'[p].todo = proc[p].todo
        /\ Fields \subseteq DOMAIN proc'[p]
    BY <1>8 DEF OpenWrite, Migrate, At, RunInv, GoodRun, Running, Fields
  <2> QED
    BY <2>1, <1>3 DEF RunInv, GoodRun, Running
<1>9. ASSUME NEW p \in Processes, CommandStep(p) PROVE RunInv'
  <2>1. settings' = settings
    BY <1>9, <1>2 DEF Next
  <2>2. Running(p)
    BY <1>9 DEF CommandStep, Running, At, OpenRefused, OpenCopy, OpenRead, OpenWrite, Migrate,
       Migrated, DatabaseErrs, Search, Look, Act, CommandErrs, TakeLock, SkipSync, SyncWrites,
       SyncEnds
  <2>3. CASE \E o : Concluded(p, o)
    BY <2>1, <2>2, <2>3, <1>6
  <2>4. CASE \E place \in {"ready", "syncing"} : Goes(p, place)
    BY <2>1, <2>2, <2>4, <1>7
  <2>5. CASE OpenWrite(p) \/ Migrate(p)
    BY <2>3, <2>5, <1>8
  <2>6. CASE UNCHANGED proc
    BY <2>1, <2>6, <1>3 DEF RunInv
  <2> QED
    BY <1>9, <2>3, <2>4, <2>5, <2>6 DEF CommandStep, OpenRefused, OpenCopy, OpenRead, Migrated,
       DatabaseErrs, Search, Look, Act, CommandErrs, TakeLock, SkipSync, SyncWrites, SyncEnds
<1> QED
  BY <1>1, <1>4, <1>5, <1>9 DEF Next

(* Two accounts that are named share neither their mirror nor their directory, and
   otherwise there is one account only. *)
LEMMA AccountsDiffer ==
    ASSUME RunInv, NEW a \in AccountsOf(settings), NEW b \in AccountsOf(settings), a # b
    PROVE  settings.named /\ settings.db[a] # settings.db[b] /\ settings.dir[a] # settings.dir[b]
<1>1. CASE ~settings.named
  <2>1. settings.order \in Seq(Names)
    BY SettingsAreTyped DEF RunInv
  <2> QED
    BY <1>1, <2>1 DEF RunInv, Loads, AccountsOf
<1>2. CASE settings.named
  BY <1>2 DEF RunInv, Loads, Unshared
<1> QED
  BY <1>1, <1>2

LEMMA HasAccount ==
    ASSUME RunInv, NEW p \in Processes, Running(p)
    PROVE  Account(p) \in AccountsOf(settings)
<1>1. proc[p].todo \in Queues
  BY DEF RunInv, GoodRun, Running
<1> QED
  BY <1>1 DEF Account, Queues

LEMMA ApartStep ==
    ASSUME RunInv, NEW p \in Processes
    PROVE  /\ SkipSync(p) => \E q \in SyncingNow(p) : Account(q) = Account(p)
           /\ TakeLock(p) => \A q \in SyncingNow(p) :
                 /\ Account(q) # Account(p)
                 /\ {proc[p].cmd.db, proc[q].cmd.db} = {None} => Path(q) # Path(p)
<1>1. ASSUME SkipSync(p) PROVE \E q \in SyncingNow(p) : Account(q) = Account(p)
  <2>1. PICK q \in Processes : At(q, "syncing") /\ LockOf(q) = LockOf(p)
    BY <1>1 DEF SkipSync, Free
  <2>2. Account(q) = Account(p)
    BY <1>1, <2>1, HasAccount, AccountsDiffer DEF LockOf, SkipSync, At, Running
  <2> QED
    BY <1>1, <2>1, <2>2 DEF SyncingNow, SkipSync, At
<1>2. ASSUME TakeLock(p), NEW q \in SyncingNow(p)
      PROVE  /\ Account(q) # Account(p)
             /\ {proc[p].cmd.db, proc[q].cmd.db} = {None} => Path(q) # Path(p)
  <2>1. q \in Processes /\ At(q, "syncing") /\ Running(p) /\ Running(q)
    BY <1>2 DEF SyncingNow, TakeLock, At, Running
  <2>2. Account(q) # Account(p)
    BY <1>2, <2>1 DEF TakeLock, Free, LockOf
  <2>3. settings.named /\ settings.db[Account(q)] # settings.db[Account(p)]
    BY <2>1, <2>2, HasAccount, AccountsDiffer
  <2> QED
    BY <2>2, <2>3 DEF Path, PathOf
<1> QED
  BY <1>1, <1>2

(* For any number of processes and accounts, a sync is skipped only for another of
   its own account, and starts only beside those of other accounts and, but for
   --db, of other mirrors. *)
THEOREM SyncsApart == Spec => AccountsAreApart
<1>1. RunInv /\ [Next]_vars =>
        [\A p \in Processes :
          /\ SkipSync(p) => \E q \in SyncingNow(p) : Account(q) = Account(p)
          /\ TakeLock(p) => \A q \in SyncingNow(p) :
                /\ Account(q) # Account(p)
                /\ {proc[p].cmd.db, proc[q].cmd.db} = {None} => Path(q) # Path(p)]_vars
  BY ApartStep
<1> QED
  BY RunInit, RunStep, <1>1, PTL DEF Spec, AccountsAreApart

-----------------------------------------------------------------------------
(* The schema.  Where a process migrates, the mirror is no older than the version
   that it has read; where it is to write, the mirror has tables. *)

MayWrite(p) == proc[p].at \in {"ready", "syncing"} /\ Writes(proc[p].cmd) /\ ~proc[p].cmd.dry

PlaceOk(p) ==
    /\ At(p, "migrating") => /\ Path(p) \in Files /\ proc[p].base \in 0 .. Latest
                             /\ proc[p].base <= mirror[Path(p)].version
    /\ MayWrite(p) => Path(p) \in Files /\ mirror[Path(p)].version >= 1
    /\ At(p, "syncing") => Syncs(proc[p].cmd)

SchemaInv ==
    /\ DOMAIN mirror = Files /\ DOMAIN rows = Files
    /\ SchemaIsWhole
    /\ \A p \in Processes : PlaceOk(p)

Versions == -1 .. Latest

LEMMA WholeIsTyped ==
    /\ Absent.version = -1 /\ Fresh = Whole(0)
    /\ \A n \in 0 .. Latest : Whole(n).version = n /\ Whole(n).applied = [i \in 1 .. n |-> i]
  BY LatestIsPositive DEF Absent, Fresh, Whole

LEMMA VersionsAreTyped ==
    ASSUME NEW m \in {Absent} \cup {Whole(n) : n \in 0 .. Latest} PROVE m.version \in Versions
<1>1. CASE m = Absent
  BY <1>1, WholeIsTyped, LatestIsPositive DEF Versions
<1>2. CASE \E n \in 0 .. Latest : m = Whole(n)
  <2>1. PICK n \in 0 .. Latest : m = Whole(n)
    BY <1>2
  <2>2. m.version = n
    BY <2>1, WholeIsTyped
  <2> QED
    BY <2>2, LatestIsPositive DEF Versions
<1> QED
  BY <1>1, <1>2

(* A migration that runs on is the one that follows the last. *)
LEMMA MigrationFollows ==
    ASSUME SchemaIsWhole, NEW f \in Files, NEW base \in 0 .. Latest,
           base <= mirror[f].version, base + 1 <= Latest, RunsOn(f, base + 1)
    PROVE  /\ mirror[f].version = base
           /\ [applied |-> Append(mirror[f].applied, base + 1), version |-> base + 1]
                 = Whole(base + 1)
<1>1. PICK n \in 0 .. Latest : mirror[f] = Whole(n)
  BY WholeIsTyped, LatestIsPositive DEF SchemaIsWhole
<1>2. mirror[f].version = n /\ mirror[f].applied = [i \in 1 .. n |-> i]
  BY <1>1, WholeIsTyped
<1>3. n = base
  BY <1>2 DEF RunsOn
<1>4. Append([i \in 1 .. base |-> i], base + 1) = [i \in 1 .. base + 1 |-> i]
  OBVIOUS
<1> QED
  BY <1>2, <1>3, <1>4 DEF Whole

(* Mirrors only grow, so a process that stands still stays where it may be. *)
LEMMA StandsStill ==
    ASSUME SchemaInv, RunInv, settings' = settings, SchemaIsWhole',
           \A f \in Files : mirror'[f].version >= mirror[f].version,
           NEW p \in Processes, proc'[p] = proc[p]
    PROVE  PlaceOk(p)'
<1>1. Path(p)' = Path(p)
  BY DEF Path, PathOf, Account
<1>2. \A f \in Files : mirror[f].version \in Versions /\ (mirror[f].version \in Versions)'
  BY VersionsAreTyped DEF SchemaInv, SchemaIsWhole, Versions
<1>3. PlaceOk(p)
  BY DEF SchemaInv
<1> QED
  BY <1>1, <1>2, <1>3, LatestIsPositive DEF PlaceOk, At, MayWrite, Versions

LEMMA SchemaInit == Init => SchemaInv
<1> SUFFICES ASSUME Init PROVE SchemaInv
  OBVIOUS
<1>1. ASSUME NEW p \in Processes PROVE PlaceOk(p)
  BY DEF Init, PlaceOk, At, MayWrite, Idle
<1>2. SchemaIsWhole /\ DOMAIN mirror = Files
  <2>1. ASSUME NEW f \in Files, rows[f] # {} PROVE mirror[f].version >= 1
    <3>1. mirror[f].version \in Versions
      BY VersionsAreTyped DEF Init
    <3> QED
      BY <2>1, <3>1, LatestIsPositive DEF Init, Versions
  <2> QED
    BY <2>1 DEF Init, SchemaIsWhole
<1> QED
  BY <1>1, <1>2, StoresAreTyped DEF Init, SchemaInv

(* A step of p that leaves the mirrors alone. *)
LEMMA QuietStep ==
    ASSUME RunInv, SchemaInv, NEW p \in Processes, settings' = settings, UNCHANGED <<mirror, rows>>,
           \A q \in Processes \ {p} : proc'[q] = proc[q], PlaceOk(p)'
    PROVE  SchemaInv'
<1>1. SchemaIsWhole'
  BY DEF SchemaInv, SchemaIsWhole
<1>2. \A f \in Files : mirror'[f].version >= mirror[f].version
  BY VersionsAreTyped, LatestIsPositive DEF SchemaInv, SchemaIsWhole, Versions
<1>3. ASSUME NEW q \in Processes, q # p PROVE PlaceOk(q)'
  BY <1>1, <1>2, <1>3, StandsStill
<1> QED
  BY <1>1, <1>3 DEF SchemaInv

(* A step of p that puts rows into a mirror with tables. *)
LEMMA GainingStep ==
    ASSUME RunInv, SchemaInv, NEW p \in Processes, settings' = settings, mirror' = mirror,
           MayWrite(p), NEW S, Gains(Path(p), S),
           \A q \in Processes \ {p} : proc'[q] = proc[q], PlaceOk(p)'
    PROVE  SchemaInv'
<1>1. Path(p) \in Files /\ mirror[Path(p)].version >= 1
  BY DEF SchemaInv, PlaceOk
<1>2. SchemaIsWhole' /\ DOMAIN rows' = Files
  BY <1>1 DEF SchemaInv, SchemaIsWhole, Gains
<1>3. \A f \in Files : mirror'[f].version >= mirror[f].version
  BY VersionsAreTyped, LatestIsPositive DEF SchemaInv, SchemaIsWhole, Versions
<1>4. ASSUME NEW q \in Processes, q # p PROVE PlaceOk(q)'
  BY <1>2, <1>3, <1>4, StandsStill
<1> QED
  BY <1>2, <1>4 DEF SchemaInv

(* A step of p that brings one mirror to a later version. *)
LEMMA GrowingStep ==
    ASSUME RunInv, SchemaInv, NEW p \in Processes, settings' = settings, rows' = rows,
           NEW f \in Files, NEW n \in 0 .. Latest, n >= mirror[f].version,
           mirror' = [mirror EXCEPT ![f] = Whole(n)],
           \A q \in Processes \ {p} : proc'[q] = proc[q], PlaceOk(p)'
    PROVE  SchemaInv'
<1>1. \A g \in Files : mirror[g].version \in Versions
  BY VersionsAreTyped DEF SchemaInv, SchemaIsWhole
<1>2. DOMAIN mirror' = Files /\ mirror'[f] = Whole(n) /\ mirror'[f].version = n
  BY WholeIsTyped DEF SchemaInv
<1>3. \A g \in Files \ {f} : mirror'[g] = mirror[g]
  BY DEF SchemaInv
<1>4. \A g \in Files : mirror'[g].version >= mirror[g].version
  BY <1>1, <1>2, <1>3, LatestIsPositive DEF Versions
<1>5. SchemaIsWhole'
  <2>1. ASSUME NEW g \in Files
        PROVE  /\ mirror'[g] \in {Absent} \cup {Whole(k) : k \in 0 .. Latest}
               /\ rows'[g] # {} => mirror'[g].version >= 1
    <3>1. mirror'[g] \in {Absent} \cup {Whole(k) : k \in 0 .. Latest}
      BY <1>2, <1>3 DEF SchemaInv, SchemaIsWhole
    <3>2. mirror'[g].version \in Versions
      BY <3>1, VersionsAreTyped
    <3> QED
      BY <1>1, <1>4, <3>1, <3>2, LatestIsPositive DEF SchemaInv, SchemaIsWhole, Versions
  <2> QED
    BY <2>1 DEF SchemaIsWhole
<1>6. ASSUME NEW q \in Processes, q # p PROVE PlaceOk(q)'
  BY <1>4, <1>5, <1>6, StandsStill
<1> QED
  BY <1>2, <1>5, <1>6 DEF SchemaInv

LEMMA SchemaStep == RunInv /\ SchemaInv /\ [Next]_vars => SchemaInv'
<1> SUFFICES ASSUME RunInv, SchemaInv, [Next]_vars PROVE SchemaInv'
  OBVIOUS
<1>1. ASSUME settings' = settings, UNCHANGED <<mirror, rows>>, NEW p \in Processes,
             NEW o, Running(p), Concluded(p, o)
      PROVE  SchemaInv'
  <2>1. PlaceOk(p)'
    BY <1>1, ConcludedRun DEF PlaceOk, At, MayWrite
  <2> QED
    BY <1>1, <2>1, ConcludedRun, QuietStep
<1>2. CASE UNCHANGED vars
  <2>1. ASSUME NEW p \in Processes PROVE PlaceOk(p)'
    BY <1>2 DEF vars, SchemaInv, PlaceOk, At, MayWrite, Path, PathOf, Account
  <2> QED
    BY <1>2, <2>1 DEF vars, SchemaInv, SchemaIsWhole
<1>3. ASSUME NEW p \in Processes, NEW c, Start(p, c) PROVE SchemaInv'
  <2>1. PlaceOk(p)' /\ \A q \in Processes \ {p} : proc'[q] = proc[q]
    BY <1>3 DEF Start, RunInv, PlaceOk, At, MayWrite
  <2> QED
    BY <1>3, <2>1, QuietStep DEF Start
<1>4. ASSUME NEW p \in Processes, Leave(p) \/ Crash(p) PROVE SchemaInv'
  <2>1. PlaceOk(p)' /\ \A q \in Processes \ {p} : proc'[q] = proc[q]
    BY <1>4 DEF Leave, Crash, Idle, RunInv, PlaceOk, At, MayWrite
  <2> QED
    BY <1>4, <2>1, QuietStep DEF Leave, Crash
<1>5. ASSUME NEW p \in Processes,
             OpenRefused(p) \/ DatabaseErrs(p) \/ Search(p) \/ Look(p) \/ CommandErrs(p)
                \/ SkipSync(p) \/ SyncEnds(p)
      PROVE  SchemaInv'
  <2>1. Running(p) /\ settings' = settings /\ UNCHANGED <<mirror, rows>> /\ \E o : Concluded(p, o)
    BY <1>5 DEF OpenRefused, DatabaseErrs, Search, Look, CommandErrs, SkipSync, SyncEnds, At, Running
  <2> QED
    BY <2>1, <1>1
<1>6. ASSUME NEW p \in Processes, settings' = settings, UNCHANGED <<mirror, rows>>, Running(p),
             NEW place \in {"ready", "syncing"}, Goes(p, place),
             Writes(proc[p].cmd) /\ ~proc[p].cmd.dry =>
                Path(p) \in Files /\ mirror[Path(p)].version >= 1,
             place = "syncing" => Syncs(proc[p].cmd)
      PROVE  SchemaInv'
  <2>1. Path(p)' = Path(p)
    BY <1>6, GoesRun DEF Path, PathOf, Account
  <2>2. PlaceOk(p)'
    BY <1>6, <2>1, GoesRun DEF PlaceOk, At, MayWrite
  <2> QED
    BY <1>6, <2>2, GoesRun, QuietStep
<1>7. ASSUME NEW p \in Processes, OpenCopy(p) PROVE SchemaInv'
  BY <1>7, <1>6 DEF OpenCopy, At, Running, Transient
<1>8. ASSUME NEW p \in Processes, OpenRead(p) PROVE SchemaInv'
  <2>1. CASE mirror[Path(p)].version < 1
    BY <1>8, <2>1, <1>1 DEF OpenRead, At, Running
  <2>2. CASE ~(mirror[Path(p)].version < 1)
    BY <1>8, <2>2, <1>6 DEF OpenRead, At, Running
  <2> QED
    BY <2>1, <2>2
<1>9. ASSUME NEW p \in Processes, Migrated(p) PROVE SchemaInv'
  <2>1. Path(p) \in Files /\ Latest <= mirror[Path(p)].version
    BY <1>9 DEF Migrated, At, SchemaInv, PlaceOk
  <2>2. mirror[Path(p)].version \in Versions
    BY <2>1, VersionsAreTyped DEF SchemaInv, SchemaIsWhole
  <2>3. mirror[Path(p)].version >= 1
    BY <2>1, <2>2, LatestIsPositive DEF Versions
  <2> QED
    BY <1>9, <2>1, <2>3, <1>6 DEF Migrated, At, Running
<1>10. ASSUME NEW p \in Processes, TakeLock(p) PROVE SchemaInv'
  BY <1>10, <1>6 DEF TakeLock, At, Running, SchemaInv, PlaceOk, MayWrite
<1>11. ASSUME NEW p \in Processes, Act(p) PROVE SchemaInv'
  <2>1. Running(p) /\ settings' = settings /\ mirror' = mirror /\ Concluded(p, Something)
    BY <1>11 DEF Act, At, Running
  <2>2. PlaceOk(p)'
    BY <2>1, ConcludedRun DEF PlaceOk, At, MayWrite
  <2>3. CASE proc[p].cmd.dry
    BY <1>11, <2>1, <2>3, <1>1 DEF Act
  <2>4. CASE ~proc[p].cmd.dry
    <3>1. MayWrite(p) /\ Gains(Path(p), {Mark})
      BY <1>11, <2>4 DEF Act, At, MayWrite, Writes, WriteKinds
    <3> QED
      BY <2>1, <2>2, <3>1, ConcludedRun, GainingStep
  <2> QED
    BY <2>3, <2>4
<1>12. ASSUME NEW p \in Processes, NEW m, SyncWrites(p, m) PROVE SchemaInv'
  <2>1. MayWrite(p) /\ Gains(Path(p), {m}) /\ settings' = settings /\ mirror' = mirror /\ proc' = proc
    BY <1>12 DEF SyncWrites, At, MayWrite, Writes, WriteKinds, Syncs, SchemaInv, PlaceOk
  <2>2. PlaceOk(p)'
    BY <2>1 DEF SchemaInv, PlaceOk, At, MayWrite, Path, PathOf, Account
  <2> QED
    BY <2>1, <2>2, GainingStep
<1>13. ASSUME NEW p \in Processes, OpenWrite(p) PROVE SchemaInv'
  <2> DEFINE f == Path(p)
             found == IF mirror[f] = Absent THEN Fresh ELSE mirror[f]
  <2>1. f \in Files /\ mirror[f] \in {Absent} \cup {Whole(k) : k \in 0 .. Latest}
    BY <1>13 DEF OpenWrite, SchemaInv, SchemaIsWhole
  <2>2. PICK n \in 0 .. Latest : found = Whole(n)
    BY <2>1, WholeIsTyped, LatestIsPositive
  <2>3. found.version = n /\ n >= mirror[f].version
    <3>1. Whole(n).version = n
      BY WholeIsTyped
    <3>2. CASE mirror[f] = Absent
      <4>1. mirror[f].version = -1
        BY <3>2, WholeIsTyped
      <4> QED
        BY <2>2, <3>1, <4>1
    <3>3. CASE mirror[f] # Absent
      <4>1. mirror[f] = Whole(n)
        BY <2>2, <3>3
      <4> QED
        BY <2>2, <3>1, <4>1
    <3> QED
      BY <3>2, <3>3
  <2>4. mirror' = [mirror EXCEPT ![f] = Whole(n)] /\ settings' = settings /\ rows' = rows
    BY <1>13, <2>2 DEF OpenWrite
  <2>5. proc' = [proc EXCEPT ![p].at = "migrating", ![p].base = n]
    BY <1>13, <2>3 DEF OpenWrite
  <2>6. /\ \A q \in Processes \ {p} : proc'[q] = proc[q]
        /\ proc'[p].at = "migrating" /\ proc'[p].base = n /\ proc'[p].cmd = proc[p].cmd
        /\ proc'[p].todo = proc[p].todo
    BY <1>13, <2>5 DEF OpenWrite, At, RunInv, GoodRun, Fields
  <2>7. Path(p)' = f
    BY <2>4, <2>6 DEF Path, PathOf, Account
  <2>8. mirror'[f].version = n
    BY <2>1, <2>4, WholeIsTyped DEF SchemaInv
  <2>9. PlaceOk(p)'
    BY <2>1, <2>6, <2>7, <2>8, LatestIsPositive DEF PlaceOk, At, MayWrite
  <2> QED
    BY <2>1, <2>3, <2>4, <2>6, <2>9, GrowingStep
<1>14. ASSUME NEW p \in Processes, Migrate(p) PROVE SchemaInv'
  <2> DEFINE f == Path(p)
             n == proc[p].base + 1
  <2>1. /\ f \in Files /\ proc[p].base \in 0 .. Latest /\ proc[p].base <= mirror[f].version
        /\ n <= Latest /\ n \in 0 .. Latest /\ Running(p) /\ settings' = settings /\ rows' = rows
    BY <1>14, LatestIsPositive DEF Migrate, At, Running, SchemaInv, PlaceOk
  <2>2. CASE ~RunsOn(f, n) /\ Concluded(p, Error(3)) /\ mirror' = mirror
    BY <2>1, <2>2, <1>1
  <2>3. CASE /\ RunsOn(f, n)
             /\ mirror' = [mirror EXCEPT ![f] =
                              [applied |-> Append(mirror[f].applied, n), version |-> n]]
             /\ proc' = [proc EXCEPT ![p].base = n]
    <3>1. /\ mirror[f].version = proc[p].base
          /\ mirror' = [mirror EXCEPT ![f] = Whole(n)]
      BY <2>1, <2>3, MigrationFollows DEF SchemaInv
    <3>2. /\ \A q \in Processes \ {p} : proc'[q] = proc[q]
          /\ proc'[p].at = "migrating" /\ proc'[p].base = n /\ proc'[p].cmd = proc[p].cmd
          /\ proc'[p].todo = proc[p].todo
      BY <1>14, <2>1, <2>3 DEF Migrate, At, RunInv, GoodRun, Running, Fields
    <3>3. Path(p)' = f
      BY <2>1, <3>2 DEF Path, PathOf, Account
    <3>4. mirror'[f].version = n
      BY <2>1, <3>1, WholeIsTyped DEF SchemaInv
    <3>5. PlaceOk(p)'
      BY <2>1, <3>2, <3>3, <3>4, LatestIsPositive DEF PlaceOk, At, MayWrite
    <3>6. n >= mirror[f].version
      BY <2>1, <3>1
    <3> QED
      BY <2>1, <3>1, <3>2, <3>5, <3>6, GrowingStep
  <2> QED
    BY <1>14, <2>2, <2>3 DEF Migrate
<1> QED
  BY <1>2, <1>3, <1>4, <1>5, <1>7, <1>8, <1>9, <1>10, <1>11, <1>12, <1>13, <1>14
  DEF Next, CommandStep

(* For any number of processes, mirrors and migrations, every mirror is absent or
   has exactly the migrations that its version says, and none without tables has
   rows, though versions are read outside of the transactions. *)
THEOREM MigrationsInOrder == Spec => []SchemaIsWhole
<1>1. RunInv /\ SchemaInv => SchemaIsWhole
  BY DEF SchemaInv
<1> QED
  BY RunInit, RunStep, SchemaInit, SchemaStep, <1>1, PTL DEF Spec


-----------------------------------------------------------------------------
(* Types.  Whoever has opened a mirror has the path of one. *)

PathsOk ==
    \A p \in Processes : proc[p].at \in {"migrating", "ready", "syncing"} => Path(p) \in Files

TypeInv == TypeOK /\ PathsOk

LEMMA OutcomesAreTold ==
    ASSUME NEW o \in Outcomes
    PROVE  /\ o.is = "error" => o.code \in Codes /\ o = Error(o.code)
           /\ o.is = "bug" => o = Bug
           /\ o = Untried <=> o.is = "untried"
  BY DEF Outcomes, Untried, Error, Bug, Skipped, Nothing, Something, Read

(* What becomes of a process that has done with an account. *)
LEMMA ConcludedRecord ==
    ASSUME NEW p \in Processes, DOMAIN proc = Processes, proc[p] \in Runs, NEW o,
           Account(p) \in Names, Concluded(p, o)
    PROVE  proc'[p] =
              [at |-> IF Len(proc[p].todo) = 1 THEN "done" ELSE "opening",
               cmd |-> proc[p].cmd, todo |-> Tail(proc[p].todo), base |-> 0,
               failure |-> IF o.is = "error" /\ proc[p].failure = 0 THEN o.code
                           ELSE proc[p].failure,
               bug |-> IF o.is = "bug" THEN TRUE ELSE proc[p].bug,
               out |-> [proc[p].out EXCEPT ![Account(p)] = o]]
<1> DEFINE r == proc[p]
           s == Noted(r, o)
           n == [at |-> r.at, cmd |-> r.cmd, todo |-> r.todo, base |-> r.base,
                 failure |-> IF o.is = "error" /\ r.failure = 0 THEN o.code ELSE r.failure,
                 bug |-> IF o.is = "bug" THEN TRUE ELSE r.bug, out |-> r.out]
<1>1. r = [at |-> r.at, cmd |-> r.cmd, todo |-> r.todo, base |-> r.base,
           failure |-> r.failure, bug |-> r.bug, out |-> r.out]
  BY DEF Runs
<1>2. s = n
  <2>1. CASE o.is = "error" /\ r.failure = 0
    BY <1>1, <2>1 DEF Noted
  <2>2. CASE o.is = "bug"
    BY <1>1, <2>2 DEF Noted
  <2>3. CASE ~(o.is = "error" /\ r.failure = 0) /\ o.is # "bug"
    BY <1>1, <2>3 DEF Noted
  <2> QED
    BY <2>1, <2>2, <2>3
<1>3. proc'[p] = [n EXCEPT !.out[Account(p)] = o, !.base = 0, !.todo = Tail(n.todo),
                           !.at = IF Len(n.todo) = 1 THEN "done" ELSE "opening"]
  BY <1>2 DEF Concluded
<1> QED
  BY <1>3


LEMMA AccountsAreNames == RunInv => AccountsOf(settings) \subseteq Names
<1> SUFFICES ASSUME RunInv PROVE AccountsOf(settings) \subseteq Names
  OBVIOUS
<1>1. settings.order \in Seq(Names)
  BY SettingsAreTyped DEF RunInv
<1> QED
  BY <1>1 DEF AccountsOf

LEMMA ConcludedTyped ==
    ASSUME RunInv, NEW p \in Processes, Running(p), proc[p] \in Runs, NEW o \in Outcomes,
           Concluded(p, o)
    PROVE  proc'[p] \in Runs /\ proc'[p].at \in {"opening", "done"}
<1> DEFINE place == IF Len(proc[p].todo) = 1 THEN "done" ELSE "opening"
           rest  == Tail(proc[p].todo)
           told  == [proc[p].out EXCEPT ![Account(p)] = o]
           code  == IF o.is = "error" /\ proc[p].failure = 0 THEN o.code ELSE proc[p].failure
           b     == IF o.is = "bug" THEN TRUE ELSE proc[p].bug
<1>1. Account(p) \in Names /\ DOMAIN proc = Processes /\ proc[p].todo # << >>
  BY HasAccount, AccountsAreNames DEF RunInv, GoodRun, Running, Queues
<1>2. rest \in Seq(Names)
  BY <1>1 DEF Runs
<1>3. told \in [Names -> Outcomes]
  BY DEF Runs
<1>4. code \in {0} \cup Codes
  BY OutcomesAreTold DEF Runs
<1>5. b \in BOOLEAN /\ proc[p].cmd \in Commands
  BY DEF Runs
<1>6. 0 \in 0 .. Latest
  BY LatestIsPositive
<1>7. proc'[p] = [at |-> place, cmd |-> proc[p].cmd, todo |-> rest, base |-> 0,
                  failure |-> code, bug |-> b, out |-> told]
  BY <1>1, ConcludedRecord
<1>8. place \in {"opening", "done"}
  OBVIOUS
<1> HIDE DEF place, rest, told, code, b
<1>9. [at |-> place, cmd |-> proc[p].cmd, todo |-> rest, base |-> 0, failure |-> code,
       bug |-> b, out |-> told] \in Runs
  BY <1>2, <1>3, <1>4, <1>5, <1>6, <1>8 DEF Runs
<1> QED
  BY <1>7, <1>8, <1>9

LEMMA GoesTyped ==
    ASSUME NEW p \in Processes, DOMAIN proc = Processes, proc[p] \in Runs,
           NEW place \in {"ready", "syncing"}, Goes(p, place)
    PROVE  proc'[p] \in Runs
  BY DEF Goes, Runs

Schemas == [applied : Seq(1 .. Latest), version : -1 .. Latest]

LEMMA SchemasAreTyped == {Absent} \cup {Whole(n) : n \in 0 .. Latest} \subseteq Schemas
<1>1. Absent \in Schemas
  BY LatestIsPositive DEF Absent, Schemas
<1>2. ASSUME NEW n \in 0 .. Latest PROVE Whole(n) \in Schemas
  <2>1. [i \in 1 .. n |-> i] \in Seq(1 .. Latest)
    BY LatestIsPositive
  <2> QED
    BY <2>1, LatestIsPositive DEF Whole, Schemas
<1> QED
  BY <1>1, <1>2

LEMMA TypeInit == Init => TypeInv
<1> SUFFICES ASSUME Init PROVE TypeInv
  OBVIOUS
<1>1. mirror \in [Files -> Schemas]
  BY SchemasAreTyped DEF Init
<1>2. rows \in [Files -> SUBSET (Messages \cup {Mark})]
  BY StoresAreTyped DEF Init
<1> QED
  BY <1>1, <1>2 DEF Init, TypeInv, TypeOK, PathsOk, Idle, Schemas

LEMMA TypeStep == RunInv /\ SchemaInv /\ TypeInv /\ [Next]_vars => TypeInv'
<1> SUFFICES ASSUME RunInv, SchemaInv, TypeInv, [Next]_vars PROVE TypeInv'
  OBVIOUS
<1>1. ASSUME settings' = settings, NEW p \in Processes,
             \A q \in Processes \ {p} : proc'[q] = proc[q],
             proc'[p] = Idle \/ proc'[p] \in Runs,
             proc'[p].at \in {"migrating", "ready", "syncing"} => Path(p)' \in Files,
             mirror' \in [Files -> Schemas], rows' \in [Files -> SUBSET (Messages \cup {Mark})]
      PROVE  TypeInv'
  <2>1. ASSUME NEW q \in Processes, q # p PROVE Path(q)' = Path(q)
    BY <1>1, <2>1 DEF Path, PathOf, Account
  <2>2. PathsOk'
    BY <1>1, <2>1 DEF PathsOk, TypeInv
  <2> QED
    BY <1>1, <2>2 DEF TypeInv, TypeOK, Schemas
<1>2. mirror \in [Files -> Schemas] /\ rows \in [Files -> SUBSET (Messages \cup {Mark})]
  BY DEF TypeInv, TypeOK, Schemas
<1>3. CASE UNCHANGED vars
  BY <1>3 DEF vars, TypeInv, TypeOK, PathsOk, Path, PathOf, Account
<1>4. ASSUME NEW p \in Processes, Running(p) PROVE proc[p] \in Runs
  BY <1>4 DEF TypeInv, TypeOK, Running, Idle
<1>5. ASSUME settings' = settings, UNCHANGED <<mirror, rows>>, NEW p \in Processes,
             Running(p), NEW o \in Outcomes, Concluded(p, o)
      PROVE  TypeInv'
  BY <1>1, <1>2, <1>4, <1>5, ConcludedTyped, ConcludedRun
<1>6. ASSUME settings' = settings, UNCHANGED <<mirror, rows>>, NEW p \in Processes, Running(p),
             NEW place \in {"ready", "syncing"}, Goes(p, place), Path(p) \in Files
      PROVE  TypeInv'
  <2>1. Path(p)' = Path(p)
    BY <1>6, GoesRun DEF Path, PathOf, Account
  <2>2. proc'[p] \in Runs
    BY <1>4, <1>6, GoesTyped DEF RunInv
  <2> QED
    BY <1>1, <1>2, <1>6, <2>1, <2>2, GoesRun
<1>7. \A n \in Codes : Error(n) \in Outcomes
  BY DEF Outcomes
<1>8. {Bug, Skipped, Nothing, Something} \subseteq Outcomes
  BY DEF Outcomes
<1>9. 2 \in Codes /\ 3 \in Codes /\ Failing \subseteq Codes
  BY DEF Codes
<1>10. ASSUME NEW p \in Processes, NEW c \in Commands, Start(p, c) PROVE TypeInv'
  <2>1. Targets(c) \in Seq(Names)
    BY <1>10, TargetsAreAccounts, AccountsAreNames DEF Start, Queues
  <2>2. 0 \in 0 .. Latest /\ [a \in Names |-> Untried] \in [Names -> Outcomes]
    BY LatestIsPositive DEF Outcomes
  <2>3. proc'[p] \in Runs /\ proc'[p].at = "opening"
    BY <1>10, <2>1, <2>2 DEF Start, RunInv, Runs
  <2> QED
    BY <1>1, <1>2, <1>10, <2>3 DEF Start, RunInv
<1>11. ASSUME NEW p \in Processes, Leave(p) \/ Crash(p) PROVE TypeInv'
  <2>1. proc'[p] = Idle /\ \A q \in Processes \ {p} : proc'[q] = proc[q]
    BY <1>11 DEF Leave, Crash, RunInv
  <2> QED
    BY <1>1, <1>2, <1>11, <2>1 DEF Leave, Crash, Idle
<1>12. ASSUME NEW p \in Processes, OpenRefused(p) \/ DatabaseErrs(p) PROVE TypeInv'
  BY <1>5, <1>7, <1>9, <1>12 DEF OpenRefused, DatabaseErrs, At, Running
<1>13. ASSUME NEW p \in Processes, OpenCopy(p) PROVE TypeInv'
  BY <1>6, <1>13 DEF OpenCopy, At, Running
<1>14. ASSUME NEW p \in Processes, OpenRead(p) PROVE TypeInv'
  <2>1. Path(p) \in Files /\ Running(p) /\ settings' = settings /\ UNCHANGED <<mirror, rows>>
    BY <1>14 DEF OpenRead, Missing, At, Running
  <2> QED
    BY <1>5, <1>6, <1>7, <1>9, <1>14, <2>1 DEF OpenRead
<1>15. ASSUME NEW p \in Processes, OpenWrite(p) PROVE TypeInv'
  <2> DEFINE f == Path(p)
             found == IF mirror[f] = Absent THEN Fresh ELSE mirror[f]
  <2>1. f \in Files /\ Running(p) /\ proc[p] \in Runs /\ settings' = settings /\ rows' = rows
    BY <1>4, <1>15 DEF OpenWrite, At, Running
  <2>2. PICK n \in 0 .. Latest : found = Whole(n)
    BY <2>1, WholeIsTyped, LatestIsPositive DEF SchemaInv, SchemaIsWhole
  <2>3. found.version = n /\ found \in Schemas
    BY <2>2, WholeIsTyped, SchemasAreTyped
  <2>4. mirror' \in [Files -> Schemas]
    BY <1>2, <1>15, <2>3 DEF OpenWrite
  <2>5. proc' = [proc EXCEPT ![p].at = "migrating", ![p].base = n]
    BY <1>15, <2>3 DEF OpenWrite
  <2>6. /\ proc'[p] \in Runs /\ \A q \in Processes \ {p} : proc'[q] = proc[q]
        /\ proc'[p].cmd = proc[p].cmd /\ proc'[p].todo = proc[p].todo
    BY <2>1, <2>5 DEF RunInv, Runs
  <2>7. Path(p)' = f
    BY <2>1, <2>6 DEF Path, PathOf, Account
  <2> QED
    BY <1>1, <1>2, <2>1, <2>4, <2>6, <2>7
<1>16. ASSUME NEW p \in Processes, Migrate(p) PROVE TypeInv'
  <2> DEFINE f == Path(p)
             n == proc[p].base + 1
  <2>1. /\ Running(p) /\ proc[p] \in Runs /\ settings' = settings /\ rows' = rows
        /\ f \in Files
    BY <1>4, <1>16 DEF Migrate, At, Running, TypeInv, PathsOk
  <2>2. n \in 1 .. Latest /\ n \in 0 .. Latest
    BY <1>16, <2>1, LatestIsPositive DEF Migrate, Runs
  <2>3. CASE ~RunsOn(f, n) /\ Concluded(p, Error(3)) /\ mirror' = mirror
    BY <1>5, <1>7, <1>9, <2>1, <2>3
  <2>4. CASE /\ mirror' = [mirror EXCEPT ![f] =
                              [applied |-> Append(mirror[f].applied, n), version |-> n]]
             /\ proc' = [proc EXCEPT ![p].base = n]
    <3>1. [applied |-> Append(mirror[f].applied, n), version |-> n] \in Schemas
      BY <1>2, <2>1, <2>2, LatestIsPositive DEF Schemas
    <3>2. mirror' \in [Files -> Schemas]
      BY <1>2, <2>4, <3>1
    <3>3. /\ proc'[p] \in Runs /\ \A q \in Processes \ {p} : proc'[q] = proc[q]
          /\ proc'[p].cmd = proc[p].cmd /\ proc'[p].todo = proc[p].todo
      BY <2>1, <2>2, <2>4 DEF RunInv, Runs
    <3>4. Path(p)' = f
      BY <2>1, <3>3 DEF Path, PathOf, Account
    <3> QED
      BY <1>1, <1>2, <2>1, <3>2, <3>3, <3>4
  <2> QED
    BY <1>16, <2>3, <2>4 DEF Migrate
<1>17. ASSUME NEW p \in Processes, NEW S \in SUBSET (Messages \cup {Mark}), Gains(Path(p), S)
       PROVE  rows' \in [Files -> SUBSET (Messages \cup {Mark})]
  BY <1>2, <1>17 DEF Gains
<1>18. ASSUME NEW p \in Processes, Migrated(p) \/ TakeLock(p) PROVE TypeInv'
  BY <1>6, <1>18 DEF Migrated, TakeLock, At, Running, TypeInv, PathsOk
<1>19. ASSUME NEW p \in Processes, Search(p) PROVE TypeInv'
  <2>1. /\ Running(p) /\ settings' = settings /\ UNCHANGED <<mirror, rows>>
        /\ Path(p) \in Files /\ Concluded(p, Read(rows[Path(p)] \ {Mark}))
    BY <1>19 DEF Search, At, Running, TypeInv, PathsOk
  <2>2. rows[Path(p)] \ {Mark} \in SUBSET Messages
    BY <1>2, <2>1
  <2>3. Read(rows[Path(p)] \ {Mark}) \in Outcomes
    BY <2>2 DEF Outcomes
  <2> QED
    BY <1>5, <2>1, <2>3
<1>20. ASSUME NEW p \in Processes, Look(p) \/ SkipSync(p) \/ CommandErrs(p) \/ SyncEnds(p)
       PROVE  TypeInv'
  <2>1. /\ Running(p) /\ settings' = settings /\ UNCHANGED <<mirror, rows>>
        /\ \E o \in Outcomes : Concluded(p, o)
    BY <1>7, <1>8, <1>9, <1>20 DEF Look, SkipSync, CommandErrs, SyncEnds, At, Running
  <2> QED
    BY <1>5, <2>1
<1>21. ASSUME NEW p \in Processes, Act(p) PROVE TypeInv'
  <2>1. /\ Running(p) /\ settings' = settings /\ mirror' = mirror
        /\ Concluded(p, Something)
    BY <1>21 DEF Act, At, Running
  <2>2. rows' \in [Files -> SUBSET (Messages \cup {Mark})]
    BY <1>2, <1>17, <1>21 DEF Act
  <2> QED
    BY <1>1, <1>2, <1>4, <1>8, <2>1, <2>2, ConcludedTyped, ConcludedRun
<1>22. ASSUME NEW p \in Processes, NEW m \in Arriving, SyncWrites(p, m) PROVE TypeInv'
  <2>1. rows' \in [Files -> SUBSET (Messages \cup {Mark})]
    BY <1>17, <1>22, MarkIsNoMessage DEF SyncWrites
  <2> QED
    BY <1>22, <2>1 DEF SyncWrites, TypeInv, TypeOK, PathsOk, Path, PathOf, Account
<1> QED
  BY <1>3, <1>10, <1>11, <1>12, <1>13, <1>14, <1>15, <1>16, <1>18, <1>19, <1>20, <1>21, <1>22
  DEF Next, CommandStep

(* The types, and with them that who has opened a mirror has a path, hold for any
   settings, commands, mirrors and processes. *)
THEOREM TypeCorrect == Spec => []TypeOK
<1>1. TypeInv => TypeOK
  BY DEF TypeInv
<1> QED
  BY RunInit, RunStep, SchemaInit, SchemaStep, TypeInit, TypeStep, <1>1, PTL DEF Spec

-----------------------------------------------------------------------------
(* The way of a command through its accounts.  What it has yet to do is the end of
   its plan, and of what it has done the first error and the bugs are kept. *)

Plan(r)     == Targets(r.cmd)
DoneWith(r) == Len(Plan(r)) - Len(r.todo)
Told(r, i)  == r.out[Plan(r)[i]]

OnCourse(r) ==
    /\ Plan(r) # << >> /\ Len(r.todo) <= Len(Plan(r))
    /\ r.at = "done" <=> r.todo = << >>
    /\ \A i \in 1 .. Len(r.todo) : r.todo[i] = Plan(r)[DoneWith(r) + i]

Kept(r) ==
    /\ \A i \in 1 .. DoneWith(r) : Told(r, i) # Untried
    /\ r.bug <=> \E i \in 1 .. DoneWith(r) : Told(r, i) = Bug
    /\ r.failure = 0 => \A i \in 1 .. DoneWith(r) : Told(r, i).is # "error"
    /\ r.failure # 0 => \E i \in 1 .. DoneWith(r) :
          Told(r, i) = Error(r.failure) /\ \A j \in 1 .. i - 1 : Told(r, j).is # "error"

WayInv == \A p \in Processes : proc[p].at # "idle" => OnCourse(proc[p]) /\ Kept(proc[p])

(* No account comes twice. *)
LEMMA PlansAreTyped ==
    ASSUME RunInv, NEW c, Targets(c) # << >>
    PROVE  /\ Targets(c) \in Seq(Names)
           /\ \A i, j \in 1 .. Len(Targets(c)) : Targets(c)[i] = Targets(c)[j] => i = j
<1>1. Targets(c) \in Seq(Names)
  BY TargetsAreAccounts, AccountsAreNames DEF Queues
<1>2. settings.order \in Seq(Names)
      /\ \A i, j \in 1 .. Len(settings.order) : settings.order[i] = settings.order[j] => i = j
  <2>1. settings.order \in Seq(Names)
    BY SettingsAreTyped DEF RunInv
  <2>2. \A i, j \in DOMAIN settings.order : settings.order[i] = settings.order[j] => i = j
    BY SettingsAreTyped DEF RunInv
  <2>3. DOMAIN settings.order = 1 .. Len(settings.order)
    BY <2>1
  <2> QED
    BY <2>1, <2>2, <2>3
<1>3. Targets(c) = settings.order \/ \E a : Targets(c) = <<a>>
  BY DEF Targets, Selected
<1> QED
  BY <1>1, <1>2, <1>3

(* A step leaves every process but one alone; that one starts, stops, is done with
   an account or goes on with it. *)
GoesOn(p) ==
    /\ proc'[p].at \notin {"idle", "done"}
    /\ proc'[p].cmd = proc[p].cmd /\ proc'[p].todo = proc[p].todo /\ proc'[p].out = proc[p].out
    /\ proc'[p].failure = proc[p].failure /\ proc'[p].bug = proc[p].bug

LEMMA StepsOfOne ==
    ASSUME RunInv, TypeInv, NEW p \in Processes, CommandStep(p)
    PROVE  /\ Running(p) /\ settings' = settings
           /\ \A q \in Processes \ {p} : proc'[q] = proc[q]
           /\ GoesOn(p) \/ \E o \in Outcomes \ {Untried} : Concluded(p, o)
<1>1. Running(p) /\ settings' = settings
  BY DEF CommandStep, Running, At, OpenRefused, OpenCopy, OpenRead, OpenWrite, Migrate,
     Migrated, DatabaseErrs, Search, Look, Act, CommandErrs, TakeLock, SkipSync, SyncWrites,
     SyncEnds
<1>2. proc[p] \in Runs /\ DOMAIN proc = Processes
  BY <1>1 DEF TypeInv, TypeOK, Running, Idle, RunInv
<1>3. \A n \in Codes : Error(n) \in Outcomes \ {Untried}
  BY DEF Outcomes, Error, Untried
<1>4. {Bug, Skipped, Nothing, Something} \subseteq Outcomes \ {Untried}
  BY DEF Outcomes, Bug, Skipped, Nothing, Something, Untried
<1>5. 2 \in Codes /\ 3 \in Codes /\ Failing \subseteq Codes
  BY DEF Codes
<1>6. ASSUME Search(p) PROVE \E o \in Outcomes \ {Untried} : Concluded(p, o)
  <2>1. Path(p) \in Files /\ Concluded(p, Read(rows[Path(p)] \ {Mark}))
    BY <1>6 DEF Search, At, TypeInv, PathsOk
  <2>2. rows[Path(p)] \ {Mark} \in SUBSET Messages
    BY <2>1 DEF TypeInv, TypeOK
  <2>3. Read(rows[Path(p)] \ {Mark}) \in Outcomes \ {Untried}
    BY <2>2 DEF Outcomes, Read, Untried
  <2> QED
    BY <2>1, <2>3
<1>7. ASSUME NEW place \in {"ready", "syncing"}, Goes(p, place) PROVE GoesOn(p)
  BY <1>2, <1>7 DEF Goes, GoesOn, Runs
<1>8. ASSUME OpenWrite(p) \/ (Migrate(p) /\ ~Concluded(p, Error(3))) PROVE GoesOn(p)
  <2>1. \/ \E n : proc' = [proc EXCEPT ![p].at = "migrating", ![p].base = n]
        \/ \E n : proc' = [proc EXCEPT ![p].base = n] /\ proc[p].at = "migrating"
    BY <1>8 DEF OpenWrite, Migrate, At
  <2> QED
    BY <1>2, <2>1 DEF GoesOn, Runs
<1>9. ASSUME UNCHANGED proc PROVE GoesOn(p)
  BY <1>1, <1>9 DEF GoesOn, Running
<1>10. GoesOn(p) \/ \E o \in Outcomes \ {Untried} : Concluded(p, o)
  BY <1>3, <1>4, <1>5, <1>6, <1>7, <1>8, <1>9 DEF CommandStep, OpenRefused, OpenCopy, OpenRead,
     Migrated, DatabaseErrs, Look, Act, CommandErrs, TakeLock, SkipSync, SyncWrites, SyncEnds
<1>11. ASSUME NEW o, Concluded(p, o) PROVE \A q \in Processes \ {p} : proc'[q] = proc[q]
  BY <1>1, <1>11, ConcludedRun
<1>12. ASSUME ~\E o : Concluded(p, o) PROVE \A q \in Processes \ {p} : proc'[q] = proc[q]
  BY <1>2, <1>12 DEF CommandStep, OpenRefused, OpenCopy, OpenRead, OpenWrite, Migrate,
     Migrated, DatabaseErrs, Search, Look, Act, CommandErrs, TakeLock, SkipSync, SyncWrites,
     SyncEnds, Goes
<1> QED
  BY <1>1, <1>10, <1>11, <1>12

LEMMA WayStays ==
    ASSUME settings' = settings, NEW p \in Processes,
           OnCourse(proc'[p]), Kept(proc'[p])
    PROVE  (OnCourse(proc[p]) /\ Kept(proc[p]))'
<1>1. Plan(proc[p])' = Plan(proc'[p])
  BY DEF Plan, Targets, Refused, Selected, Fanout, AccountsOf
<1>2. DoneWith(proc[p])' = DoneWith(proc'[p])
  BY <1>1 DEF DoneWith
<1>3. \A i : Told(proc[p], i)' = Told(proc'[p], i)
  BY <1>1 DEF Told
<1>4. OnCourse(proc[p])'
  BY <1>1, <1>2 DEF OnCourse
<1>5. Kept(proc[p])'
  BY <1>2, <1>3 DEF Kept
<1> QED
  BY <1>4, <1>5

(* The account that comes next in the plan is done with. *)
LEMMA WayOn ==
    ASSUME RunInv, NEW p \in Processes, Running(p), proc[p] \in Runs, settings' = settings,
           OnCourse(proc[p]), Kept(proc[p]), NEW o \in Outcomes \ {Untried}, Concluded(p, o)
    PROVE  OnCourse(proc'[p]) /\ Kept(proc'[p])
<1> DEFINE r == proc[p]
           s == proc'[p]
           T == Plan(r)
           n == DoneWith(r)
<1>1. /\ r.todo \in Seq(Names) /\ r.todo # << >>
      /\ r.out \in [Names -> Outcomes] /\ r.bug \in BOOLEAN
      /\ r.failure \in {0} \cup Codes /\ DOMAIN proc = Processes
  BY DEF Running, OnCourse, Runs, RunInv
<1>2. T \in Seq(Names) /\ \A i, j \in 1 .. Len(T) : T[i] = T[j] => i = j
  BY PlansAreTyped DEF OnCourse, Plan
<1>3. Len(T) \in Nat /\ Len(r.todo) \in Nat \ {0} /\ Len(r.todo) <= Len(T) /\ n = Len(T) - Len(r.todo)
  BY <1>1, <1>2 DEF OnCourse, DoneWith
<1>4. n \in Nat /\ n + 1 \in 1 .. Len(T) /\ Account(p) = T[n + 1] /\ Account(p) \in Names
  <2>1. Account(p) = r.todo[1]
    BY <1>1 DEF Account
  <2>2. 1 \in 1 .. Len(r.todo)
    BY <1>3
  <2>3. r.todo[1] = T[n + 1]
    BY <2>2 DEF OnCourse
  <2>4. n \in Nat /\ n + 1 \in 1 .. Len(T)
    BY <1>3
  <2> QED
    BY <1>2, <2>1, <2>3, <2>4
<1>5. s = [at |-> IF Len(r.todo) = 1 THEN "done" ELSE "opening",
           cmd |-> r.cmd, todo |-> Tail(r.todo), base |-> 0,
           failure |-> IF o.is = "error" /\ r.failure = 0 THEN o.code ELSE r.failure,
           bug |-> IF o.is = "bug" THEN TRUE ELSE r.bug,
           out |-> [r.out EXCEPT ![Account(p)] = o]]
  BY <1>1, <1>4, ConcludedRecord
<1>6. /\ s.todo = Tail(r.todo) /\ Len(s.todo) = Len(r.todo) - 1
      /\ \A i \in 1 .. Len(s.todo) : s.todo[i] = r.todo[i + 1]
  BY <1>1, <1>3, <1>5
<1>7. s.cmd = r.cmd /\ Plan(s) = T
  BY <1>5 DEF Plan
<1>8. DoneWith(s) = n + 1
  <2>1. DoneWith(s) = Len(T) - Len(s.todo)
    BY <1>7 DEF DoneWith
  <2> HIDE DEF r, s, T, n
  <2> QED
    BY <1>3, <1>6, <2>1
<1>9. /\ Told(s, n + 1) = o
      /\ \A i \in 1 .. n : Told(s, i) = Told(r, i)
  <2>1. s.out = [r.out EXCEPT ![T[n + 1]] = o]
    BY <1>4, <1>5
  <2>2. \A i \in 1 .. n : i \in 1 .. Len(T) /\ i # n + 1 /\ T[i] # T[n + 1] /\ T[i] \in Names
    <3> HIDE DEF r, s, T, n
    <3>1. \A i \in 1 .. n : i \in 1 .. Len(T) /\ i # n + 1
      BY <1>3, <1>4
    <3> QED
      BY <1>2, <1>4, <3>1
  <2> QED
    BY <1>1, <1>4, <1>7, <2>1, <2>2 DEF Told
<1> HIDE DEF r, s, T, n
<1>10. OnCourse(s)
  <2>1. Plan(s) # << >> /\ Len(s.todo) <= Len(Plan(s))
    BY <1>2, <1>3, <1>6, <1>7 DEF T, r, OnCourse
  <2>2. s.at = "done" <=> s.todo = << >>
    <3>1. s.at = "done" <=> Len(r.todo) = 1
      BY <1>5
    <3>2. s.todo \in Seq(Names)
      BY <1>1, <1>6
    <3>3. s.todo = << >> <=> Len(s.todo) = 0
      BY <3>2
    <3> QED
      BY <1>3, <1>6, <3>1, <3>3
  <2>3. ASSUME NEW i \in 1 .. Len(s.todo) PROVE s.todo[i] = Plan(s)[DoneWith(s) + i]
    <3>1. i + 1 \in 1 .. Len(r.todo) /\ s.todo[i] = r.todo[i + 1]
      BY <1>3, <1>6
    <3>2. r.todo[i + 1] = T[n + (i + 1)]
      BY <3>1 DEF OnCourse, r, T, n
    <3>3. n + (i + 1) = DoneWith(s) + i
      BY <1>4, <1>8
    <3> QED
      BY <1>7, <3>1, <3>2, <3>3
  <2> QED
    BY <2>1, <2>2, <2>3 DEF OnCourse
<1>11. Kept(s)
  <2>1. /\ \A i \in 1 .. n : Told(r, i) # Untried
        /\ r.bug <=> \E i \in 1 .. n : Told(r, i) = Bug
        /\ r.failure = 0 => \A i \in 1 .. n : Told(r, i).is # "error"
        /\ r.failure # 0 => \E i \in 1 .. n :
              Told(r, i) = Error(r.failure) /\ \A j \in 1 .. i - 1 : Told(r, j).is # "error"
    BY DEF Kept, r, n
  <2>2. \A i \in 1 .. n + 1 : i \in 1 .. n \/ i = n + 1
    BY <1>4
  <2>3. \A i \in 1 .. n : i \in 1 .. n + 1 /\ \A j \in 1 .. i - 1 : j \in 1 .. n
    BY <1>4
  <2>4. \A i \in 1 .. n + 1 : Told(s, i) # Untried
    BY <1>9, <2>1, <2>2
  <2>5. s.bug <=> \E i \in 1 .. n + 1 : Told(s, i) = Bug
    <3>1. s.bug <=> o = Bug \/ r.bug
      BY <1>1, <1>5, OutcomesAreTold DEF Bug
    <3> QED
      BY <1>4, <1>9, <2>1, <2>2, <2>3, <3>1
  <2>6. CASE r.failure # 0
    <3>1. s.failure = r.failure
      BY <1>5, <2>6
    <3> QED
      BY <1>8, <1>9, <2>1, <2>3, <2>4, <2>5, <2>6, <3>1 DEF Kept
  <2>7. CASE r.failure = 0 /\ o.is = "error"
    <3>1. s.failure = o.code /\ o = Error(o.code) /\ o.code # 0
      BY <1>5, <2>7, OutcomesAreTold, FailingAreCodes DEF Codes
    <3>2. \A j \in 1 .. (n + 1) - 1 : Told(s, j).is # "error"
      BY <1>4, <1>9, <2>1, <2>7
    <3>3. n + 1 \in 1 .. n + 1
      BY <1>4
    <3> QED
      BY <1>8, <1>9, <2>4, <2>5, <3>1, <3>2, <3>3 DEF Kept
  <2>8. CASE r.failure = 0 /\ o.is # "error"
    <3>1. s.failure = 0
      BY <1>5, <2>8
    <3>2. \A i \in 1 .. n + 1 : Told(s, i).is # "error"
      BY <1>9, <2>1, <2>2, <2>8
    <3> QED
      BY <1>8, <2>4, <2>5, <3>1, <3>2 DEF Kept
  <2> QED
    BY <2>6, <2>7, <2>8
<1> QED
  BY <1>10, <1>11 DEF s

LEMMA WayStep == RunInv /\ TypeInv /\ WayInv /\ [Next]_vars => WayInv'
<1> SUFFICES ASSUME RunInv, TypeInv, WayInv, [Next]_vars PROVE WayInv'
  OBVIOUS
<1>1. ASSUME settings' = settings, NEW p \in Processes,
             \A q \in Processes \ {p} : proc'[q] = proc[q],
             proc'[p].at # "idle" => OnCourse(proc'[p]) /\ Kept(proc'[p])
      PROVE  WayInv'
  <2>1. ASSUME NEW q \in Processes, (proc[q].at # "idle")'
        PROVE  (OnCourse(proc[q]) /\ Kept(proc[q]))'
    <3>1. OnCourse(proc'[q]) /\ Kept(proc'[q])
      BY <1>1, <2>1 DEF WayInv
    <3> QED
      BY <1>1, <3>1, WayStays
  <2> QED
    BY <2>1 DEF WayInv
<1>2. CASE UNCHANGED vars
  <2>1. \A p \in Processes : proc'[p] = proc[p]
    BY <1>2 DEF vars
  <2>2. ASSUME NEW q \in Processes, (proc[q].at # "idle")'
        PROVE  (OnCourse(proc[q]) /\ Kept(proc[q]))'
    BY <1>2, <2>1, <2>2, WayStays DEF vars, WayInv
  <2> QED
    BY <2>2 DEF WayInv
<1>3. ASSUME NEW p \in Processes, NEW c, Start(p, c) PROVE WayInv'
  <2> DEFINE s == proc'[p]
  <2>1. /\ s = [at |-> "opening", cmd |-> c, todo |-> Targets(c), base |-> 0, failure |-> 0,
                bug |-> FALSE, out |-> [a \in Names |-> Untried]]
        /\ \A q \in Processes \ {p} : proc'[q] = proc[q]
        /\ Targets(c) # << >> /\ settings' = settings
    BY <1>3 DEF Start, RunInv
  <2>2. Targets(c) \in Seq(Names) /\ Plan(s) = Targets(c) /\ s.todo = Targets(c)
    BY <2>1, PlansAreTyped DEF Plan
  <2>3. DoneWith(s) = 0
    BY <2>2 DEF DoneWith
  <2>4. s.at = "opening" /\ s.failure = 0 /\ s.bug = FALSE
    BY <2>1
  <2> HIDE DEF s
  <2>5. \A i \in 1 .. Len(s.todo) : s.todo[i] = Plan(s)[DoneWith(s) + i]
    BY <2>2, <2>3
  <2>6. OnCourse(s)
    <3>1. Plan(s) # << >> /\ Len(s.todo) <= Len(Plan(s))
      BY <2>1, <2>2
    <3>2. s.at # "done" /\ s.todo # << >>
      BY <2>1, <2>2, <2>4
    <3> QED
      BY <2>5, <3>1, <3>2 DEF OnCourse
  <2>7. Kept(s)
    BY <2>3, <2>4 DEF Kept
  <2> QED
    BY <1>1, <2>1, <2>6, <2>7 DEF s
<1>4. ASSUME NEW p \in Processes, Leave(p) \/ Crash(p) PROVE WayInv'
  BY <1>1, <1>4 DEF Leave, Crash, Idle, RunInv
<1>5. ASSUME NEW p \in Processes, CommandStep(p) PROVE WayInv'
  <2>1. /\ Running(p) /\ settings' = settings /\ \A q \in Processes \ {p} : proc'[q] = proc[q]
        /\ GoesOn(p) \/ \E o \in Outcomes \ {Untried} : Concluded(p, o)
    BY <1>5, StepsOfOne
  <2>2. OnCourse(proc[p]) /\ Kept(proc[p]) /\ proc[p] \in Runs
    BY <2>1 DEF WayInv, Running, TypeInv, TypeOK, Idle
  <2>3. CASE GoesOn(p)
    <3>1. Plan(proc'[p]) = Plan(proc[p])
      BY <2>3 DEF GoesOn, Plan
    <3>2. DoneWith(proc'[p]) = DoneWith(proc[p])
      BY <2>3, <3>1 DEF GoesOn, DoneWith
    <3>3. \A i : Told(proc'[p], i) = Told(proc[p], i)
      BY <2>3, <3>1 DEF GoesOn, Told
    <3>4. OnCourse(proc'[p])
      BY <2>1, <2>2, <2>3, <3>1, <3>2 DEF GoesOn, OnCourse, Running
    <3>5. Kept(proc'[p])
      BY <2>2, <2>3, <3>2, <3>3 DEF GoesOn, Kept
    <3> QED
      BY <1>1, <2>1, <3>4, <3>5
  <2>4. CASE \E o \in Outcomes \ {Untried} : Concluded(p, o)
    <3>1. OnCourse(proc'[p]) /\ Kept(proc'[p])
      BY <2>1, <2>2, <2>4, WayOn
    <3> QED
      BY <1>1, <2>1, <3>1
  <2> QED
    BY <2>1, <2>3, <2>4
<1> QED
  BY <1>2, <1>3, <1>4, <1>5 DEF Next

LEMMA WayInit == Init => WayInv
  BY DEF Init, WayInv, Idle

(* When all is done, what is kept of it is what the exit code tells. *)
LEMMA CodeIsHonest ==
    ASSUME RunInv, TypeInv, WayInv, NEW p \in Processes, At(p, "done")
    PROVE  LET tried  == Targets(proc[p].cmd)
               out(i) == proc[p].out[tried[i]]
               code   == ExitCode(p)
           IN  /\ \A i \in DOMAIN tried : out(i) # Untried
               /\ code = 0 => \A i \in DOMAIN tried : ~Failed(out(i))
               /\ code \in Codes => \E i \in DOMAIN tried :
                     out(i) = Error(code) /\ \A j \in 1 .. i - 1 : ~Failed(out(j))
               /\ (\E i \in DOMAIN tried : Failed(out(i)))
                     => code \in Codes \/ \E i \in DOMAIN tried : out(i) = Bug
<1> DEFINE r == proc[p]
           T == Targets(r.cmd)
           code == ExitCode(p)
<1>1. r \in Runs /\ OnCourse(r) /\ Kept(r)
  BY DEF TypeInv, TypeOK, WayInv, At, Idle
<1>2. T \in Seq(Names) /\ r.todo = << >>
  BY <1>1, PlansAreTyped DEF OnCourse, Plan, At
<1>3. DoneWith(r) = Len(T) /\ DOMAIN T = 1 .. Len(T) /\ Len(T) \in Nat
  BY <1>2 DEF DoneWith, Plan
<1>4. \A i : Told(r, i) = r.out[T[i]]
  BY DEF Told, Plan
<1>5. \A i \in 1 .. Len(T) : Told(r, i) \in Outcomes
  BY <1>1, <1>2, <1>4 DEF Runs
<1>6. /\ r.bug => code = 1
      /\ ~r.bug /\ r.failure # 0 => code = r.failure
      /\ ~r.bug /\ r.failure = 0 => code \in {0, 1}
  BY DEF ExitCode
<1>7. 0 \notin Codes /\ 1 \notin Codes /\ r.failure \in {0} \cup Codes /\ r.bug \in BOOLEAN
  BY <1>1, FailingAreCodes DEF Codes, Runs
<1> HIDE DEF r, T, code
<1>8. /\ \A i \in 1 .. Len(T) : Told(r, i) # Untried
      /\ r.bug <=> \E i \in 1 .. Len(T) : Told(r, i) = Bug
      /\ r.failure = 0 => \A i \in 1 .. Len(T) : Told(r, i).is # "error"
      /\ r.failure # 0 => \E i \in 1 .. Len(T) :
            Told(r, i) = Error(r.failure) /\ \A j \in 1 .. i - 1 : Told(r, j).is # "error"
  BY <1>1, <1>3 DEF Kept
<1>9. \A i \in 1 .. Len(T) : Failed(Told(r, i)) <=> Told(r, i).is = "error" \/ Told(r, i) = Bug
  BY <1>5, OutcomesAreTold DEF Failed, Bug
<1>10. code = 0 => \A i \in 1 .. Len(T) : ~Failed(Told(r, i))
  BY <1>6, <1>7, <1>8, <1>9
<1>11. code \in Codes => \E i \in 1 .. Len(T) :
          Told(r, i) = Error(code) /\ \A j \in 1 .. i - 1 : ~Failed(Told(r, j))
  <2> SUFFICES ASSUME code \in Codes
               PROVE  \E i \in 1 .. Len(T) :
                         Told(r, i) = Error(code) /\ \A j \in 1 .. i - 1 : ~Failed(Told(r, j))
    OBVIOUS
  <2>1. ~r.bug /\ r.failure # 0 /\ code = r.failure
    BY <1>6, <1>7
  <2>2. PICK i \in 1 .. Len(T) : /\ Told(r, i) = Error(r.failure)
                                 /\ \A j \in 1 .. i - 1 : Told(r, j).is # "error"
    BY <1>8, <2>1
  <2>3. \A j \in 1 .. i - 1 : j \in 1 .. Len(T)
    BY <1>3
  <2> QED
    BY <1>8, <1>9, <2>1, <2>2, <2>3
<1>12. (\E i \in 1 .. Len(T) : Failed(Told(r, i))) =>
          code \in Codes \/ \E i \in 1 .. Len(T) : Told(r, i) = Bug
  BY <1>6, <1>7, <1>8, <1>9
<1> QED
  BY <1>3, <1>4, <1>8, <1>10, <1>11, <1>12 DEF r, T, code

(* For any accounts and any outcomes, a command that ends has tried them all, and
   its exit code is that of the first that failed. *)
THEOREM ExitCodesAreHonest == Spec => []ExitIsHonest
<1>1. RunInv /\ TypeInv /\ WayInv => ExitIsHonest
  BY CodeIsHonest DEF ExitIsHonest
<1> QED
  BY RunInit, RunStep, SchemaInit, SchemaStep, TypeInit, TypeStep, WayInit, WayStep, <1>1, PTL
  DEF Spec

-----------------------------------------------------------------------------
(* Which mirrors a command reaches.  Only one that may write migrates. *)

Entitled(p) == Writes(proc[p].cmd) /\ ~proc[p].cmd.dry

RightsInv == \A p \in Processes : At(p, "migrating") => Entitled(p)

LEMMA RightsStep == RunInv /\ TypeInv /\ RightsInv /\ [Next]_vars => RightsInv'
<1> SUFFICES ASSUME RunInv, TypeInv, RightsInv, [Next]_vars, NEW p \in Processes,
                    (proc[p].at = "migrating")'
             PROVE  Entitled(p)'
  BY DEF RightsInv, At
<1>1. ASSUME proc'[p] = proc[p] PROVE Entitled(p)'
  BY <1>1 DEF RightsInv, At, Entitled
<1>2. CASE UNCHANGED vars
  BY <1>1, <1>2 DEF vars
<1>3. ASSUME NEW q \in Processes, NEW c, Start(q, c) PROVE Entitled(p)'
  BY <1>1, <1>3 DEF Start, RunInv
<1>4. ASSUME NEW q \in Processes, Leave(q) \/ Crash(q) PROVE Entitled(p)'
  BY <1>1, <1>4 DEF Leave, Crash, Idle, RunInv
<1>5. ASSUME NEW q \in Processes, CommandStep(q) PROVE Entitled(p)'
  <2>1. /\ Running(q) /\ \A r \in Processes \ {q} : proc'[r] = proc[r]
        /\ GoesOn(q) \/ \E o \in Outcomes \ {Untried} : Concluded(q, o)
    BY <1>5, StepsOfOne
  <2>2. CASE q # p
    BY <1>1, <2>1, <2>2
  <2>3. CASE q = p /\ \E o : Concluded(p, o)
    BY <2>1, <2>3, ConcludedRun
  <2>4. CASE q = p /\ ~\E o : Concluded(p, o)
    <3>1. proc'[p].cmd = proc[p].cmd
      BY <2>1, <2>4 DEF GoesOn
    <3>2. OpenWrite(p) => Entitled(p)
      BY DEF OpenWrite, Transient, Entitled
    <3>3. ~\E place \in {"ready", "syncing"} : Goes(p, place)
      BY <2>1, <2>4, GoesRun
    <3>4. CASE OpenWrite(p)
      BY <3>1, <3>2, <3>4 DEF Entitled
    <3>5. CASE Migrate(p)
      BY <3>1, <3>5 DEF Migrate, RightsInv, Entitled
    <3>6. CASE UNCHANGED proc
      BY <1>1, <3>6
    <3> QED
      BY <1>5, <2>4, <3>3, <3>4, <3>5, <3>6 DEF CommandStep, OpenRefused, OpenCopy, OpenRead,
         Migrated, DatabaseErrs, Search, Look, Act, CommandErrs, TakeLock, SkipSync, SyncWrites,
         SyncEnds
  <2> QED
    BY <2>2, <2>3, <2>4
<1> QED
  BY <1>2, <1>3, <1>4, <1>5 DEF Next

LEMMA RightsInit == Init => RightsInv
  BY DEF Init, RightsInv, At, Idle

(* The account before a process is one that its command asks for. *)
LEMMA AskedFor ==
    ASSUME RunInv, TypeInv, WayInv, NEW p \in Processes, Running(p)
    PROVE  ~Refused(proc[p].cmd) /\ AsksFor(proc[p].cmd, Account(p))
<1> DEFINE c == proc[p].cmd
           a == Account(p)
<1>1. proc[p] \in Runs /\ OnCourse(proc[p])
  BY DEF TypeInv, TypeOK, WayInv, Running, Idle
<1>2. c \in Commands /\ Targets(c) # << >> /\ proc[p].todo \in Seq(Names)
  BY <1>1 DEF Runs, OnCourse, Plan
<1>3. ~Refused(c)
  BY <1>2 DEF Targets
<1>4. c.account \in Names \cup {All, None} /\ AccountsOf(settings) \subseteq Names
      /\ All \notin Names /\ None \notin Names
  BY <1>2, CommandsAreTyped, AllAndNoneAreNoNames, AccountsAreNames
<1>5. \E i \in 1 .. Len(Targets(c)) : a = Targets(c)[i]
  <2>1. proc[p].todo # << >> /\ Targets(c) \in Seq(Names) /\ Len(proc[p].todo) <= Len(Targets(c))
    BY <1>1, <1>2, PlansAreTyped DEF Running, OnCourse, Plan
  <2>2. a = proc[p].todo[1] /\ 1 \in 1 .. Len(proc[p].todo)
    BY <1>2, <2>1 DEF Account
  <2>3. a = Targets(c)[DoneWith(proc[p]) + 1]
    BY <1>1, <2>2 DEF OnCourse, Plan
  <2>4. DoneWith(proc[p]) + 1 \in 1 .. Len(Targets(c))
    BY <1>2, <2>1, <2>2 DEF DoneWith, Plan
  <2> QED
    BY <2>3, <2>4
<1> HIDE DEF a, c
<1>6. AsksFor(c, a)
  <2>1. CASE c.account = All
    BY <2>1 DEF AsksFor
  <2>2. CASE c.account # All
    <3>1. Targets(c) = Selected(c)
      BY <1>3, <2>2 DEF Targets, Fanout
    <3>2. CASE c.account \in AccountsOf(settings)
      <4>1. Targets(c) = <<c.account>>
        BY <1>4, <2>2, <3>1, <3>2 DEF Selected
      <4> QED
        BY <1>5, <4>1 DEF AsksFor
    <3>3. CASE c.account = None /\ settings.default # None
      <4>1. Targets(c) = <<settings.default>>
        BY <1>4, <2>2, <3>1, <3>3 DEF Selected
      <4> QED
        BY <1>5, <3>3, <4>1 DEF AsksFor
    <3>4. CASE c.account = None /\ settings.default = None /\ Len(settings.order) = 1
      <4>1. Targets(c) = settings.order
        BY <1>4, <2>2, <3>1, <3>4 DEF Selected
      <4>2. settings.order \in Seq(Names)
        BY SettingsAreTyped DEF RunInv
      <4>3. AccountsOf(settings) = {a}
        BY <1>5, <3>4, <4>1, <4>2 DEF AccountsOf
      <4> QED
        BY <3>4, <4>3 DEF AsksFor
    <3>5. Targets(c) # << >>
      BY <1>2 DEF c
    <3> QED
      BY <2>2, <3>1, <3>2, <3>3, <3>4, <3>5 DEF Selected
  <2> QED
    BY <2>1, <2>2
<1> QED
  BY <1>3, <1>6 DEF a, c

LEMMA ReachesItsPath ==
    ASSUME RunInv, TypeInv, WayInv, NEW p \in Processes, Running(p), Entitled(p)
    PROVE  Reaches(proc[p].cmd, Path(p))
<1>1. ~Refused(proc[p].cmd) /\ AsksFor(proc[p].cmd, Account(p))
  BY AskedFor
<1>2. Account(p) \in AccountsOf(settings) /\ Account(p) \in Names
  BY HasAccount, AccountsAreNames
<1> QED
  BY <1>1, <1>2 DEF Reaches, Entitled, Path, PathOf, Owns, Refused

LEMMA MirrorsAreReached ==
    ASSUME RunInv, SchemaInv, TypeInv, WayInv, RightsInv, Next, NEW f \in Files
    PROVE  /\ mirror'[f] # mirror[f] =>
                 \E p \in Processes : ~At(p, "idle") /\ Reaches(proc[p].cmd, f)
           /\ rows'[f] # rows[f] =>
                 \E p \in Processes :
                    ~At(p, "idle") /\ Reaches(proc[p].cmd, f) /\ Means(proc[p].cmd, f)
<1>1. ASSUME mirror'[f] # mirror[f]
      PROVE  \E p \in Processes : ~At(p, "idle") /\ Reaches(proc[p].cmd, f)
  <2>1. PICK p \in Processes : OpenWrite(p) \/ (Migrate(p) /\ mirror' # mirror)
    BY <1>1 DEF Next, CommandStep, Start, Leave, Crash, OpenRefused, OpenCopy, OpenRead, Migrated,
       DatabaseErrs, Search, Look, Act, CommandErrs, TakeLock, SkipSync, SyncWrites, SyncEnds
  <2>2. f = Path(p) /\ Running(p)
    BY <1>1, <2>1 DEF OpenWrite, Migrate, At, Running, SchemaInv
  <2>3. Entitled(p)
    BY <2>1 DEF OpenWrite, Migrate, Transient, Entitled, RightsInv
  <2> QED
    BY <2>2, <2>3, ReachesItsPath DEF At, Running
<1>2. ASSUME rows'[f] # rows[f]
      PROVE  \E p \in Processes :
                ~At(p, "idle") /\ Reaches(proc[p].cmd, f) /\ Means(proc[p].cmd, f)
  <2>1. PICK p \in Processes : Act(p) \/ \E m : SyncWrites(p, m)
    BY <1>2 DEF Next, CommandStep, Start, Leave, Crash, OpenRefused, OpenCopy, OpenRead, OpenWrite,
       Migrate, Migrated, DatabaseErrs, Search, Look, CommandErrs, TakeLock, SkipSync, SyncEnds
  <2>2. f = Path(p) /\ Running(p) /\ ~proc[p].cmd.dry
    BY <1>2, <2>1 DEF Act, SyncWrites, Gains, At, Running, SchemaInv
  <2>3. Entitled(p)
    BY <2>1, <2>2 DEF Act, SyncWrites, Entitled, Writes, WriteKinds, SchemaInv, PlaceOk, Syncs
  <2>4. CASE \E m : SyncWrites(p, m)
    <3>1. ~TakesHandle(proc[p].cmd)
      BY <2>4 DEF SyncWrites, SchemaInv, PlaceOk, Syncs, TakesHandle
    <3> QED
      BY <2>2, <2>3, <3>1, ReachesItsPath DEF At, Running, Means
  <2>5. CASE Act(p)
    <3>1. Means(proc[p].cmd, Path(p))
      BY <2>2, <2>5, HasAccount DEF Act, Misrouted, Means, Owns, Path, PathOf
    <3> QED
      BY <2>2, <2>3, <3>1, ReachesItsPath DEF At, Running
  <2> QED
    BY <2>1, <2>4, <2>5
<1> QED
  BY <1>1, <1>2

(* For any settings and commands, no mirror is created, migrated or written but by
   a command that reaches it, and no row for the handle of another account. *)
THEOREM MirrorsAreTheirOwn == Spec => OnlyItsMirror
<1>1. RunInv /\ SchemaInv /\ TypeInv /\ WayInv /\ RightsInv /\ [Next]_vars =>
        [\A f \in Files :
          /\ mirror'[f] # mirror[f] =>
                \E p \in Processes : ~At(p, "idle") /\ Reaches(proc[p].cmd, f)
          /\ rows'[f] # rows[f] =>
                \E p \in Processes :
                   ~At(p, "idle") /\ Reaches(proc[p].cmd, f) /\ Means(proc[p].cmd, f)]_vars
  BY MirrorsAreReached
<1> QED
  BY RunInit, RunStep, SchemaInit, SchemaStep, TypeInit, TypeStep, WayInit, WayStep, RightsInit,
     RightsStep, <1>1, PTL DEF Spec, OnlyItsMirror

-----------------------------------------------------------------------------
(* The answer of several accounts.  Of natural numbers, one is least. *)

LEMMA Least ==
    ASSUME NEW N \in SUBSET Nat, N # {}
    PROVE  \E m \in N : \A n \in N : m <= n
<1> DEFINE R == OpToRel(<, Nat)
<1>1. \A m, n \in Nat : m < n => <<m, n>> \in R
  BY DEF OpToRel
<1>2. IsWellFoundedOn(R, Nat)
  BY NatLessThanWellFounded
<1> HIDE DEF R
<1>3. PICK m \in N : \A n \in N : ~(<<n, m>> \in R)
  BY <1>2, WFMin
<1>4. ASSUME NEW n \in N PROVE m <= n
  <2>1. ~(n < m)
    BY <1>1, <1>3
  <2> QED
    BY <2>1
<1> QED
  BY <1>4

(* An order of the elements of S, one before the other. *)
Orders(R, S) ==
    /\ \A x, y \in S : <<x, y>> \in R => <<y, x>> \notin R
    /\ \A x, y, z \in S : <<x, y>> \in R /\ <<y, z>> \in R => <<x, z>> \in R
    /\ \A x, y \in S : x # y => <<x, y>> \in R \/ <<y, x>> \in R

(* In a finite set, every element has its own number of elements before it, and
   every number below the size of the set is that of one. *)
LEMMA SortedIsSorted ==
    ASSUME NEW S, IsFiniteSet(S), NEW R, Orders(R, S)
    PROVE  LET n == Cardinality(S)
               q == Sorted(S, R)
           IN  /\ n \in Nat
               /\ q \in [1 .. n -> S]
               /\ \A i, j \in 1 .. n : i < j => <<q[i], q[j]>> \in R
               /\ \A x \in S : \E i \in 1 .. n : q[i] = x
<1> DEFINE n == Cardinality(S)
           q == Sorted(S, R)
           Below(x) == {y \in S : <<y, x>> \in R}
           rank == [x \in S |-> Cardinality(Below(x)) + 1]
<1>1. n \in Nat
  BY FS_CardinalityType
<1>2. ASSUME NEW x \in S
      PROVE  /\ x \notin Below(x) /\ IsFiniteSet(Below(x))
             /\ Cardinality(Below(x)) \in 0 .. n - 1
  <2>1. x \notin Below(x) /\ Below(x) \in SUBSET S
    BY DEF Orders
  <2>2. IsFiniteSet(Below(x)) /\ Cardinality(Below(x)) <= n /\ Cardinality(Below(x)) # n
    BY <2>1, FS_Subset
  <2>3. Cardinality(Below(x)) \in Nat
    BY <2>2, FS_CardinalityType
  <2> HIDE DEF n, Below
  <2> QED
    BY <1>1, <2>1, <2>2, <2>3
<1>3. ASSUME NEW x \in S, NEW y \in S, <<x, y>> \in R
      PROVE  Cardinality(Below(x)) < Cardinality(Below(y))
  <2>1. x \in Below(y) /\ x \notin Below(x) /\ Below(x) \in SUBSET Below(y)
    BY <1>3, <1>2 DEF Orders
  <2> HIDE DEF Below
  <2>2. IsFiniteSet(Below(y)) /\ Below(x) # Below(y)
    BY <1>2, <2>1
  <2>3. /\ Cardinality(Below(x)) <= Cardinality(Below(y))
        /\ Cardinality(Below(x)) # Cardinality(Below(y))
    BY <2>1, <2>2, FS_Subset
  <2>4. Cardinality(Below(x)) \in Int /\ Cardinality(Below(y)) \in Int
    BY <1>2
  <2> QED
    BY <2>3, <2>4
<1>4. /\ rank \in [S -> 1 .. n]
      /\ \A x, y \in S : <<x, y>> \in R => rank[x] < rank[y]
  <2> HIDE DEF n, Below
  <2> QED
    BY <1>1, <1>2, <1>3
<1>5. \A i \in 1 .. n : q[i] = CHOOSE x \in S : Cardinality(Below(x)) = i - 1
  BY DEF Sorted
<1>6. ASSUME NEW i \in 1 .. n, NEW z \in S, rank[z] = i PROVE q[i] \in S /\ rank[q[i]] = i
  <2> HIDE DEF n, Below, q
  <2>1. Cardinality(Below(z)) = i - 1
    BY <1>1, <1>2, <1>6
  <2>2. q[i] \in S /\ Cardinality(Below(q[i])) = i - 1
    BY <1>5, <2>1
  <2> QED
    BY <1>1, <1>2, <2>2
<1>7. \A T : (\A i \in 1 .. n : q[i] \in T) => q \in [1 .. n -> T]
  BY DEF Sorted
<1>8. IsFiniteSet(1 .. n) /\ Cardinality(1 .. n) = n
  BY <1>1, FS_Interval
<1>9. n = Cardinality(S)
  OBVIOUS
<1> HIDE DEF n, q, rank, Below
<1>10. ASSUME NEW x \in S, NEW y \in S, rank[x] = rank[y] PROVE x = y
  <2>1. <<x, y>> \notin R /\ <<y, x>> \notin R
    BY <1>1, <1>4, <1>10
  <2> QED
    BY <2>1 DEF Orders
<1>11. \A i \in 1 .. n : \E x \in S : rank[x] = i
  <2>1. rank \in Injection(S, 1 .. n)
    BY <1>4, <1>10 DEF Injection, IsInjective
  <2>2. rank \in Surjection(S, 1 .. n)
    BY <1>8, <1>9, <2>1, FS_Injection
  <2> QED
    BY <2>2 DEF Surjection
<1>12. \A i \in 1 .. n : q[i] \in S /\ rank[q[i]] = i
  BY <1>6, <1>11
<1>13. q \in [1 .. n -> S]
  BY <1>7, <1>12
<1>14. ASSUME NEW i \in 1 .. n, NEW j \in 1 .. n, i < j PROVE <<q[i], q[j]>> \in R
  <2>1. q[i] \in S /\ q[j] \in S /\ rank[q[i]] = i /\ rank[q[j]] = j
    BY <1>12
  <2>2. q[i] # q[j] /\ <<q[j], q[i]>> \notin R
    BY <1>1, <1>4, <1>14, <2>1
  <2> QED
    BY <2>1, <2>2 DEF Orders
<1>15. ASSUME NEW x \in S PROVE \E i \in 1 .. n : q[i] = x
  BY <1>4, <1>10, <1>12
<1> QED
  BY <1>1, <1>13, <1>14, <1>15 DEF n, q

(* How long a sequence of length n is after the cut. *)
CutAt(c, n) == IF c.limit < 0 \/ n <= c.limit THEN n ELSE c.limit

(* h is the first m elements of q. *)
Prefix(h, m, q, S) == h \in [1 .. m -> S] /\ \A i \in 1 .. m : h[i] = q[i]

LEMMA CutCuts ==
    ASSUME NEW c, c.limit \in Int, NEW S, NEW n \in Nat, NEW q \in [1 .. n -> S]
    PROVE  /\ CutAt(c, n) \in 0 .. n
           /\ Prefix(Cut(c, q), CutAt(c, n), q, S)
<1>1. q \in Seq(S) /\ Len(q) = n
  OBVIOUS
<1>2. CASE c.limit < 0 \/ n <= c.limit
  BY <1>1, <1>2 DEF Cut, CutAt, Prefix
<1>3. CASE ~(c.limit < 0 \/ n <= c.limit)
  <2> DEFINE m == c.limit
  <2>1. Cut(c, q) = SubSeq(q, 1, m) /\ m \in 0 .. n /\ CutAt(c, n) = m
    BY <1>1, <1>3 DEF Cut, CutAt
  <2> HIDE DEF m
  <2>2. SubSeq(q, 1, m) = [i \in 1 .. m |-> q[i]]
    BY <1>1, <2>1
  <2>3. \A i \in 1 .. m : i \in 1 .. n
    BY <2>1
  <2> QED
    BY <2>1, <2>2, <2>3 DEF Prefix
<1> QED
  BY <1>2, <1>3

(* q lists S, each element once if it ascends. *)
Lists(q, n, S) == n \in Nat /\ q \in [1 .. n -> S] /\ \A x \in S : \E i \in 1 .. n : q[i] = x

Ascends(q, n, R) == \A i, j \in 1 .. n : i < j => <<q[i], q[j]>> \in R

(* The first k of q are in p. *)
Covers(p, m, q, n, k) == \A j \in 1 .. n : j <= k => \E i \in 1 .. m : p[i] = q[j]

(* A sequence that ascends begins as the whole does if all that the whole begins
   with is in it. *)
LEMMA BeginAlike ==
    ASSUME NEW V, NEW R, Orders(R, V),
           NEW nV, NEW q, Lists(q, nV, V), Ascends(q, nV, R),
           NEW nE \in Nat, NEW p \in [1 .. nE -> V], Ascends(p, nE, R),
           NEW k \in Nat, Covers(p, nE, q, nV, k),
           NEW l \in Nat \ {0}, l <= k
    PROVE  /\ l <= nV <=> l <= nE
           /\ l <= nV => p[l] = q[l]
<1>1. /\ nV \in Nat /\ q \in [1 .. nV -> V] /\ \A v \in V : \E i \in 1 .. nV : q[i] = v
      /\ \A i, j \in 1 .. nV : i < j => <<q[i], q[j]>> \in R
      /\ \A i, j \in 1 .. nE : i < j => <<p[i], p[j]>> \in R
      /\ \A j \in 1 .. nV : j <= k => \E i \in 1 .. nE : p[i] = q[j]
  BY DEF Lists, Ascends, Covers
<1> DEFINE Alike(j) == (j <= nV <=> j <= nE) /\ (j <= nV => p[j] = q[j])
           N == {j \in Nat \ {0} : j <= k /\ ~Alike(j)}
<1>2. SUFFICES ASSUME N # {} PROVE FALSE
  OBVIOUS
<1>3. PICK j \in N : \A i \in N : j <= i
  <2>1. N \in SUBSET Nat
    OBVIOUS
  <2> HIDE DEF N
  <2> QED
    BY <1>2, <2>1, Least
<1>4. j \in Nat \ {0} /\ j <= k /\ ~Alike(j)
  OBVIOUS
<1>5. \A i \in 1 .. j - 1 : Alike(i)
  BY <1>3
<1> HIDE DEF N
<1>6. \A i \in 1 .. nV : q[i] \in V
  BY <1>1
<1>7. \A i \in 1 .. nE : p[i] \in V
  OBVIOUS
<1>8. ASSUME NEW i \in 1 .. nV, NEW h \in 1 .. nV, q[i] = q[h] PROVE i = h
  <2>1. i < h \/ h < i \/ i = h
    OBVIOUS
  <2>2. <<q[i], q[h]>> \notin R /\ <<q[h], q[i]>> \notin R
    BY <1>6, <1>8 DEF Orders
  <2> QED
    BY <1>1, <2>1, <2>2
<1>9. ASSUME NEW i \in 1 .. nE, NEW h \in 1 .. nE, p[i] = p[h] PROVE i = h
  <2>1. i < h \/ h < i \/ i = h
    OBVIOUS
  <2>2. <<p[i], p[h]>> \notin R /\ <<p[h], p[i]>> \notin R
    BY <1>7, <1>9 DEF Orders
  <2> QED
    BY <1>1, <2>1, <2>2
<1>10. ASSUME j <= nV PROVE \E h \in 1 .. nE : p[h] = q[j] /\ h >= j
  <2>1. PICK h \in 1 .. nE : p[h] = q[j]
    BY <1>1, <1>4, <1>10
  <2>2. ASSUME h < j PROVE FALSE
    <3>1. h \in 1 .. j - 1 /\ h \in 1 .. nV /\ j \in 1 .. nV
      BY <1>1, <1>4, <1>10, <2>2
    <3>2. p[h] = q[h]
      BY <1>5, <3>1
    <3>3. q[h] = q[j]
      BY <2>1, <3>2
    <3>4. h = j
      BY <1>8, <3>1, <3>3
    <3> QED
      BY <1>4, <2>2, <3>4
  <2> QED
    BY <1>4, <2>1, <2>2
<1>11. ASSUME j <= nE PROVE \E h \in 1 .. nV : p[j] = q[h] /\ h >= j
  <2>1. PICK h \in 1 .. nV : q[h] = p[j]
    BY <1>1, <1>4, <1>7, <1>11
  <2>2. ASSUME h < j PROVE FALSE
    <3>1. h \in 1 .. j - 1 /\ h \in 1 .. nE /\ j \in 1 .. nE
      BY <1>4, <1>11, <2>2
    <3>2. p[h] = q[h]
      BY <1>5, <3>1
    <3>3. p[h] = p[j]
      BY <2>1, <3>2
    <3>4. h = j
      BY <1>9, <3>1, <3>3
    <3> QED
      BY <1>4, <2>2, <3>4
  <2> QED
    BY <1>4, <2>1, <2>2
<1>12. j <= nV <=> j <= nE
  BY <1>1, <1>4, <1>10, <1>11
<1>13. j <= nV /\ j <= nE /\ p[j] # q[j]
  BY <1>4, <1>12
<1>14. PICK h \in 1 .. nE : p[h] = q[j] /\ h > j
  BY <1>4, <1>10, <1>13
<1>15. PICK g \in 1 .. nV : p[j] = q[g] /\ g > j
  BY <1>4, <1>11, <1>13
<1>16. j \in 1 .. nV /\ j \in 1 .. nE
  BY <1>4, <1>13
<1>17. <<p[j], q[j]>> \in R
  BY <1>1, <1>14, <1>16
<1>18. <<q[j], p[j]>> \in R
  BY <1>1, <1>15, <1>16
<1> QED
  BY <1>6, <1>7, <1>16, <1>17, <1>18 DEF Orders

ByTime(c, S) == {e \in S \X S : Precedes(c, e[1], e[2])}

LEMMA TimeOrders ==
    ASSUME NEW c, c.asc \in BOOLEAN, NEW S \in SUBSET Messages
    PROVE  Orders(ByTime(c, S), S)
<1>1. \A m \in S : m \in [ts : Int, id : Int]
  BY MessagesAreRecords
<1>2. \A m, n \in S : <<m, n>> \in ByTime(c, S) <=> Precedes(c, m, n)
  BY DEF ByTime
<1>3. \A m, n \in S : Precedes(c, m, n) <=>
         IF c.asc THEN m.ts < n.ts \/ (m.ts = n.ts /\ m.id < n.id)
                  ELSE n.ts < m.ts \/ (n.ts = m.ts /\ n.id < m.id)
  BY DEF Precedes
<1>4. \A m, n \in S : m.ts = n.ts /\ m.id = n.id => m = n
  BY <1>1
<1>5. \A m \in S : m.ts \in Int /\ m.id \in Int
  BY <1>1
<1>6. \A m, n \in S : Precedes(c, m, n) => ~Precedes(c, n, m)
  BY <1>3, <1>5
<1>7. \A m, n, o \in S : Precedes(c, m, n) /\ Precedes(c, n, o) => Precedes(c, m, o)
  BY <1>3, <1>5
<1>8. \A m, n \in S : m # n => Precedes(c, m, n) \/ Precedes(c, n, m)
  BY <1>3, <1>4, <1>5
<1> QED
  BY <1>2, <1>6, <1>7, <1>8 DEF Orders

(* What a mirror answers is sorted, and whatever it leaves out comes after as many
   messages as the limit says. *)
LEMMA TopIsTop ==
    ASSUME NEW c, c.limit \in Int, c.asc \in BOOLEAN,
           NEW S \in SUBSET Messages, IsFiniteSet(S)
    PROVE  \E m \in Nat :
              /\ Len(Top(c, S)) = m
              /\ Top(c, S) \in [1 .. m -> S]
              /\ \A i, j \in 1 .. m : i < j => Precedes(c, Top(c, S)[i], Top(c, S)[j])
              /\ \A x \in S : \/ \E i \in 1 .. m : Top(c, S)[i] = x
                              \/ m = c.limit /\ \A i \in 1 .. m : Precedes(c, Top(c, S)[i], x)
<1> DEFINE R == ByTime(c, S)
           n == Cardinality(S)
           s == Sorted(S, R)
           t == Cut(c, s)
           m == CutAt(c, n)
<1>1. Top(c, S) = t
  BY DEF Top, ByTime
<1>2. /\ n \in Nat /\ s \in [1 .. n -> S]
      /\ \A i, j \in 1 .. n : i < j => <<s[i], s[j]>> \in R
      /\ \A x \in S : \E i \in 1 .. n : s[i] = x
  BY TimeOrders, SortedIsSorted
<1>3. \A x, y \in S : <<x, y>> \in R <=> Precedes(c, x, y)
  BY DEF ByTime
<1> HIDE DEF n, s, t, R
<1>4. m \in 0 .. n /\ t \in [1 .. m -> S] /\ \A i \in 1 .. m : t[i] = s[i]
  <2>1. s \in [1 .. n -> S] /\ n \in Nat
    BY <1>2
  <2> HIDE DEF m
  <2>2. CutAt(c, n) \in 0 .. n
    BY <2>1, CutCuts
  <2>3. Prefix(Cut(c, s), CutAt(c, n), s, S)
    BY <2>1, CutCuts
  <2> QED
    BY <2>2, <2>3 DEF t, m, Prefix
<1>5. m = n \/ m = c.limit
  BY DEF CutAt
<1> HIDE DEF m
<1>6. \A i \in 1 .. m : i \in 1 .. n /\ t[i] \in S /\ s[i] \in S
  BY <1>2, <1>4
<1>7. \A i, j \in 1 .. m : i < j => Precedes(c, t[i], t[j])
  BY <1>2, <1>3, <1>4, <1>6
<1>8. ASSUME NEW x \in S, \A i \in 1 .. m : t[i] # x
      PROVE  m = c.limit /\ \A i \in 1 .. m : Precedes(c, t[i], x)
  <2>1. PICK j \in 1 .. n : s[j] = x
    BY <1>2
  <2>2. j \notin 1 .. m
    BY <1>4, <1>8, <2>1
  <2>3. m < j /\ m # n
    BY <1>2, <1>4, <2>1, <2>2
  <2>4. \A i \in 1 .. m : <<s[i], s[j]>> \in R
    BY <1>2, <1>4, <2>3
  <2> QED
    BY <1>3, <1>4, <1>5, <1>6, <2>1, <2>3, <2>4
<1>9. m \in Nat /\ Len(t) = m
  BY <1>2, <1>4
<1> QED
  BY <1>1, <1>4, <1>7, <1>8, <1>9


(* The orders by which the answers are merged and by which one mirror would have
   answered. *)
LEMMA MergeOrders ==
    ASSUME NEW c, c.asc \in BOOLEAN, NEW I \in SUBSET Nat,
           NEW E, \A e \in E : e.account \in I /\ e.row \in Nat /\ e.msg \in Messages,
           \A e, f \in E : e.account = f.account /\ e.row = f.row => e = f
    PROVE  Orders({e \in E \X E : MergeBefore(c, e[1], e[2])}, E)
<1> DEFINE R == {e \in E \X E : MergeBefore(c, e[1], e[2])}
<1>1. \A e \in E : e.msg.ts \in Int /\ e.account \in Int /\ e.row \in Int
  <2>1. \A m \in Messages : m.ts \in Int
    BY MessagesAreRecords
  <2>2. ASSUME NEW e \in E PROVE e.msg.ts \in Int /\ e.account \in Int /\ e.row \in Int
    <3>1. e.account \in I /\ e.row \in Nat /\ e.msg \in Messages
      OBVIOUS
    <3>2. e.msg.ts \in Int
      BY <2>1, <3>1
    <3>3. e.account \in Nat
      BY <3>1
    <3> QED
      BY <3>1, <3>2, <3>3
  <2> QED
    BY <2>2
<1>2. \A e, f \in E : <<e, f>> \in R <=> MergeBefore(c, e, f)
  OBVIOUS
<1>3. \A e, f \in E : MergeBefore(c, e, f) => ~MergeBefore(c, f, e)
  BY <1>1 DEF MergeBefore
<1>4. \A e, f, g \in E : MergeBefore(c, e, f) /\ MergeBefore(c, f, g) => MergeBefore(c, e, g)
  BY <1>1 DEF MergeBefore
<1>5. \A e, f \in E : e # f => MergeBefore(c, e, f) \/ MergeBefore(c, f, e)
  BY <1>1 DEF MergeBefore
<1> HIDE DEF R
<1> QED
  BY <1>2, <1>3, <1>4, <1>5 DEF Orders, R

LEMMA GlobalOrders ==
    ASSUME NEW c, c.asc \in BOOLEAN, NEW I \in SUBSET Nat,
           NEW V, \A v \in V : v.account \in I /\ v.msg \in Messages,
           \A v, w \in V : v.account = w.account /\ v.msg = w.msg => v = w,
           NEW R, \A v, w \in V : <<v, w>> \in R <=> Before(c, v, w)
    PROVE  Orders(R, V)
<1>1. \A v \in V : v.account \in Int /\ v.msg.ts \in Int /\ v.msg.id \in Int
  <2>1. \A m \in Messages : m.ts \in Int /\ m.id \in Int
    BY MessagesAreRecords
  <2>2. ASSUME NEW v \in V PROVE v.account \in Int /\ v.msg.ts \in Int /\ v.msg.id \in Int
    <3>1. v.account \in I /\ v.msg \in Messages
      OBVIOUS
    <3>2. v.msg.ts \in Int /\ v.msg.id \in Int
      BY <2>1, <3>1
    <3>3. v.account \in Nat
      BY <3>1
    <3> QED
      BY <3>1, <3>2, <3>3
  <2> QED
    BY <2>2
<1>2. \A v, w \in V : v.msg.ts = w.msg.ts /\ v.msg.id = w.msg.id => v.msg = w.msg
  BY MessagesAreRecords
<1>3. \A v, w \in V : Before(c, v, w) => ~Before(c, w, v)
  BY <1>1 DEF Before, Precedes
<1>4. \A v, w, x \in V : Before(c, v, w) /\ Before(c, w, x) => Before(c, v, x)
  BY <1>1 DEF Before, Precedes
<1>5. \A v, w \in V : v # w => Before(c, v, w) \/ Before(c, w, v)
  BY <1>1, <1>2 DEF Before, Precedes
<1> QED
  BY <1>3, <1>4, <1>5 DEF Orders


(* Finitely many mirrors that hold finitely many messages hold finitely many. *)
LEMMA EverythingIsFinite ==
    ASSUME NEW I \in SUBSET Nat, IsFiniteSet(I),
           NEW answers \in [I -> SUBSET Messages], \A i \in I : IsFiniteSet(answers[i])
    PROVE  IsFiniteSet(Everything(answers))
<1> DEFINE W == {answers[i] : i \in I}
           U == UNION W
           P == I \X U
           pair == [z \in P |-> [account |-> z[1], msg |-> z[2]]]
           T == {pair[z] : z \in P}
           a == [i \in I |-> answers[i]]
<1>1. IsFiniteSet(W)
  <2>1. a \in Surjection(I, W)
    BY DEF Surjection
  <2> QED
    BY <2>1, FS_Surjection
<1>2. IsFiniteSet(U)
  <2>1. \A S \in W : IsFiniteSet(S)
    OBVIOUS
  <2> HIDE DEF W
  <2> QED
    BY <1>1, <2>1, FS_UNION
<1>3. IsFiniteSet(P)
  <2> HIDE DEF U
  <2> QED
    BY <1>2, FS_Product
<1>4. IsFiniteSet(T)
  <2>1. pair \in Surjection(P, T)
    <3> HIDE DEF P
    <3> QED
      BY DEF Surjection
  <2> QED
    BY <1>3, <2>1, FS_Surjection
<1>5. Everything(answers) \in SUBSET T
  <2>1. ASSUME NEW i \in I, NEW m \in answers[i] PROVE [account |-> i, msg |-> m] \in T
    <3>1. <<i, m>> \in P
      OBVIOUS
    <3>2. pair[<<i, m>>] = [account |-> i, msg |-> m]
      <4> HIDE DEF P
      <4> QED
        BY <3>1
    <3> HIDE DEF P, pair
    <3> QED
      BY <3>1, <3>2
  <2> HIDE DEF T
  <2> QED
    BY <2>1 DEF Everything
<1> QED
  BY <1>4, <1>5, FS_Subset


LEMMA MergeIsTop ==
    ASSUME NEW c, c.limit \in Int, c.asc \in BOOLEAN,
           NEW I \in SUBSET Nat, IsFiniteSet(I),
           NEW answers \in [I -> SUBSET Messages], \A i \in I : IsFiniteSet(answers[i])
    PROVE  Shown(Merged(c, answers)) = Shown(GlobalTop(c, answers))
<1> DEFINE V == Everything(answers)
           E == Entries(c, answers)
           RV == {e \in V \X V : Before(c, e[1], e[2])}
           RE == {e \in E \X E : MergeBefore(c, e[1], e[2])}
           top(i) == Top(c, answers[i])
           len(i) == Len(top(i))
           phi == [e \in E |-> [account |-> e.account, msg |-> e.msg]]
           nV == Cardinality(V)
           nE == Cardinality(E)
           q == Sorted(V, RV)
           r == Sorted(E, RE)
(* what each mirror answered *)
<1>1. ASSUME NEW i \in I
      PROVE  /\ len(i) \in Nat /\ top(i) \in [1 .. len(i) -> answers[i]]
             /\ \A h, j \in 1 .. len(i) : h < j => Precedes(c, top(i)[h], top(i)[j])
             /\ \A x \in answers[i] :
                   \/ \E j \in 1 .. len(i) : top(i)[j] = x
                   \/ len(i) = c.limit /\ \A j \in 1 .. len(i) : Precedes(c, top(i)[j], x)
  <2>1. answers[i] \in SUBSET Messages /\ IsFiniteSet(answers[i])
    OBVIOUS
  <2> QED
    BY <2>1, TopIsTop
<1>2. \A i \in I : \A m \in answers[i] : [account |-> i, msg |-> m] \in V
  BY DEF Everything
<1>3. \A v \in V : v.account \in I /\ v.msg \in answers[v.account] /\ v = [account |-> v.account, msg |-> v.msg]
  BY DEF Everything
<1>4. DOMAIN answers = I
  OBVIOUS
<1>5. E = UNION {{[account |-> i, row |-> j, msg |-> top(i)[j]] : j \in DOMAIN top(i)} : i \in I}
  BY <1>4 DEF Entries
<1> HIDE DEF V, E, top, len
<1>6. ASSUME NEW i \in I, NEW j \in 1 .. len(i)
      PROVE  [account |-> i, row |-> j, msg |-> top(i)[j]] \in E
  <2>1. j \in DOMAIN top(i)
    BY <1>1
  <2> QED
    BY <1>5, <2>1
<1>7. ASSUME NEW e \in E
      PROVE  /\ e.account \in I /\ e.row \in 1 .. len(e.account)
             /\ e = [account |-> e.account, row |-> e.row, msg |-> top(e.account)[e.row]]
  <2>1. PICK i \in I : \E j \in DOMAIN top(i) : e = [account |-> i, row |-> j, msg |-> top(i)[j]]
    BY <1>5
  <2>2. PICK j \in DOMAIN top(i) : e = [account |-> i, row |-> j, msg |-> top(i)[j]]
    BY <2>1
  <2>3. j \in 1 .. len(i)
    BY <1>1
  <2> QED
    BY <2>2, <2>3
(* an entry of the merge is a message of the whole, and keeps its place *)
<1>8. \A m \in Messages : ~Precedes(c, m, m)
  <2>1. \A m \in Messages : m.ts \in Int /\ m.id \in Int
    BY MessagesAreRecords
  <2> QED
    BY <2>1 DEF Precedes
<1>9. ASSUME NEW e \in E
      PROVE  /\ e.account \in I /\ e.row \in Nat /\ e.msg \in answers[e.account] /\ e.msg \in Messages
             /\ e.msg = top(e.account)[e.row]
             /\ phi[e] = [account |-> e.account, msg |-> e.msg] /\ phi[e] \in V
  <2>1. /\ e.account \in I /\ e.row \in 1 .. len(e.account)
        /\ e.msg = top(e.account)[e.row]
    BY <1>7
  <2>2. e.msg \in answers[e.account] /\ e.row \in Nat
    BY <1>1, <2>1
  <2>3. phi[e] = [account |-> e.account, msg |-> e.msg]
    OBVIOUS
  <2>4. answers[e.account] \in SUBSET Messages
    BY <2>1
  <2> HIDE DEF phi
  <2> QED
    BY <1>2, <2>1, <2>2, <2>3, <2>4
<1>10. \A e, f \in E : e.account = f.account /\ e.row = f.row => e = f
  <2>1. ASSUME NEW e \in E, NEW f \in E, e.account = f.account, e.row = f.row PROVE e = f
    BY <1>7, <2>1
  <2> QED
    BY <2>1
<1>11. ASSUME NEW e \in E, NEW f \in E, e.account = f.account, e.row < f.row
       PROVE  Precedes(c, e.msg, f.msg)
  <2>1. /\ e.account \in I /\ e.row \in 1 .. len(e.account) /\ f.row \in 1 .. len(e.account)
        /\ e.msg = top(e.account)[e.row] /\ f.msg = top(e.account)[f.row]
    BY <1>7, <1>9, <1>11
  <2> QED
    BY <1>1, <1>11, <2>1
<1>12. phi \in [E -> V]
  <2>1. \A e \in E : phi[e] \in V
    BY <1>9
  <2> QED
    BY <2>1
<1>13. ASSUME NEW e \in E, NEW f \in E, phi[e] = phi[f] PROVE e = f
  <2>1. e.account = f.account /\ e.msg = f.msg
    <3>1. [account |-> e.account, msg |-> e.msg] = [account |-> f.account, msg |-> f.msg]
      BY <1>9, <1>13
    <3> QED
      BY <3>1
  <2>2. e.msg \in Messages /\ e.row \in Nat /\ f.row \in Nat
    BY <1>9
  <2>3. ~(e.row < f.row) /\ ~(f.row < e.row)
    BY <1>8, <1>11, <2>1, <2>2
  <2> QED
    BY <1>10, <2>1, <2>2, <2>3
<1> HIDE DEF phi
<1>14. IsFiniteSet(V) /\ IsFiniteSet(E)
  <2>1. IsFiniteSet(V)
    BY EverythingIsFinite DEF V
  <2>2. phi \in Injection(E, V)
    BY <1>12, <1>13 DEF Injection, IsInjective
  <2> QED
    BY <2>1, <2>2, FS_Injection
<1>15. \A v, w \in V : <<v, w>> \in RV <=> Before(c, v, w)
  OBVIOUS
<1>16. Orders(RV, V)
  <2>1. ASSUME NEW v \in V PROVE v.account \in I /\ v.msg \in Messages
    <3>1. v.account \in I /\ v.msg \in answers[v.account]
      BY <1>3
    <3>2. answers[v.account] \in SUBSET Messages
      BY <3>1
    <3> QED
      BY <3>1, <3>2
  <2>2. ASSUME NEW v \in V, NEW w \in V, v.account = w.account, v.msg = w.msg PROVE v = w
    BY <1>3, <2>2
  <2>3. \A v, w \in V : v.account = w.account /\ v.msg = w.msg => v = w
    BY <2>2
  <2>4. \A v \in V : v.account \in I /\ v.msg \in Messages
    BY <2>1
  <2> HIDE DEF RV
  <2> QED
    BY <1>15, <2>3, <2>4, GlobalOrders
<1>17. Orders(RE, E)
  <2>1. \A e \in E : e.account \in I /\ e.row \in Nat /\ e.msg \in Messages
    BY <1>9
  <2> QED
    BY <1>10, <2>1, MergeOrders
<1>18. /\ nV \in Nat /\ q \in [1 .. nV -> V]
       /\ \A i, j \in 1 .. nV : i < j => <<q[i], q[j]>> \in RV
       /\ \A v \in V : \E i \in 1 .. nV : q[i] = v
  <2> HIDE DEF RV
  <2> QED
    BY <1>14, <1>16, SortedIsSorted
<1>19. /\ nE \in Nat /\ r \in [1 .. nE -> E]
       /\ \A i, j \in 1 .. nE : i < j => <<r[i], r[j]>> \in RE
       /\ \A e \in E : \E i \in 1 .. nE : r[i] = e
  <2> HIDE DEF RE
  <2> QED
    BY <1>14, <1>17, SortedIsSorted
<1>20. \A e, f \in E : <<e, f>> \in RE <=> MergeBefore(c, e, f)
  OBVIOUS
<1> HIDE DEF RV, RE, q, r, nV, nE
<1>21. ASSUME NEW e \in E, NEW f \in E, <<e, f>> \in RE PROVE <<phi[e], phi[f]>> \in RV
  <2>1. MergeBefore(c, e, f)
    BY <1>20, <1>21
  <2>2. /\ phi[e].account = e.account /\ phi[e].msg = e.msg /\ phi[e] \in V
        /\ phi[f].account = f.account /\ phi[f].msg = f.msg /\ phi[f] \in V
    <3>1. ASSUME NEW g \in E
          PROVE  phi[g].account = g.account /\ phi[g].msg = g.msg /\ phi[g] \in V
      <4>1. phi[g] = [account |-> g.account, msg |-> g.msg] /\ phi[g] \in V
        BY <1>9
      <4> QED
        BY <4>1
    <3> QED
      BY <3>1
  <2>3. Before(c, phi[e], phi[f])
    BY <1>11, <2>1, <2>2 DEF MergeBefore, Before
  <2> QED
    BY <1>15, <2>2, <2>3
(* what a limit leaves of the whole, some mirror has answered *)
<1>22. ASSUME NEW j \in 1 .. nV, c.limit < 0 \/ j <= c.limit
       PROVE  \E e \in E : phi[e] = q[j]
  <2> DEFINE v == q[j]
             i == v.account
             w(h) == [account |-> i, msg |-> top(i)[h]]
             f == [h \in 1 .. len(i) |-> CHOOSE g \in 1 .. nV : q[g] = w(h)]
  <2>1. v \in V /\ i \in I /\ v.msg \in answers[i] /\ v = [account |-> i, msg |-> v.msg]
    BY <1>3, <1>18
  <2>2. ASSUME NEW h \in 1 .. len(i), top(i)[h] = v.msg PROVE \E e \in E : phi[e] = q[j]
    <3>1. PICK e \in E : e = [account |-> i, row |-> h, msg |-> top(i)[h]]
      BY <1>6, <2>1
    <3>2. phi[e] = [account |-> i, msg |-> v.msg]
      BY <1>9, <2>2, <3>1
    <3> QED
      BY <2>1, <3>2
  <2> SUFFICES ASSUME \A h \in 1 .. len(i) : top(i)[h] # v.msg PROVE FALSE
    BY <2>2
  <2>3. len(i) = c.limit /\ \A h \in 1 .. len(i) : Precedes(c, top(i)[h], v.msg)
    BY <1>1, <2>1
  <2>4. len(i) \in Nat
    BY <1>1, <2>1
  <2> HIDE DEF i
  <2>5. len(i) \in Nat /\ j <= len(i)
    BY <1>22, <2>3, <2>4
  <2> USE DEF i
  <2>6. ASSUME NEW h \in 1 .. len(i)
        PROVE  w(h) \in V /\ w(h).account = i /\ w(h).msg = top(i)[h]
    <3>1. top(i)[h] \in answers[i]
      BY <1>1, <2>1
    <3> QED
      BY <1>2, <2>1, <3>1
  <2> HIDE DEF w, v, i
  <2>7. ASSUME NEW h \in 1 .. len(i) PROVE <<w(h), q[j]>> \in RV
    <3>1. Before(c, w(h), v)
      <4>1. Precedes(c, w(h).msg, v.msg) /\ w(h).account = v.account
        BY <2>3, <2>6 DEF i
      <4> QED
        BY <4>1 DEF Before, Precedes
    <3> QED
      BY <1>15, <2>1, <2>6, <3>1 DEF v
  <2>8. ASSUME NEW h \in 1 .. len(i)
        PROVE  f[h] \in 1 .. j - 1 /\ q[f[h]] = w(h)
    <3>1. PICK g \in 1 .. nV : q[g] = w(h)
      BY <1>18, <2>6
    <3>2. f[h] \in 1 .. nV /\ q[f[h]] = w(h)
      BY <3>1
    <3> HIDE DEF f
    <3>3. <<q[f[h]], q[j]>> \in RV /\ q[f[h]] \in V /\ q[j] \in V
      BY <1>18, <2>7, <3>2
    <3>4. <<q[j], q[f[h]]>> \notin RV
      BY <1>16, <3>3 DEF Orders
    <3>5. f[h] # j
      BY <3>3, <3>4
    <3>6. ~(j < f[h])
      BY <1>18, <3>2, <3>4
    <3>7. nV \in Nat
      BY <1>18
    <3> QED
      BY <3>2, <3>5, <3>6, <3>7
  <2> HIDE DEF f
  <2>9. f \in [1 .. len(i) -> 1 .. j - 1]
    <3>1. f = [h \in 1 .. len(i) |-> f[h]]
      BY DEF f
    <3> QED
      BY <2>8, <3>1
  <2>10. /\ IsFiniteSet(1 .. len(i)) /\ Cardinality(1 .. len(i)) = len(i)
         /\ IsFiniteSet(1 .. j - 1) /\ Cardinality(1 .. j - 1) = j - 1
    <3>1. j \in Int /\ j >= 1
      BY <1>18
    <3>2. j - 1 \in Int /\ 1 \in Int /\ len(i) \in Int
      BY <2>5, <3>1
    <3>3. IsFiniteSet(1 .. len(i)) /\ Cardinality(1 .. len(i)) = IF 1 > len(i) THEN 0 ELSE len(i) - 1 + 1
      BY <3>2, FS_Interval
    <3>4. IsFiniteSet(1 .. j - 1) /\ Cardinality(1 .. j - 1) = IF 1 > j - 1 THEN 0 ELSE j - 1 - 1 + 1
      BY <3>2, FS_Interval
    <3> QED
      BY <2>5, <3>1, <3>3, <3>4
  <2>11. PICK h, g \in 1 .. len(i) : h # g /\ f[h] = f[g]
    <3> DEFINE A == 1 .. len(i)
               B == 1 .. j - 1
    <3>1. Cardinality(B) < Cardinality(A) /\ IsFiniteSet(A) /\ IsFiniteSet(B) /\ f \in [A -> B]
      BY <2>5, <2>9, <2>10
    <3> HIDE DEF A, B
    <3>2. \E h, g \in A : h # g /\ f[h] = f[g]
      BY <3>1, FS_PigeonHole
    <3> QED
      BY <3>2 DEF A
  <2>12. top(i)[h] = top(i)[g]
    <3>1. w(h) = w(g)
      BY <2>8, <2>11
    <3> QED
      BY <2>6, <3>1
  <2>13. top(i)[h] \in Messages /\ top(i)[g] \in Messages
    <3>1. answers[i] \in SUBSET Messages
      BY <2>1
    <3> QED
      BY <1>1, <2>1, <3>1
  <2>14. h < g \/ g < h
    BY <2>11
  <2>15. Precedes(c, top(i)[h], top(i)[g]) \/ Precedes(c, top(i)[g], top(i)[h])
    BY <1>1, <2>1, <2>14
  <2> QED
    BY <1>8, <2>12, <2>13, <2>15
(* so both begin alike, and are cut in the same place *)
<1> DEFINE k == IF c.limit < 0 THEN nV + nE ELSE c.limit
<1>23. k \in Nat
  BY <1>18, <1>19
<1> DEFINE p == [i \in 1 .. nE |-> phi[r[i]]]
<1>24. \A i \in 1 .. nE : p[i] = phi[r[i]] /\ r[i] \in E
  BY <1>19
<1>25. p \in [1 .. nE -> V]
  BY <1>12, <1>19
<1> HIDE DEF p, k
<1>26. Lists(q, nV, V) /\ Ascends(q, nV, RV) /\ Ascends(p, nE, RV)
  <2>1. ASSUME NEW i \in 1 .. nE, NEW j \in 1 .. nE, i < j PROVE <<p[i], p[j]>> \in RV
    <3>1. <<r[i], r[j]>> \in RE /\ r[i] \in E /\ r[j] \in E
      BY <1>19, <2>1
    <3>2. <<phi[r[i]], phi[r[j]]>> \in RV
      BY <1>21, <3>1
    <3> QED
      BY <1>24, <3>2
  <2> QED
    BY <1>18, <2>1 DEF Lists, Ascends
<1>27. Covers(p, nE, q, nV, k)
  <2>1. ASSUME NEW j \in 1 .. nV, j <= k PROVE \E i \in 1 .. nE : p[i] = q[j]
    <3>1. PICK e \in E : phi[e] = q[j]
      BY <1>18, <1>19, <1>22, <2>1 DEF k
    <3> QED
      BY <1>19, <1>24, <3>1
  <2> QED
    BY <2>1 DEF Covers
<1>28. ASSUME NEW l \in Nat \ {0}, l <= k
       PROVE  (l <= nV <=> l <= nE) /\ (l <= nV => p[l] = q[l])
  BY <1>16, <1>19, <1>23, <1>28, <1>25, <1>26, <1>27, BeginAlike
<1>29. CutAt(c, nV) = CutAt(c, nE)
  <2>1. \A l \in Nat \ {0} : l <= k => (l <= nV <=> l <= nE)
    BY <1>28
  <2>2. nV \in Nat /\ nE \in Nat
    BY <1>18, <1>19
  <2> QED
    BY <2>1, <2>2 DEF CutAt, k
<1> DEFINE n == CutAt(c, nV)
<1>30. /\ n \in 0 .. nV /\ n \in 0 .. nE /\ n <= k
  BY <1>18, <1>19, <1>29 DEF CutAt, k
<1>31. Prefix(Cut(c, q), n, q, V)
  BY <1>18, CutCuts
<1>32. Prefix(Cut(c, r), n, r, E)
  BY <1>19, <1>29, CutCuts
<1> HIDE DEF n
<1>33. ASSUME NEW l \in 1 .. n PROVE r[l].account = q[l].account /\ r[l].msg = q[l].msg
  <2>1. l \in Nat \ {0} /\ l <= k /\ l <= nV /\ l \in 1 .. nE
    BY <1>18, <1>19, <1>23, <1>30
  <2>2. phi[r[l]] = q[l] /\ r[l] \in E
    BY <1>28, <1>24, <2>1
  <2>3. q[l] = [account |-> r[l].account, msg |-> r[l].msg]
    BY <1>9, <2>2
  <2> QED
    BY <2>3
<1>34. Shown(Cut(c, q)) = Shown(Cut(c, r))
  BY <1>31, <1>32, <1>33 DEF Shown, Prefix
<1>35. Merged(c, answers) = Cut(c, r) /\ GlobalTop(c, answers) = Cut(c, q)
  BY DEF Merged, GlobalTop, q, r, RV, RE, V, E
<1> QED
  BY <1>34, <1>35

-----------------------------------------------------------------------------
(* Mirrors hold finitely many rows, and so do answers. *)
ReadsInv ==
    /\ \A f \in Files : IsFiniteSet(rows[f])
    /\ \A p \in Processes : proc[p].at # "idle" =>
          \A a \in Names : proc[p].out[a].is = "read" => IsFiniteSet(proc[p].out[a].rows)

LEMMA ReadsInit == Init => ReadsInv
  BY StoresAreTyped DEF Init, ReadsInv, Idle

(* Only a search answers with rows, and those are of the mirror. *)
LEMMA OnlySearchReads ==
    ASSUME RunInv, TypeInv, NEW p \in Processes, CommandStep(p)
    PROVE  GoesOn(p) \/ \E o : /\ Concluded(p, o)
                               /\ o.is = "read" => Path(p) \in Files /\ o.rows = rows[Path(p)] \ {Mark}
<1> DEFINE Plain == {Bug, Skipped, Nothing, Something} \cup {Error(n) : n \in Codes}
<1>1. \A o \in Plain : o.is # "read"
  BY DEF Bug, Skipped, Nothing, Something, Error
<1>2. \A n \in Codes : Error(n) \in Plain
  OBVIOUS
<1>3. {Bug, Skipped, Nothing, Something} \subseteq Plain
  OBVIOUS
<1>4. 2 \in Codes /\ 3 \in Codes /\ Failing \subseteq Codes
  BY DEF Codes
<1> HIDE DEF Plain
<1>5. CASE Search(p)
  <2>1. Path(p) \in Files /\ Concluded(p, Read(rows[Path(p)] \ {Mark}))
    BY <1>5 DEF Search, At, TypeInv, PathsOk
  <2>2. Read(rows[Path(p)] \ {Mark}).rows = rows[Path(p)] \ {Mark}
    BY DEF Read
  <2> QED
    BY <2>1, <2>2
<1>6. CASE ~Search(p) /\ ~\E o \in Plain : Concluded(p, o)
  <2>1. Running(p) /\ proc[p] \in Runs /\ DOMAIN proc = Processes
    BY StepsOfOne DEF TypeInv, TypeOK, Running, Idle, RunInv
  <2>2. ASSUME NEW place \in {"ready", "syncing"}, Goes(p, place) PROVE GoesOn(p)
    BY <2>1, <2>2 DEF Goes, GoesOn, Runs
  <2>3. ASSUME OpenWrite(p) \/ (Migrate(p) /\ ~Concluded(p, Error(3))) PROVE GoesOn(p)
    <3>1. \/ \E n : proc' = [proc EXCEPT ![p].at = "migrating", ![p].base = n]
          \/ \E n : proc' = [proc EXCEPT ![p].base = n] /\ proc[p].at = "migrating"
      BY <2>3 DEF OpenWrite, Migrate, At
    <3> QED
      BY <2>1, <3>1 DEF GoesOn, Runs
  <2>4. ASSUME UNCHANGED proc PROVE GoesOn(p)
    BY <2>1, <2>4 DEF GoesOn, Running
  <2> QED
    BY <1>2, <1>3, <1>4, <1>6, <2>2, <2>3, <2>4 DEF CommandStep, OpenRefused, OpenCopy, OpenRead,
       Migrated, DatabaseErrs, Look, Act, CommandErrs, TakeLock, SkipSync, SyncWrites, SyncEnds
<1> QED
  BY <1>1, <1>5, <1>6

(* What a step adds to a mirror is one thing. *)
LEMMA OneAtATime ==
    ASSUME RunInv, TypeInv, NEW p \in Processes, CommandStep(p), NEW f \in Files
    PROVE  rows'[f] = rows[f] \/ \E x : rows'[f] = rows[f] \cup {x}
<1>1. rows \in [Files -> SUBSET (Messages \cup {Mark})]
  BY DEF TypeInv, TypeOK
<1>2. ASSUME NEW x, Gains(Path(p), {x}) PROVE rows'[f] = rows[f] \/ rows'[f] = rows[f] \cup {x}
  BY <1>1, <1>2 DEF Gains
<1>3. \/ UNCHANGED rows \/ \E x : Gains(Path(p), {x})
  BY DEF CommandStep, OpenRefused, OpenCopy, OpenRead, OpenWrite, Migrate, Migrated,
     DatabaseErrs, Search, Look, Act, CommandErrs, TakeLock, SkipSync, SyncWrites, SyncEnds
<1> QED
  BY <1>2, <1>3

LEMMA ReadsStep == RunInv /\ TypeInv /\ ReadsInv /\ [Next]_vars => ReadsInv'
<1> SUFFICES ASSUME RunInv, TypeInv, ReadsInv, [Next]_vars PROVE ReadsInv'
  OBVIOUS
<1> DEFINE Bounded(out) == \A a \in Names : out[a].is = "read" => IsFiniteSet(out[a].rows)
<1>1. ASSUME NEW p \in Processes, \A f \in Files : IsFiniteSet(rows'[f]),
             \A q \in Processes \ {p} : proc'[q] = proc[q],
             proc'[p].at # "idle" => Bounded(proc'[p].out)
      PROVE  ReadsInv'
  BY <1>1 DEF ReadsInv
<1>2. CASE UNCHANGED vars
  BY <1>2 DEF vars, ReadsInv
<1>3. ASSUME NEW p \in Processes, NEW c, Start(p, c) PROVE ReadsInv'
  <2>1. /\ proc'[p].out = [a \in Names |-> Untried] /\ rows' = rows
        /\ \A q \in Processes \ {p} : proc'[q] = proc[q]
    BY <1>3 DEF Start, RunInv
  <2>2. Bounded(proc'[p].out)
    BY <2>1 DEF Untried
  <2> QED
    BY <1>1, <2>1, <2>2 DEF ReadsInv
<1>4. ASSUME NEW p \in Processes, Leave(p) \/ Crash(p) PROVE ReadsInv'
  BY <1>1, <1>4 DEF Leave, Crash, Idle, RunInv, ReadsInv
<1>5. ASSUME NEW p \in Processes, CommandStep(p) PROVE ReadsInv'
  <2>1. Running(p) /\ \A q \in Processes \ {p} : proc'[q] = proc[q]
    BY <1>5, StepsOfOne
  <2>2. ASSUME NEW f \in Files PROVE IsFiniteSet(rows'[f])
    <3>1. IsFiniteSet(rows[f])
      BY DEF ReadsInv
    <3>2. rows'[f] = rows[f] \/ \E x : rows'[f] = rows[f] \cup {x}
      BY <1>5, OneAtATime
    <3> QED
      BY <3>1, <3>2, FS_AddElement
  <2>3. proc[p] \in Runs /\ DOMAIN proc = Processes /\ Bounded(proc[p].out)
    BY <2>1 DEF TypeInv, TypeOK, Running, Idle, RunInv, ReadsInv
  <2>4. CASE GoesOn(p)
    BY <1>1, <2>1, <2>2, <2>3, <2>4 DEF GoesOn
  <2>5. ASSUME NEW o, Concluded(p, o),
               o.is = "read" => Path(p) \in Files /\ o.rows = rows[Path(p)] \ {Mark}
        PROVE  ReadsInv'
    <3>1. Account(p) \in Names
      BY <2>1, HasAccount, AccountsAreNames
    <3>2. proc'[p].out = [proc[p].out EXCEPT ![Account(p)] = o]
      <4>1. proc'[p] =
              [at |-> IF Len(proc[p].todo) = 1 THEN "done" ELSE "opening",
               cmd |-> proc[p].cmd, todo |-> Tail(proc[p].todo), base |-> 0,
               failure |-> IF o.is = "error" /\ proc[p].failure = 0 THEN o.code
                           ELSE proc[p].failure,
               bug |-> IF o.is = "bug" THEN TRUE ELSE proc[p].bug,
               out |-> [proc[p].out EXCEPT ![Account(p)] = o]]
        BY <2>3, <2>5, <3>1, ConcludedRecord
      <4> QED
        BY <4>1
    <3>3. o.is = "read" => IsFiniteSet(o.rows)
      <4>1. ASSUME o.is = "read" PROVE IsFiniteSet(rows[Path(p)] \ {Mark})
        <5>1. IsFiniteSet(rows[Path(p)])
          BY <2>5, <4>1 DEF ReadsInv
        <5> QED
          BY <5>1, FS_Difference
      <4> QED
        BY <2>5, <4>1
    <3>4. proc[p].out \in [Names -> Outcomes]
      BY <2>3 DEF Runs
    <3>5. Bounded(proc'[p].out)
      BY <2>3, <3>2, <3>3, <3>4
    <3> QED
      BY <1>1, <2>1, <2>2, <3>5
  <2> QED
    BY <1>5, <2>4, <2>5, OnlySearchReads
<1> QED
  BY <1>2, <1>3, <1>4, <1>5 DEF Next

(* The answers of a command that is done are what MergeIsTop asks for. *)
LEMMA AnswersAreTyped ==
    ASSUME RunInv, TypeInv, WayInv, ReadsInv, NEW p \in Processes, At(p, "done")
    PROVE  \E I \in SUBSET Nat :
              /\ IsFiniteSet(I) /\ Answers(p) \in [I -> SUBSET Messages]
              /\ \A i \in I : IsFiniteSet(Answers(p)[i])
              /\ proc[p].cmd.limit \in Int /\ proc[p].cmd.asc \in BOOLEAN
<1> DEFINE T == Targets(proc[p].cmd)
           I == {j \in DOMAIN T : Answer(p, j).is = "read"}
<1>1. proc[p] \in Runs /\ OnCourse(proc[p]) /\ proc[p].at # "idle"
  BY DEF TypeInv, TypeOK, WayInv, At, Idle
<1>2. T \in Seq(Names)
  BY <1>1, PlansAreTyped DEF OnCourse, Plan
<1>3. DOMAIN T = 1 .. Len(T) /\ Len(T) \in Nat
  BY <1>2
<1> HIDE DEF T
<1>4. I \in SUBSET (1 .. Len(T)) /\ I \in SUBSET Nat
  BY <1>3
<1>5. IsFiniteSet(I)
  <2>1. IsFiniteSet(1 .. Len(T))
    BY <1>3, FS_Interval
  <2> QED
    BY <1>4, <2>1, FS_Subset
<1>6. Answers(p) = [i \in I |-> Answer(p, i).rows]
  BY DEF Answers, T
<1>7. ASSUME NEW i \in I PROVE Answer(p, i).rows \in SUBSET Messages /\ IsFiniteSet(Answer(p, i).rows)
  <2>1. T[i] \in Names /\ Answer(p, i) = proc[p].out[T[i]] /\ Answer(p, i).is = "read"
    BY <1>2, <1>4 DEF Answer, T
  <2>2. Answer(p, i) \in Outcomes
    BY <1>1, <2>1 DEF Runs
  <2>3. Answer(p, i).rows \in SUBSET Messages
    BY <2>1, <2>2 DEF Outcomes, Untried, Error, Bug, Skipped, Nothing, Something, Read
  <2> QED
    BY <1>1, <2>1, <2>3 DEF ReadsInv
<1>8. proc[p].cmd.limit \in Int /\ proc[p].cmd.asc \in BOOLEAN
  BY <1>1, CommandsAreTyped DEF Runs
<1> HIDE DEF I
<1>9. Answers(p) \in [I -> SUBSET Messages] /\ \A i \in I : IsFiniteSet(Answers(p)[i])
  BY <1>6, <1>7
<1> QED
  BY <1>4, <1>5, <1>8, <1>9

(* For any accounts, whatever was answered and whatever failed, --account all prints
   what one mirror that held everything read would have answered. *)
THEOREM FanoutShowsGlobalTop == Spec => []FanoutIsGlobalTop
<1>1. RunInv /\ TypeInv /\ WayInv /\ ReadsInv => FanoutIsGlobalTop
  <2> SUFFICES ASSUME RunInv, TypeInv, WayInv, ReadsInv, NEW p \in Processes, At(p, "done")
               PROVE  Shown(Merged(proc[p].cmd, Answers(p))) = Shown(GlobalTop(proc[p].cmd, Answers(p)))
    BY DEF FanoutIsGlobalTop
  <2> QED
    BY AnswersAreTyped, MergeIsTop
<1> QED
  BY RunInit, RunStep, SchemaInit, SchemaStep, TypeInit, TypeStep, WayInit, WayStep, ReadsInit,
     ReadsStep, <1>1, PTL DEF Spec

=============================================================================
