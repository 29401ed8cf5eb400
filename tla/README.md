# A verified model of tg-agent-bridge

tg-agent-bridge mirrors a few watched Telegram chats into SQLite (`tgq sync`),
lets people and agents query the mirror, and sends messages only through an
outbox that a human approves. This directory holds TLA+ models of the parts of
it that are hard to test, TLC configurations that check them on small
instances, and proofs of their main invariants for all instances.

Paths below are relative to the repository; `engine.py` stands for
`src/tgbridge/sync/engine.py`, `outbox.py` for `src/tgbridge/outbox.py`, and so on.

## 1. Inventory

The system has no server. Every command is an OS process of its own; processes
meet in one SQLite file (WAL, five seconds of busy timeout), in the watchlist
file, in the Telegram session file and in `sync.lock`. What interleaves is
therefore *statements of different processes*, and awaits inside one process
are points at which the rest of the world moves on.

| Part | State | Operations | Hard behaviour | What makes it correct |
|---|---|---|---|---|
| Outbox (`outbox.py`) | tables `outbox`, `rate_limit`, `audit` | enqueue, decide, approved, validate, mark_sent, mark_failed | checks outside of the transactions that rely on them | only approved rows leave; the log tells the truth; limits hold |
| Sender (`sender.py`, `run_sender`) | its list of rows, its configuration | one pass over the approved rows | lost answers, death between call and record, two senders | a bounded number of deliveries, a pass ends |
| Sync engine (`engine.py`) | tables `messages`, `sync_state` | incremental, backfill, rescan, prune, record_flood_wait, record_error, register_peer | the chat changes between fetch and write; crashes; two cursors and retention | no holes, no resurrection, sound soft deletes, cooldowns kept |
| Sync run (`runtime.py`, `lock.py`) | `sync.lock`, the session | run_sync, run_sync_loop, the flock | overlapping runs, one failing peer, kill | one session user, nothing leaked, every peer reached |
| Tags (`main.py` `_tag`, `_retag`; `apply_rules`) | table `tags` | tag, tag --remove, retag, rules at write time | retag reads before its transaction; rules change | hand tags stay, matching messages are tagged |
| Watchlist and policies (`config.py`) | `watchlist.yaml` | load_config, append_peer | read-modify-write without a lock; truncation | no peer twice, nothing lost unless writes overlap, sending stays a human decision |
| Peer resolution (`resolve.py`) | none | resolve, the choice of a slug | the slug is chosen before Telegram is asked | a slug means one peer for ever |
| Accounts and settings (`settings.py`, `main.py`) | settings file | load, select, fan out, merge, routing of handles | one failing account of several; paths from options, variables and file | each write goes to the mirror that was named; accounts do not block each other; honest exit codes |
| Migrations and connections (`db/`) | `user_version`, the tables | connect, migrate, transaction | two first commands at once; death between migrations | versions in order, once each |
| Queries and doctor (`cli/query.py`) | none | search, tail, thread, digest, doctor | read-only | the order and the limit that merging relies on |
| Telegram adapters (`client.py`, `telethon_adapter.py`) | session file | connect, iter_messages | I/O | - |
| CLI parsing, formatting, logging, secrets | none | - | - | - |

Interactions: the CLI enqueues and decides; the sender reads what they left and
writes back; sync copies `sendable` from the watchlist into `peers`, which the
outbox checks; sync applies the rules of the watchlist to what it writes; prune
deletes rows whose tags retag may be about to rewrite. Resolve appends to the
watchlist that people edit and that sync, retag, `send` and the sender load. Every
command but resolve opens the mirror of its account, and a write migrates it
first. `PROJECT.json` lists every hazard with its line.

## 2. Modules

| Module | What it is |
|---|---|
| `Egress` | the abstract promise of the outbox: submit, decide, transmit, close |
| `Outbox` | CLI processes, sender processes, rows, counters, log, deliveries; refines `Egress` |
| `MCOutbox` | symmetry of the instances |
| `OutboxProofs` | types, approval and the refinement, proved |
| `OutboxBoundsProofs` | the properties that count, proved |
| `SyncEngine` | one peer: chat, mirror, `sync_state`, the ticks |
| `MCSyncEngine` | the policies of the instances |
| `SyncProofs` | what holds of `SyncEngine` under any policies, proved |
| `SyncMirrorProofs` | what the mirror holds, under the policies for which it does, proved |
| `SyncRun` | processes, lock, session, the walk over the peers |
| `SyncRunProofs` | proofs about `SyncRun` |
| `Tagging` | sync, hands, retag, and the table of tags |
| `MCTagging` | texts and rules of the instance |
| `TaggingProofs` | proofs about `Tagging` |
| `Watchlist` | resolvers, the editor and sync around `watchlist.yaml` and the table `peers` |
| `MCWatchlist` | names and files of the instance |
| `WatchlistProofs` | proofs about `Watchlist` |
| `Accounts` | settings, commands on one or all accounts, migrations, merging, exit codes |
| `MCAccounts` | settings, commands and messages of the instance |
| `AccountsProofs` | proofs about `Accounts` |

The modules split where the code does. `Accounts` opens mirrors and runs commands
in them: what a command does there is `SyncRun`, `Tagging` or `Outbox`, and here it
adds messages or leaves a mark. `SyncRun` walks over the peers and calls
a tick, which writes or not and leaves a cooldown or not; `SyncEngine` is what a tick does to its peer.
`Tagging` lets sync write any message with any text; `SyncEngine` says which.
`Tagging` lets people replace the rules at any moment, with none too, which is what a
load finds in a file that `Watchlist` shows truncated.
`Outbox` sees sync only as the process that sets or clears `sendable`.

Conventions. An action is a handler up to its next await or to the end of its
transaction. A transaction is one action, and where it may fail there is a
second action for its rollback. A check outside of a transaction is an action
of its own. `Operator_Mistake` is a mutant of `Operator`: a plausible bug, kept
next to the definition, which the runs must detect (`PROJECT.json`, "mutants").
Bounds are constants named `Max...`; history variables are named as such and
are read by properties only.

### Outbox and its sender

`status`, `peerOf`, `sentAt`, `rate` and `audit` are the columns that code
reads; `delivered` counts what Telegram accepted, which the code cannot know.
`client[c]` is what a CLI process holds between its check and its write;
`pc`, `loaded` and `batch` are a sender's place, configuration and list.

| Action | Code |
|---|---|
| `EnqueueCheck`, `EnqueueCommit` | `Outbox.enqueue`: `_validate`, then the insert |
| `DecideCheck`, `DecideCommit` | `Outbox.decide`: the status check, then the guarded update and the unguarded audit row |
| `ClientLeaves` | dry run, exception or death before the write |
| `SenderStart`, `StartFails`, `ListApproved` | `_outbox_command`, `run_sender`, the list read once |
| `Validate`, `Deny`, `ValidateErrs` | `validate_before_send` returns, raises PolicyError, raises otherwise |
| `SendReturns`, `SendRaises` | `send_message`; it may raise although the message was taken |
| `MarkSent`, `MarkSentErrs`, `MarkFailed`, `MarkFailedErrs` | the transactions after the call and their rollbacks |
| `Crash`, `Finish` | death of the process, end of the pass |

Abstractions: bodies are valid (the check is a pure predicate of a body that
never changes); the reads of one validation are one step; `mark_sent`'s
timestamp, taken just before its transaction, belongs to it; ids follow
insertion order and the clock does not go back; dry runs only read.

### Sync engine

`top`, `ts`, `alive`, `ver` are the chat (messages by id, with a date, a version
and whether they still exist); `mirror` and `gone` are the table `messages`
(version of a row; `deleted_at`); `sync` is the row of `sync_state`; `pc`, `got`
and `cutoff` are what a tick holds across its await. `pruned`, `floodUntil` and
`recorded` are history variables: what retention deleted, the end of the latest
FloodWait that Telegram raised, and that of the latest one that came to be
recorded. The constant `Look` is what the columns that rescan compares (text, media)
say of a version: versions may differ in other columns, such as `raw_json`, alone.

| Action | Code |
|---|---|
| `Post`, `EditMessage`, `DeleteMessage`, `Tick`, `ChangePolicy` | the world outside, at any moment; the policy only between ticks, since a process loads it once |
| `FetchStart`, `PersistStart` | `_start` |
| `FetchTail`, `PersistTail`, `NothingNew` | `incremental`, `_persist` |
| `BackfillSkips`, `FetchBackfill`, `PersistBackfill` | `backfill` |
| `RescanSkips`, `FetchRescan`, `PersistRescan` | `rescan`, `_rescan_diff` |
| `Prune` | `prune` |
| `FloodWait`, `FetchErrs`, `PruneErrs` | the except clauses of `run_sync`, `record_flood_wait`, `record_error` |
| `FloodWaitUnrecorded` | a FloodWait after which the process dies, or `record_flood_wait` fails: the next tick does not know of it |
| `Crash` | death of the process elsewhere, or a failing `record_error` |

Abstractions: the pages of one fetch are one snapshot; ids and dates grow
together; a message is its id and a version (`Look` says what rescan sees of it); the random slack of a FloodWait is
in the set `FloodWaits`.

### Runs of sync

`lock`, `connected`, `pc`, `at` and `pause` are the flock, the open sessions and
where each process is; `age` and `cooldown` are `last_synced_at` and
`cooldown_until` of each peer as ages and countdowns that saturate, which makes
the state finite without a bound on time. `renamed` are peers whose slug was
changed in the watchlist: `register_peer` refuses them (the trigger
`peers_slug_immutable`) outside of the try block, which ends the run.

### Tags

`source` is the table `tags` (a source per message and tag), `text` the rows of
`messages`, `rules` the watchlist, `loaded` what the running sync has of it, and
`read` what each `retag` read before its transaction. `kept` and `settled` are
history variables. A rule is the tag it gives a text; sender rules, `rule_id`
and the audit rows of `tag` and `retag` are left out. A batch of messages is
written as as many steps, which only adds interleavings.

### The watchlist

`file` is `watchlist.yaml`: its peers and, as one value, the rest of it; it may be
`Empty`, as after a truncation, or `Broken`. `work[r]` is what a resolver holds: the
slugs in use when it loaded the file, then the peer it found and the file as
`append_peer` read it again. `mirror` is the table `peers`. `due` is a history
variable: what the file should be, as long as no two writes overlapped.

| Action | Code |
|---|---|
| `Save` | an editor |
| `StartResolve` | `load_config` in `_run_watchlist` |
| `Resolve` | `run_resolve`, `resolve`, `_unique_slug`, then the reads and checks of `append_peer` |
| `Truncate`, `WriteBack` | the open and the write of `write_text`, in which the file is empty; two resolvers that write at once may leave a broken file |
| `LeaveResolve` | no match, several, a duplicate, no `--write`, an error, or death at any point, in the middle of the write too |
| `Register` | `register_peer` in a sync that loaded the file |

Abstractions: a slug is its base, the digits of the id that follow it where
the base is taken and the counter that follows where both are, which is what
`_unique_slug` builds; the order of entries and what they say beside id, slug and
`sendable` are left out. People save files that list no id or slug twice.

### Accounts, mirrors and commands

`settings` is the settings file, read as written and never changed; `mirror[f]` is
the schema of the database at a path, that is the migrations applied to it, in
order, and `user_version`; `rows[f]` is what is in it; `proc[p]` is the command of a
process, the accounts it has still to do, the version it read (`base`) and what came
of each account.

| Definition | Code |
|---|---|
| `Loads`, `Unshared` | `load_settings`, `_reject_shared_paths` |
| `Selected`, `Fanout`, `Refused`, `Targets`, `PathOf` | `UserSettings.select`, `_apply_user_settings`, `_run_fanout`, `_apply_account` |
| `OpenRefused`, `OpenCopy`, `OpenRead`, `OpenWrite` | the first half of `_collect`: what is missing, the copy of a dry run, a read, a write |
| `Migrate`, `Migrated` | `migrate`, one transaction at a time, from the version read at the start |
| `Search`, `Look`, `Act`, `TakeLock`, `SkipSync`, `SyncWrites`, `SyncEnds`, `CommandErrs` | `_dispatch` |
| `DatabaseErrs`, `Crash` | a database that is locked or broken; death of the process |
| `Concluded`, `Noted` | the loop of `_collect_each` and its two kinds of failure |
| `Entries`, `Merged`, `ExitCode` | the answers of the mirrors put together: `_merge`, `_emit`, the end of `_collect_each` |

A command on one account is the loop with one turn: its failure has the same exit
code. A migration fails where it has been applied, because its tables or its column
exist; this, and not the version, is what keeps two first commands apart.

## 3. Runs

| Run | Question | Result |
|---|---|---|
| `outbox_single` | With one sender and one CLI call at a time, as the README describes: is the log exact, is the gap kept, are only approved rows transmitted, does a pass end? | holds |
| `outbox_race` | With two of each: does the outbox still implement `Egress`, is redelivery bounded, by how much is a window overrun, does sending stay off? | holds; by one send, no more |
| `outbox_stale_list` | Does a sender transmit approved rows only? | **violated**, see 5 |
| `outbox_two_deciders` | Is a row decided once? | **violated**, see 5 |
| `sync_mirror` | Under one policy with retention: no holes, no resurrection, no false deletion, recorded cooldowns kept? | holds |
| `sync_edits` | Do edits, deletions and changes of depth that race with fetches mislead rescan, as far as it compares, or backfill? | no |
| `sync_deepen` | Does backfill resume when history is deepened together with retention? | **violated**, see 5 |
| `sync_flood_erased` | Is a FloodWait kept when prune fails? | **violated**, see 5 |
| `sync_run` | Who holds lock and session, is every peer reached? | holds |
| `tagging` | What may retag, sync, hands and prune do to a tag? | holds |
| `watchlist` | What may those who share the watchlist do to it and to the slugs of the mirror? | holds |
| `accounts` | Do commands on several accounts keep mirrors whole and apart, and answer and exit as one mirror would? | holds |

Bounds and why they suffice.

- `outbox_single`: three rows and two peers, so that a window with limits 2
  (global) and 1 (peer) fills up for either reason while a row remains; four
  instants in windows of two, so a check and its record fall in different
  windows; one dying pass. `outbox_race`: two rows, two deciders and two senders
  that compete for the one place of a window, and one change of `allow_send` while
  they run; symmetric. All its instants lie in one window, and no pass dies: a check
  in one window whose record falls into the next, and what the death of a pass adds to
  the deliveries of several senders, are beyond this run and in the theorems
  `WindowsAreBounded` and `DeliveriesAreBounded` only.
- `sync_mirror`: three messages with a batch of one,
  so a tail and a backfill take several ticks and a batch is full or empty; a
  window of two, so rescan sees less than the chat; four instants with history
  and retention of one, so that messages expire, cutoffs move between
  fetch and write, and intervals of rescan elapse; an error limit of two
  and two failures, so that the limit is reached by FloodWait and
  error in either order. `sync_edits`: two messages of two versions, of which the
  one message's differ in what rescan compares and the other's do not; two depths, a
  short one and `all`; one failure of any kind, the unrecorded FloodWait among them,
  which `sync_mirror` leaves out: to a property about what is recorded it is a
  crash, and crashes are there.
- `sync_run`: a loop and a one-shot process, which is all it takes for one to find
  the lock held; three peers, any subset of them renamed; two failures.
- `tagging`: two messages, so that one may be raced and the other not; two
  retags that may hold different rules; three sets of rules, of which one is
  empty and two give the same tag to different texts.
- `watchlist`: two peers of one name whose last digits agree, so that all three
  forms of a slug occur; two resolvers; files without peers, and with one of them
  under the slug that resolve would choose or under another and to be sent to.
- `accounts`: two named accounts, with and without a default, or a flat file with and
  without a path; settings that share a path or a directory are offered too, and
  refused. Two processes run ten commands, one or more for each rule of
  selection, path, handle and merging. Mirrors start at any version. Three messages,
  two of equal time in one mirror and one in the other; limits of two and none.

Deadlock is checked in every run.

Fairness. `Watchlist` and `Accounts` state safety only: nobody has to start or to
end a command. `Outbox!FairSpec`: a sender that runs takes its next step and a call
returns or raises; nobody has to start a sender, and no other exception
(`PassFault`) has to come to its help. `SyncEngine!FairSpec`: ticks
are started again and again (timer or loop) and a fetch returns or raises.
`SyncRun!FairSpec`: the clock runs, each process is started again by its timer,
and its steps are taken. All are weak fairness: no process waits for another,
since the flock is not blocking and SQLite gives up after its busy timeout. Failures
and crashes are never fair and are bounded by `MaxFaults`.

Liveness. `PassEnds`: the pass of a sender ends. `BackfillCompletes`: backfill
comes to its end although messages vanish under its cursor. `EveryPeerIsReached`:
with processes that skip each other, with cooldowns and with errors, each
peer before the first refused one is reached again and again.

## 4. Theorems

All are proved from the named assumptions on the constants only: limits are
positive, bounds natural and senders finite (`Outbox`), delays and counts natural and
`Nobody` no process (`SyncRun`), sizes positive, bounds and waits natural, and policies
valid (`SyncEngine`), rules are rules (`Tagging`), people save finite files
without duplicates (`Watchlist`), settings and commands have their types, accounts are
listed once, and messages are records with integer dates and ids in finite stores
(`Accounts`). The sets of peers, processes, messages, files and tags are arbitrary.
Where a theorem needs more, the hypothesis is a definition of its module and is
named below.

`OutboxProofs`

- `TypeCorrect`: `TypeOK`.
- `OnlyApprovedLeaves`: `NothingLeavesUnapproved`. The property is not inductive:
  a sender may transmit from a list it read long ago. `EgressInv` adds that
  lists hold cleared rows only (`ListsAreCleared`), that cleared rows stay
  cleared (`Moved` is guarded), that an approval is audited in the transaction
  that makes it (`ApprovalsAudited`), that deliveries are of cleared rows, and
  that a sender about to record a send has made it (`CallsPrecedeRecords`).
- `OutboxImplementsEgress`: initial states map to initial states and each step is
  a step of `Egress` or leaves its variables alone, under
  `INSTANCE Egress WITH status <- status, delivered <- delivered`. `EgressInv`
  gives the guard of `Transmit` and, by `CallsPrecedeRecords`, that of `Close`.
- `LedgerIsExact`, `GapsAreKept`, `OneSenderTransmitsApproved`: `LedgerExact`,
  `GapKept` and `TransmitsOnlyApproved`, under `OneSender`: any two senders are the
  same one. "A separate sender process" is what README.md:295 speaks of; no lock keeps it
  alone, and section 5 shows the last of them violated by two. `SingleInv`: the rows left
  on the list are approved still (`ListsAreApproved`), each row has the one closing that its
  status says, and from the check of a gap to the record of the send the gap stays open (`GapsAreOpen`),
  for nobody else sends.

`OutboxBoundsProofs` counts the senders that are between a check and its record.

- `SendsAreDelivered`: `SentIsDelivered`. Invariant: the audited sends of a row and
  the senders that have its answer in hand (`Returned`) are together at most its deliveries.
- `SendingStaysOff`: `SwitchOffHolds`, as a sender calls only if it loaded
  `allow_send` as on (`CallsWereAllowed`).
- `WindowsAreBounded`: `RateBound`. In the window of the clock, the records and
  the senders let through (`Through`) are together at most the limit and the other
  senders; windows to come are empty. A sender let through finds a place free, and
  records in the window of the clock, be it the one it was checked in or not.
- `DeliveriesAreBounded`: `DeliveryBound`. While a row is open, its deliveries are
  at most the faults and the senders about to record one (`Handing`); once it is
  closed, the senders that still have it on their list (`Waiting`) may each
  add one, and nobody joins them.

`SyncRunProofs`

- `TypeCorrect`, among others that the walk stays within the watchlist.
- `SessionIsLocked`, `SessionReleased`, `LockReleased`: from one inductive
  invariant: a process holds the lock exactly while it is between flock and
  exit (`HoldersRun`), and a session only while it walks (`SessionsWalk`).

`SyncProofs`, for any policies, changed in whatever order.

- `TypeCorrect`: `TypeOK`; the cursors and the row of `sync_state` are never set
  from the bounds of an empty batch.
- `LimitCoolsDown`: `ErrorsCoolDown`, inductive on top of `TypeOK`.
- `MarkedAreGone`: `SoftDeletesAreSound`. `RowsInv` adds that rows and fetches are
  of messages already posted, and that, while rescan waits to write, a row that its
  fetch missed within the range (`Stale`) has no message: what a fetch of the newest
  takes is upward closed (`NewestIsUpper`), posts are above all rows, and no
  other step of the tick adds rows between that fetch and its write.
- `RescanLeavesRangeExact`: `RescanIsExact`, from `RowsInv` and the step, with
  whatever races: a message may vanish or be edited again between the fetch and the
  write. It is about the columns that rescan compares, for any `Look`.
- `RecordedWaitsAreKept`: `RecordedWaitIsKept`, if a prune never fails. `FloodInv`: while
  a recorded FloodWait lasts, the row has a cooldown as late, and no call is under way.
  So whatever clears a cooldown, a batch written or an error of a fetch, comes
  when the wait is over; the error of a prune is the exception, and
  section 5 shows what it does.
- `FloodWaitsAreKept`: `FloodWaitIsKept`, about every FloodWait that Telegram raises, if
  moreover each of them comes to be recorded. Both hypotheses are needed: a FloodWait
  whose `record_flood_wait` fails or never runs (`runtime.py:92-93`) is forgotten.

`SyncMirrorProofs`, for a chat, batch and window of any size.

- `PrunedNeverReturns`, `NothingBetweenCursorsIsLost`, `BackfillLeavesNothing`:
  `PrunedStaysGone`, `NoHoles` and `NothingLeftToFill`, under `OneHistory`: the
  policies may differ in their retention, not in their history. Without it they are
  not true: what a short history cut off, a longer one claims until backfill has been
  there. None of them is inductive. `MirrorInv`, checked by
  TLC on three retentions of one history before it was proved, says that
    - dates grow with ids, so a cutoff divides the chat in two (`ChatInv`);
    - each cutoff in use and each date that was pruned lies before now minus the history,
      since a retention is no shorter than the history (`CutoffInv`); this is why a
      fetch does not bring back what expired;
    - nothing alive is between `last` and a row above it, and a backfill under way is
      at or below `last` (`CursorInv`);
    - what is alive between the cursors is mirrored or pruned (`FilledInv`);
    - a fetch not yet written has all that is alive between its bounds, or down to
      the beginning if it is not full, and nothing that a write must not bring back
      (`StartInv`, `TailInv`, `BackfillInv`): messages vanish meanwhile or are
      posted above everything.

  Each write then moves the cursors over just what it writes.
- `DeepeningReachesBack`: `DeepeningResumes`, under `NoRetention`, for histories
  that change at will: the promise of README.md:268, which section 5 shows
  broken once retention prunes. `DeepInv`: a backfill under way goes on from a mirrored message,
  and where it ended each message within its cutoff has a row at or below it or is above
  all rows; a fetch not yet written leaves out what is below all of it, what has a row
  at or below it, or what was posted since. TLC checked `DeepInv` for three
  histories.

`TaggingProofs`

- `TypeCorrect`, with the foreign key of tags: a retag whose rows have vanished
  cannot commit.
- `HandTagsKept`, `MatchesTagged`: each inductive on top of `TypeOK`.
- `RetagLeavesItsRules`: `RetagIsExact`, a property of one step.

`WatchlistProofs`

- `TypeCorrect`: `TypeOK`. The hard part is the choice of a slug: files are finite, so
  of the numbered slugs one is free (a pigeonhole argument), and there is a first one
  (`SlugIsFree`).
- `EntriesDistinct`, `SendingAllowedByPeople`: from one invariant of what may get into
  the file: the file, and every version of it a resolver holds, is free of duplicates
  and allows sending only where people did; and what a resolver adds is new to the
  version it writes back, not to the file it overwrites.
- `NothingLost`: the file is what is due, or just one resolver writes, what it
  read was due, and the file is empty.
- `CitationsKept`: no two peers of the mirror have a slug in common, so that one
  registered slug means one peer, and `register_peer` never renames.

`AccountsProofs`

- `TypeCorrect`: `TypeOK`. `TypeInv` adds that whoever has opened a mirror has the path
  of one (`PathsOk`).
- `SyncsApart`: `AccountsAreApart`. `RunInv`: a command that runs has accounts of the
  settings yet to do, more than one only if they are named, and the settings
  have loaded; so two syncs with one lock are of one account.
- `MigrationsInOrder`: `SchemaIsWhole`, which alone is not inductive: a process
  migrates from a version it read before others went on. `SchemaInv` adds that this
  version (`base`) is never above that of the mirror. If it is below, the next
  migration has been applied and fails; if it is equal, the migration is the next
  one. It adds too that a process that is to write has a mirror with tables, to
  which no process ever goes back.
- `ExitCodesAreHonest`: `ExitIsHonest`. `WayInv`: what a command has yet to do is the
  end of its plan (`OnCourse`); each account before that has an outcome, the failure noted is the first
  of them, and a bug is noted just if one of them was (`Kept`).
- `MirrorsAreTheirOwn`: `OnlyItsMirror`. `RightsInv`: only a command that writes,
  and is no dry run, comes to migrate a mirror; the rest is in the guards of the writes.
- `FanoutShowsGlobalTop`: `FanoutIsGlobalTop`. Each mirror answers with the top of what it
  has. A message that the limit keeps in the whole is answered by its mirror: else
  as many earlier messages as the limit has places would come before it (`CutCuts`). Conversely the
  messages answered that come before it are among all those read; so both
  are the ascending sequence of one set, up to the limit (`BeginAlike`, `MergeIsTop`). `ReadsInv`:
  mirrors and answers stay finite.

Left to TLC: liveness (`PassEnds`, `BackfillCompletes`, `EveryPeerIsReached`), for
ENABLED and fairness are beyond the prover. All other properties of the passing runs
are theorems. Induction on numbers is used in the form of well-foundedness (every nonempty set of
naturals has a least member), since the provers cannot instantiate the induction theorems
of the library, which take an operator as parameter; for the same reason no
module has a recursive operator, and sorting is by rank.

## 5. What the violations show

1. `outbox_stale_list`. A sender's list is read once and a row's status is not
   read again, so two senders transmit the same row, or one transmits a row the
   other has closed as failed. README.md:295 and 335 say the sender transmits
   approved rows only. `DeliveryBound` and `NothingLeavesUnapproved` say what
   remains true.
2. `outbox_two_deciders`. `decide` checks outside of its transaction and ignores
   the row count of its update: two deciders both succeed, and the log holds an
   approval and a rejection. The row itself moves once.
3. `sync_deepen`. Rows that retention deleted above the old cutoff are not
   refetched when history and retention become longer, against README.md:268.
4. `sync_flood_erased`. A failing prune during a FloodWait makes `record_error`
   store no cooldown over the FloodWait's, and the next tick calls Telegram,
   against README.md:239-240. A FloodWait that is never recorded (`runtime.py:92-93`)
   has the same effect, without a cooldown to erase: TLC finds it when `Failing` is
   `{"unrecorded"}`.

Three more disagreements have no run of their own. `_rescan_diff` compares text, media
and `deleted_at` (`engine.py:330-340`): an edit that changes none of them, such as the
target of a link behind a word, which `--full` prints from `raw_json`, is fetched by
each rescan and never written, although README.md:239-242 says that rescan picks up
edits. `Look` models it, in `sync_edits` the edits of one message are of this kind, and
`RescanIsExact` promises no more than the compared columns. A message written
between the read and the delete of a `retag` loses its rule tags until the next
retag: `MatchesAreTagged` excludes exactly that case. And a fetch that raises
ends the tick of its peer before the prune (`runtime.py:75`), while README.md:271
says that retention applies on every sync.

## 6. Not modelled, and why

- Filters of queries, thread, digest, doctor, formatting, logging, argument parsing,
  secrets: reads and layout without state. Of the queries, only the order and the
  limit of search are modelled, which merging relies on; `_check_query` fails
  before any mirror is opened.
- The YAML of the watchlist and the settings, the parsing of links and handles, regular
  expressions: conversions of strings whose details no property here needs.
- Edits of the settings file while commands run, and `--session` or `--config` in place
  of an account's own: the lock and the watchlist are then those of the option, and the
  promise that accounts are apart is the user's to keep.
- Two resolvers that write `watchlist.yaml` at once: where the longer output's end follows
  the shorter one, `Watchlist` takes the file to be no YAML. That is an assumption: the
  two may by accident of their lengths leave YAML of mixed content, and
  nothing in section 4 speaks of such a file.
- FTS triggers: SQLite keeps them in the transaction of their row.
- Telethon and Telegram beyond: a call may be served, refused, or served and
  lost; messages come newest or oldest first.

## 7. Plan

Done of the first plan: the outbox, the sync engine, runs, tags, the watchlist, accounts
and migrations, and proofs of every safety property that the passing runs check. What is left:

1. An abstract specification of the mirror (a set of messages that is exact
   within history and retention whenever backfill rests) that `SyncEngine` implements.
2. Further questions met while modelling: the error counter also counts errors
   that a mere empty fetch separates (`engine.py:391`); the checks of `doctor`
   on cursors and stale peers (`query.py:178-188`); retention that is skipped on
   failing ticks; a hole above the oldest row after an outage, an early backfill
   and a deeper policy; a hand tag that a rule relabels and a later retag deletes.
