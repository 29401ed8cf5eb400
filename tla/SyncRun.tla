------------------------------ MODULE SyncRun -------------------------------
(***************************************************************************)
(* Whole runs of `tgq sync`: one-shot processes that a timer starts and    *)
(* processes in --loop, the flock they contend for, the Telegram session   *)
(* they share, and the walk over the peers of the watchlist.  What a tick  *)
(* does inside the mirror is in SyncEngine; here it skips a peer or calls  *)
(* for it.                                                                 *)
(*                                                                         *)
(* Timestamps are kept as ages that stop at the bound the code compares    *)
(* them with, and delays as countdowns, so time itself needs no bound.     *)
(***************************************************************************)
EXTENDS Integers, FiniteSets

CONSTANTS
    Procs,      \* processes that may run `tgq sync`
    Loops,      \* those that run with --loop
    NumPeers,   \* peers of the watchlist, in its order
    Floor,      \* seconds between two incremental writes of a peer (60)
    Interval,   \* the --interval asked for
    MinDelay,   \* least delay of a loop (60)
    CoolTime,   \* length of a cooldown
    MaxFaults,  \* bound: runs that fail
    Nobody      \* holder of a free lock

ASSUME RunConstants ==
    /\ Loops \subseteq Procs
    /\ Nobody \notin Procs
    /\ {NumPeers, Floor, MinDelay, CoolTime} \subseteq Nat \ {0}
    /\ Interval \in Nat
    /\ MaxFaults \in Nat

ASSUME ProcsAreFinite == IsFiniteSet(Procs)

Peers == 1 .. NumPeers
Delay == IF Interval > MinDelay THEN Interval ELSE MinDelay

(* "leaving" is the way out of a run that succeeded, "failing" of one that an
   exception ends; both disconnect. *)
Steps == {"idle", "locking", "connecting", "registering", "ticking", "calling",
          "sleeping", "leaving", "failing", "pausing"}

VARIABLES
    renamed,    \* peers of the watchlist whose slug the database knows otherwise
    lock,       \* holder of sync.lock
    connected,  \* processes with an open Telegram session
    pc,         \* where each process is
    at,         \* the peer it is at
    pause,      \* what is left of its pause
    age,        \* seconds since last_synced_at of each peer, up to Floor
    cooldown,   \* what is left of each peer's cooldown
    faults      \* failed runs so far

procs == <<pc, at, pause>>
times == <<age, cooldown>>
vars  == <<renamed, lock, connected, procs, times, faults>>

TypeOK ==
    /\ renamed \subseteq Peers
    /\ lock \in Procs \cup {Nobody}
    /\ connected \subseteq Procs
    /\ pc \in [Procs -> Steps]
    /\ at \in [Procs -> Peers]
    /\ pause \in [Procs -> 0 .. Delay]
    /\ age \in [Peers -> 0 .. Floor]
    /\ cooldown \in [Peers -> 0 .. CoolTime]
    /\ faults \in 0 .. MaxFaults

Init ==
    /\ renamed \in SUBSET Peers
    /\ lock = Nobody
    /\ connected = {}
    /\ pc = [p \in Procs |-> "idle"]
    /\ at = [p \in Procs |-> 1]
    /\ pause = [p \in Procs |-> 0]
    /\ age = [k \in Peers |-> Floor]
    /\ cooldown = [k \in Peers |-> 0]
    /\ faults = 0

-----------------------------------------------------------------------------
(* The actions.  A definition named Operator_Mistake is a mutant of Operator:
   the runs must tell the two apart. *)

Less(n) == IF n > 0 THEN n - 1 ELSE 0

Tick ==
    /\ age' = [k \in Peers |-> IF age[k] < Floor THEN age[k] + 1 ELSE Floor]
    /\ cooldown' = [k \in Peers |-> Less(cooldown[k])]
    /\ pause' = [p \in Procs |-> Less(pause[p])]
    /\ UNCHANGED <<renamed, lock, connected, pc, at, faults>>

Goto(p, step) == pc' = [pc EXCEPT ![p] = step]

Fault == faults < MaxFaults /\ faults' = faults + 1

(* A timer or a person starts the command. *)
Launch(p) ==
    /\ pc[p] = "idle"
    /\ Goto(p, "locking")
    /\ UNCHANGED <<renamed, lock, connected, at, pause, times, faults>>

TakeLock_Anyway(p) ==
    /\ pc[p] = "locking"
    /\ lock' = p
    /\ Goto(p, "connecting")
    /\ UNCHANGED <<renamed, connected, at, pause, times, faults>>

(* The flock is not waited for. *)
TakeLock(p) ==
    /\ pc[p] = "locking"
    /\ lock = Nobody
    /\ lock' = p
    /\ Goto(p, "connecting")
    /\ UNCHANGED <<renamed, connected, at, pause, times, faults>>

(* Another run holds the lock: the process logs it and exits with 0. *)
SkipRun(p) ==
    /\ pc[p] = "locking"
    /\ lock # Nobody
    /\ Goto(p, "idle")
    /\ UNCHANGED <<renamed, lock, connected, at, pause, times, faults>>

Connect(p) ==
    /\ pc[p] = "connecting"
    /\ connected' = connected \cup {p}
    /\ at' = [at EXCEPT ![p] = 1]
    /\ Goto(p, "registering")
    /\ UNCHANGED <<renamed, lock, pause, times, faults>>

(* Credentials, session or network: the run ends and so does a loop. *)
ConnectFails(p) ==
    /\ Fault
    /\ pc[p] = "connecting"
    /\ lock' = Nobody
    /\ Goto(p, "idle")
    /\ UNCHANGED <<renamed, connected, at, pause, times>>

(* register_peer refuses a peer whose slug was changed, outside of the try
   block: its exception ends the run for the peers after it. *)
Register(p) ==
    /\ pc[p] = "registering"
    /\ Goto(p, IF at[p] \in renamed THEN "failing" ELSE "ticking")
    /\ UNCHANGED <<renamed, lock, connected, at, pause, times, faults>>

Cooling(k) == cooldown[k] > 0

(* A peer is left alone in a cooldown.  Right after a write only incremental
   skips it, and backfill and rescan may have nothing to do. *)
SkipPeer(p) ==
    /\ pc[p] = "ticking"
    /\ Cooling(at[p]) \/ age[at[p]] < Floor
    /\ Goto(p, "sleeping")
    /\ UNCHANGED <<renamed, lock, connected, at, pause, times, faults>>

(* Prune runs for a skipped peer too; its failure stores another cooldown. *)
PruneErrs(p) ==
    /\ pc[p] = "ticking"
    /\ \E c \in {0, CoolTime} : cooldown' = [cooldown EXCEPT ![at[p]] = c]
    /\ Goto(p, "sleeping")
    /\ UNCHANGED <<renamed, lock, connected, at, pause, age, faults>>

Call(p) ==
    /\ pc[p] = "ticking"
    /\ ~Cooling(at[p])
    /\ Goto(p, "calling")
    /\ UNCHANGED <<renamed, lock, connected, at, pause, times, faults>>

Answered_ErrorEndsRun(p) ==
    /\ pc[p] = "calling"
    /\ UNCHANGED times
    /\ Goto(p, "sleeping") \/ Goto(p, "failing")
    /\ UNCHANGED <<renamed, lock, connected, at, pause, faults>>

(* The three steps of the tick write something or nothing, and then a FloodWait
   or one error of many may store a cooldown.  The exception of one peer does
   not end the run. *)
Answered(p) ==
    /\ pc[p] = "calling"
    /\ \E a \in {age[at[p]], 0}, c \in {0, CoolTime} :
          /\ age' = [age EXCEPT ![at[p]] = a]
          /\ cooldown' = [cooldown EXCEPT ![at[p]] = c]
    /\ Goto(p, "sleeping")
    /\ UNCHANGED <<renamed, lock, connected, at, pause, faults>>

(* The database stays locked for register_peer, or for the record of a failure:
   an exception outside of the try block. *)
RunFails(p) ==
    /\ Fault
    /\ pc[p] \in {"registering", "calling"}
    /\ Goto(p, "failing")
    /\ UNCHANGED <<renamed, lock, connected, at, pause, times>>

NextPeer(p) ==
    /\ pc[p] = "sleeping"
    /\ \/ /\ at[p] < NumPeers
          /\ at' = [at EXCEPT ![p] = @ + 1]
          /\ Goto(p, "registering")
       \/ /\ at[p] = NumPeers
          /\ Goto(p, "leaving")
          /\ UNCHANGED at
    /\ UNCHANGED <<renamed, lock, connected, pause, times, faults>>

Disconnect_Kept(p) == UNCHANGED connected

Disconnect(p) == connected' = connected \ {p}

Exit_KeepsLock(p) ==
    /\ \/ pc[p] = "failing"
       \/ pc[p] = "leaving" /\ p \notin Loops
    /\ Disconnect(p)
    /\ Goto(p, "idle")
    /\ UNCHANGED <<renamed, lock, at, pause, times, faults>>

(* The end of a one-shot run, and of any run that fails. *)
Exit(p) ==
    /\ \/ pc[p] = "failing"
       \/ pc[p] = "leaving" /\ p \notin Loops
    /\ Disconnect(p)
    /\ lock' = Nobody
    /\ Goto(p, "idle")
    /\ UNCHANGED <<renamed, at, pause, times, faults>>

(* A loop keeps the lock and pauses, without a session. *)
Pause(p) ==
    /\ pc[p] = "leaving"
    /\ p \in Loops
    /\ Disconnect(p)
    /\ pause' = [pause EXCEPT ![p] = Delay]
    /\ Goto(p, "pausing")
    /\ UNCHANGED <<renamed, lock, at, times, faults>>

Resume(p) ==
    /\ pc[p] = "pausing"
    /\ pause[p] = 0
    /\ Goto(p, "connecting")
    /\ UNCHANGED <<renamed, lock, connected, at, pause, times, faults>>

(* The kernel closes the descriptors of a process that is killed. *)
Crash(p) ==
    /\ Fault
    /\ pc[p] # "idle"
    /\ Disconnect(p)
    /\ lock' = IF lock = p THEN Nobody ELSE lock
    /\ pause' = [pause EXCEPT ![p] = 0]
    /\ Goto(p, "idle")
    /\ UNCHANGED <<renamed, at, times>>

-----------------------------------------------------------------------------

Step(p) ==
    \/ TakeLock(p) \/ SkipRun(p)
    \/ Connect(p) \/ Register(p)
    \/ SkipPeer(p) \/ Call(p) \/ Answered(p)
    \/ NextPeer(p) \/ Exit(p) \/ Pause(p) \/ Resume(p)

Next ==
    \/ Tick
    \/ \E p \in Procs : \/ Launch(p) \/ Step(p) \/ PruneErrs(p)
                        \/ ConnectFails(p) \/ RunFails(p) \/ Crash(p)

Spec == Init /\ [][Next]_vars

(* The clock runs, timers start their process again, and a process that is
   started makes its steps: each call is answered or raises. *)
FairSpec ==
    /\ Spec
    /\ WF_vars(Tick)
    /\ \A p \in Procs : WF_vars(Launch(p)) /\ WF_vars(Step(p))

-----------------------------------------------------------------------------
(* Properties *)

(* Two syncs never use the session at the same time, nor does one use it
   without the lock (sync/lock.py, cli/main.py:581-591). *)
SessionNeedsLock == \A p \in connected : lock = p

(* Between runs the session is free for resolve and the sender: a process that
   has ended or pauses has closed it (README.md:236: "so the session is released
   between runs"; runtime.py:113-114 and 157-161). *)
SessionIsReleased == \A p \in connected : pc[p] \notin {"idle", "locking", "pausing"}

(* The lock is held by a run that can still give it back. *)
LockIsNotLeaked == lock # Nobody => pc[lock] \notin {"idle", "locking"}

(* Each peer before the first that register_peer refuses is reached again and
   again, whatever the peers before it answer (the try block, runtime.py:70-111). *)
EveryPeerIsReached ==
    \A k \in Peers :
        (\A r \in renamed : k < r) =>
            []<>(\E p \in Procs : pc[p] = "ticking" /\ at[p] = k)

=============================================================================
