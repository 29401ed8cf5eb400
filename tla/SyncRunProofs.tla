---------------------------- MODULE SyncRunProofs ---------------------------
(***************************************************************************)
(* What holds of the runs of sync for any number of processes, loops and   *)
(* peers: the types, and who holds the lock and the session.  The          *)
(* inductive invariant says where in its run each holder is.               *)
(***************************************************************************)
EXTENDS SyncRun, TLAPS

USE RunConstants

LEMMA DelayIsNatural == Delay \in Nat
  BY DEF Delay

LEMMA TypeInit == Init => TypeOK
  BY DelayIsNatural DEF Init, TypeOK, Peers, Steps

LEMMA TypeStep == TypeOK /\ [Next]_vars => TypeOK'
<1> SUFFICES ASSUME TypeOK, [Next]_vars PROVE TypeOK'
  OBVIOUS
<1> USE DEF TypeOK, times, Goto
<1>1. CASE Tick
  <2>1. age' \in [Peers -> 0 .. Floor]
    BY <1>1 DEF Tick
  <2>2. cooldown' \in [Peers -> 0 .. CoolTime]
    BY <1>1 DEF Tick, Less
  <2>3. pause' \in [Procs -> 0 .. Delay]
    BY <1>1, DelayIsNatural DEF Tick, Less
  <2> QED
    BY <1>1, <2>1, <2>2, <2>3 DEF Tick
<1>2. ASSUME NEW p \in Procs, Launch(p) PROVE TypeOK'
  BY <1>2 DEF Launch, Steps
<1>3. ASSUME NEW p \in Procs, TakeLock(p) PROVE TypeOK'
  BY <1>3 DEF TakeLock, Steps
<1>4. ASSUME NEW p \in Procs, SkipRun(p) PROVE TypeOK'
  BY <1>4 DEF SkipRun, Steps
<1>5. ASSUME NEW p \in Procs, Connect(p) PROVE TypeOK'
  BY <1>5 DEF Connect, Steps, Peers
<1>6. ASSUME NEW p \in Procs, Register(p) PROVE TypeOK'
  BY <1>6 DEF Register, Steps
<1>7. ASSUME NEW p \in Procs, SkipPeer(p) PROVE TypeOK'
  BY <1>7 DEF SkipPeer, Steps
<1>8. ASSUME NEW p \in Procs, Call(p) PROVE TypeOK'
  BY <1>8 DEF Call, Steps
<1>9. ASSUME NEW p \in Procs, Answered(p) PROVE TypeOK'
  <2>1. age' \in [Peers -> 0 .. Floor] /\ cooldown' \in [Peers -> 0 .. CoolTime]
    BY <1>9 DEF Answered
  <2> QED
    BY <1>9, <2>1 DEF Answered, Steps
<1>10. ASSUME NEW p \in Procs, NextPeer(p) PROVE TypeOK'
  <2>1. at' \in [Procs -> Peers]
    <3>1. CASE at[p] < NumPeers
      <4>1. at[p] + 1 \in Peers
        BY <3>1 DEF Peers
      <4> QED
        BY <1>10, <3>1, <4>1 DEF NextPeer
    <3>2. CASE UNCHANGED at
      BY <3>2
    <3> QED
      BY <1>10, <3>1, <3>2 DEF NextPeer
  <2>2. pc' \in [Procs -> Steps]
    BY <1>10 DEF NextPeer, Steps
  <2> QED
    BY <1>10, <2>1, <2>2 DEF NextPeer
<1>11. ASSUME NEW p \in Procs, Exit(p) PROVE TypeOK'
  BY <1>11 DEF Exit, Disconnect, Steps
<1>12. ASSUME NEW p \in Procs, Pause(p) PROVE TypeOK'
  BY <1>12, DelayIsNatural DEF Pause, Disconnect, Steps
<1>13. ASSUME NEW p \in Procs, Resume(p) PROVE TypeOK'
  BY <1>13 DEF Resume, Steps
<1>14. ASSUME NEW p \in Procs, ConnectFails(p) PROVE TypeOK'
  BY <1>14 DEF ConnectFails, Fault, Steps
<1>15. ASSUME NEW p \in Procs, RunFails(p) PROVE TypeOK'
  BY <1>15 DEF RunFails, Fault, Steps
<1>16. ASSUME NEW p \in Procs, Crash(p) PROVE TypeOK'
  BY <1>16, DelayIsNatural DEF Crash, Disconnect, Fault, Steps
<1>17. ASSUME NEW p \in Procs, PruneErrs(p) PROVE TypeOK'
  BY <1>17 DEF PruneErrs, Steps
<1>18. CASE UNCHANGED vars
  BY <1>18 DEF vars, procs
<1> QED
  BY <1>1, <1>2, <1>3, <1>4, <1>5, <1>6, <1>7, <1>8, <1>9, <1>10, <1>11, <1>12, <1>13,
     <1>14, <1>15, <1>16, <1>18, <1>17 DEF Next, Step

(* Every variable keeps its type: no walk leaves the watchlist, no age or
   countdown leaves its range. *)
THEOREM TypeCorrect == Spec => []TypeOK
  BY TypeInit, TypeStep, PTL DEF Spec

-----------------------------------------------------------------------------
(* The lock and the session *)

(* A process holds the lock exactly from the flock to its exit ... *)
HoldersRun == \A p \in Procs : lock = p <=> pc[p] \notin {"idle", "locking"}

(* ... and a session from its connection to the end of a walk. *)
SessionsWalk ==
    \A p \in connected : pc[p] \notin {"idle", "locking", "connecting", "pausing"}

IInv == HoldersRun /\ SessionsWalk

LEMMA IInvInit == Init => IInv
  BY DEF Init, IInv, HoldersRun, SessionsWalk

LEMMA IInvStep == TypeOK /\ IInv /\ [Next]_vars => IInv'
<1> SUFFICES ASSUME TypeOK, IInv, [Next]_vars PROVE IInv'
  OBVIOUS
<1> USE DEF TypeOK, IInv, HoldersRun, SessionsWalk, Goto
<1>1. CASE Tick
  BY <1>1 DEF Tick
<1>2. ASSUME NEW p \in Procs, Launch(p) PROVE IInv'
  BY <1>2 DEF Launch
<1>3. ASSUME NEW p \in Procs, TakeLock(p) PROVE IInv'
  BY <1>3 DEF TakeLock
<1>4. ASSUME NEW p \in Procs, SkipRun(p) PROVE IInv'
  BY <1>4 DEF SkipRun
<1>5. ASSUME NEW p \in Procs, Connect(p) PROVE IInv'
  BY <1>5 DEF Connect
<1>6. ASSUME NEW p \in Procs, Register(p) PROVE IInv'
  BY <1>6 DEF Register
<1>7. ASSUME NEW p \in Procs, SkipPeer(p) \/ PruneErrs(p) \/ Call(p) PROVE IInv'
  BY <1>7 DEF SkipPeer, PruneErrs, Call
<1>8. ASSUME NEW p \in Procs, Answered(p) PROVE IInv'
  BY <1>8 DEF Answered
<1>9. ASSUME NEW p \in Procs, NextPeer(p) PROVE IInv'
  BY <1>9 DEF NextPeer
<1>10. ASSUME NEW p \in Procs, Exit(p) PROVE IInv'
  BY <1>10 DEF Exit, Disconnect
<1>11. ASSUME NEW p \in Procs, Pause(p) PROVE IInv'
  BY <1>11 DEF Pause, Disconnect
<1>12. ASSUME NEW p \in Procs, Resume(p) PROVE IInv'
  BY <1>12 DEF Resume
<1>13. ASSUME NEW p \in Procs, ConnectFails(p) PROVE IInv'
  BY <1>13 DEF ConnectFails
<1>14. ASSUME NEW p \in Procs, RunFails(p) PROVE IInv'
  BY <1>14 DEF RunFails
<1>15. ASSUME NEW p \in Procs, Crash(p) PROVE IInv'
  BY <1>15 DEF Crash, Disconnect
<1>16. CASE UNCHANGED vars
  BY <1>16 DEF vars, procs
<1> QED
  BY <1>1, <1>2, <1>3, <1>4, <1>5, <1>6, <1>7, <1>8, <1>9, <1>10, <1>11, <1>12, <1>13,
     <1>14, <1>15, <1>16 DEF Next, Step

LEMMA IInvAlways == Spec => []IInv
  BY IInvInit, IInvStep, TypeCorrect, PTL DEF Spec

(* For any number of processes: a session is used by the holder of the lock only,
   so never by two syncs at once. *)
THEOREM SessionIsLocked == Spec => []SessionNeedsLock
<1>1. TypeOK /\ IInv => SessionNeedsLock
  BY DEF TypeOK, IInv, HoldersRun, SessionsWalk, SessionNeedsLock
<1> QED
  BY <1>1, TypeCorrect, IInvAlways, PTL

(* A process that has ended, waits for the lock or pauses has closed its
   session, whatever ended its walk. *)
THEOREM SessionReleased == Spec => []SessionIsReleased
<1>1. IInv => SessionIsReleased
  BY DEF IInv, SessionsWalk, SessionIsReleased
<1> QED
  BY <1>1, IInvAlways, PTL

(* Nothing that ends a run leaves the lock behind. *)
THEOREM LockReleased == Spec => []LockIsNotLeaked
<1>1. TypeOK /\ IInv => LockIsNotLeaked
  BY DEF TypeOK, IInv, HoldersRun, LockIsNotLeaked
<1> QED
  BY <1>1, TypeCorrect, IInvAlways, PTL

=============================================================================
