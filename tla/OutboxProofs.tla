---------------------------- MODULE OutboxProofs ----------------------------
(***************************************************************************)
(* What holds of the outbox for any number of peers, rows, CLI processes   *)
(* and senders, any limits and any clock: the types, that only approved    *)
(* rows leave, and that the outbox implements Egress.                      *)
(***************************************************************************)
EXTENDS Outbox, TLAPS

USE LimitsArePositive, BoundsAreNaturals, GlobalIsNoPeer

(* An hour of the clock is a window of the rate table. *)
LEMMA HourOfNow == \A t \in Times : Hour(t) \in Hours
  BY DEF Hours

(* UPDATE ... WHERE status = from keeps the column's type. *)
LEMMA MovedType ==
  ASSUME status \in [Items -> Statuses], NEW i \in Items,
         NEW from \in Statuses, NEW to \in Statuses
  PROVE  Moved(i, from, to) \in [Items -> Statuses]
  BY DEF Moved

(* An audit row keeps the counters natural. *)
LEMMA AuditedType ==
  ASSUME audit \in [AuditActions -> [Items -> Nat]],
         NEW a \in AuditActions, NEW i \in Items
  PROVE  Audited(a, i) \in [AuditActions -> [Items -> Nat]]
  BY DEF Audited

(* Charging a send keeps the counters natural. *)
LEMMA ChargedType ==
  ASSUME rate \in [Scopes -> [Hours -> Nat]], now \in Times, NEW i \in Items
  PROVE  Charged(i) \in [Scopes -> [Hours -> Nat]]
<1>1. Hour(now) \in Hours
  BY HourOfNow
<1>2. ASSUME NEW sc \in Scopes
      PROVE  [rate[sc] EXCEPT ![Hour(now)] = @ + 1] \in [Hours -> Nat]
  BY <1>1, <1>2
<1> QED
  BY <1>2 DEF Charged

-----------------------------------------------------------------------------
(* Types *)

(* A step keeps every variable in its type. *)
LEMMA TypeStep == TypeOK /\ [Next]_vars => TypeOK'
<1> SUFFICES ASSUME TypeOK, [Next]_vars PROVE TypeOK'
  OBVIOUS
<1> USE DEF TypeOK
<1>1. CASE UNCHANGED vars
  BY <1>1 DEF vars, config, rows, passes
<1>2. CASE Environment
  <2>1. CASE Tick
    BY <2>1 DEF Tick, Times, config, rows, passes
  <2>2. CASE EditAllowSend
    BY <2>2 DEF EditAllowSend, Edit, rows, passes
  <2>3. CASE \E p \in Peers : RegisterPeer(p)
    BY <2>3 DEF RegisterPeer, Edit, rows, passes
  <2> QED
    BY <1>2, <2>1, <2>2, <2>3 DEF Environment
<1>3. ASSUME NEW c \in Clients, ClientStep(c) PROVE TypeOK'
  <2>1. ASSUME NEW p \in Peers, EnqueueCheck(c, p) PROVE TypeOK'
    BY <2>1 DEF EnqueueCheck, Requests, config, rows, passes
  <2>2. ASSUME NEW i \in Items, EnqueueCommit(c, i) PROVE TypeOK'
    <3>1. client[c].peer \in Peers
      BY <2>2 DEF EnqueueCommit, Requests, Idle
    <3>2. audit' \in [AuditActions -> [Items -> Nat]]
      BY <2>2, AuditedType DEF EnqueueCommit, AuditActions
    <3>3. status' \in [Items -> Statuses] /\ peerOf' \in [Items -> Peers \cup {"none"}]
      BY <2>2, <3>1 DEF EnqueueCommit, Statuses
    <3> QED
      BY <2>2, <3>2, <3>3 DEF EnqueueCommit, config, passes
  <2>3. ASSUME NEW i \in Items, NEW d \in Decisions, DecideCheck(c, i, d) PROVE TypeOK'
    BY <2>3 DEF DecideCheck, Requests, config, rows, passes
  <2>4. CASE DecideCommit(c)
    <3>1. client[c].item \in Items /\ client[c].decision \in Decisions
      BY <2>4 DEF DecideCommit, Requests, Idle
    <3>2. status' \in [Items -> Statuses]
      BY <2>4, <3>1, MovedType DEF DecideCommit, Decisions, Statuses
    <3>3. audit' \in [AuditActions -> [Items -> Nat]]
      BY <2>4, <3>1, AuditedType DEF DecideCommit, Decisions, AuditActions
    <3> QED
      BY <2>4, <3>2, <3>3 DEF DecideCommit, config, passes
  <2>5. CASE ClientLeaves(c)
    BY <2>5 DEF ClientLeaves, config, rows, passes
  <2> QED
    BY <1>3, <2>1, <2>2, <2>3, <2>4, <2>5 DEF ClientStep
<1>4. ASSUME NEW s \in Senders, SenderStart(s) \/ StartFails(s) \/ ListApproved(s)
                                \/ MarkSentErrs(s) \/ Finish(s)
      PROVE  TypeOK'
  BY <1>4 DEF SenderStart, StartFails, ListApproved, MarkSentErrs, Finish, Goto,
              SenderStates, config, rows
<1>5. ASSUME NEW s \in Senders, NEW i \in Items,
             Validate(s, i) \/ Deny(s, i) \/ ValidateErrs(s, i)
      PROVE  TypeOK'
  BY <1>5 DEF Validate, Deny, ValidateErrs, Goto, SenderStates, config, rows
<1>6. ASSUME NEW s \in Senders, NEW i \in Items, SendReturns(s, i) \/ SendRaises(s, i)
      PROVE  TypeOK'
  <2>1. delivered' \in [Items -> Nat]
    BY <1>6 DEF SendReturns, SendRaises, Accepted
  <2>2. pc' \in [Senders -> SenderStates]
    BY <1>6 DEF SendReturns, SendRaises, Goto, SenderStates
  <2> QED
    BY <1>6, <2>1, <2>2 DEF SendReturns, SendRaises, config, rows
<1>7. ASSUME NEW s \in Senders, NEW i \in Items, MarkSent(s, i) PROVE TypeOK'
  <2>1. status' \in [Items -> Statuses]
    BY <1>7, MovedType DEF MarkSent, Statuses
  <2>2. sentAt' \in [Items -> Times] /\ rate' \in [Scopes -> [Hours -> Nat]]
    BY <1>7, ChargedType DEF MarkSent
  <2>3. audit' \in [AuditActions -> [Items -> Nat]]
    BY <1>7, AuditedType DEF MarkSent, AuditActions
  <2>4. pc' \in [Senders -> SenderStates] /\ batch' \in [Senders -> SUBSET Items]
    BY <1>7 DEF MarkSent, Goto, Done, SenderStates
  <2> QED
    BY <1>7, <2>1, <2>2, <2>3, <2>4 DEF MarkSent, config
<1>8. ASSUME NEW s \in Senders, NEW i \in Items, MarkFailed(s, i) PROVE TypeOK'
  <2>1. status' \in [Items -> Statuses]
    BY <1>8, MovedType DEF MarkFailed, Statuses
  <2>2. audit' \in [AuditActions -> [Items -> Nat]]
    BY <1>8, AuditedType DEF MarkFailed, AuditActions
  <2>3. pc' \in [Senders -> SenderStates] /\ batch' \in [Senders -> SUBSET Items]
    BY <1>8 DEF MarkFailed, Goto, Done, SenderStates
  <2> QED
    BY <1>8, <2>1, <2>2, <2>3 DEF MarkFailed, config
<1>9. ASSUME NEW s \in Senders, MarkFailedErrs(s) \/ Crash(s) PROVE TypeOK'
  <2>1. PassDies(s) /\ delivered' \in [Items -> Nat]
    BY <1>9 DEF MarkFailedErrs, Crash, Accepted
  <2> QED
    BY <2>1 DEF PassDies, Goto, SenderStates, config, rows
<1> QED
  BY <1>1, <1>2, <1>3, <1>4, <1>5, <1>6, <1>7, <1>8, <1>9 DEF Next, PassStep, PassFault

(* Every variable keeps its type, whatever the bounds and limits. *)
THEOREM TypeCorrect == Spec => []TypeOK
<1>1. Init => TypeOK
  BY HourOfNow DEF Init, TypeOK, Times, Statuses, SenderStates
<1> QED
  BY <1>1, TypeStep, PTL DEF Spec

-----------------------------------------------------------------------------
(* Nothing leaves unapproved *)

(* The row a sender holds is the only next one of its list. *)
LEMMA NextIsUnique ==
  ASSUME TypeOK, NEW s \in Senders, NEW i \in Items, NEW j \in Items,
         IsNext(s, i), IsNext(s, j)
  PROVE  i = j
  BY DEF IsNext, Items

(* A conditional update never takes a cleared row out of Cleared, and it puts
   a row there only if it was pending or approved before. *)
LEMMA MovedKeepsCleared ==
  ASSUME status \in [Items -> Statuses], NEW i \in Items, NEW j \in Items,
         NEW from \in {"pending", "approved"}, NEW to \in Statuses,
         from = "approved" => to \in Cleared,
         status[j] \in Cleared
  PROVE  Moved(i, from, to)[j] \in Cleared
  BY DEF Moved, Cleared, Statuses

(* A step that leaves status, audit and the Telegram side alone, adds no row to
   a list and claims no returned call, keeps the invariant. *)
LEMMA EgressInvFrame ==
  ASSUME TypeOK, EgressInv,
         UNCHANGED <<status, audit, delivered>>,
         \A s \in Senders : \/ batch'[s] = batch[s] /\ (pc'[s] = "sent" => pc[s] = "sent")
                            \/ batch'[s] \subseteq batch[s] /\ pc'[s] # "sent"
  PROVE  EgressInv'
<1>1. ApprovalsAudited' /\ SendsAreCleared'
  BY DEF EgressInv, ApprovalsAudited, SendsAreCleared
<1>2. ListsAreCleared'
  BY DEF EgressInv, ListsAreCleared
<1>3. CallsPrecedeRecords'
  BY DEF EgressInv, CallsPrecedeRecords, IsNext
<1> QED
  BY <1>1, <1>2, <1>3 DEF EgressInv

(* Every step keeps the invariant. *)
LEMMA EgressInvStep == TypeOK /\ EgressInv /\ [Next]_vars => EgressInv'
<1> SUFFICES ASSUME TypeOK, EgressInv, [Next]_vars PROVE EgressInv'
  OBVIOUS
<1>1. CASE UNCHANGED vars
  BY <1>1, EgressInvFrame DEF vars, rows, passes
<1>2. CASE Environment
  BY <1>2, EgressInvFrame
  DEF Environment, Tick, EditAllowSend, RegisterPeer, config, rows, passes
<1>3. ASSUME NEW c \in Clients, ClientStep(c) PROVE EgressInv'
  <2>1. ASSUME ClientLeaves(c) \/ (\E p \in Peers : EnqueueCheck(c, p))
                 \/ (\E i \in Items, d \in Decisions : DecideCheck(c, i, d))
        PROVE  EgressInv'
    BY <2>1, EgressInvFrame DEF ClientLeaves, EnqueueCheck, DecideCheck, rows, passes
  <2>2. ASSUME NEW i \in Items, EnqueueCommit(c, i) PROVE EgressInv'
    <3>1. \A j \in Items : status'[j] \in Cleared <=> status[j] \in Cleared
      BY <2>2 DEF EnqueueCommit, TypeOK, Cleared
    <3>2. \A j \in Items : audit'["approved"][j] = audit["approved"][j]
      BY <2>2 DEF EnqueueCommit, Audited, TypeOK, AuditActions
    <3> QED
      BY <2>2, <3>1, <3>2
      DEF EnqueueCommit, passes, TypeOK, EgressInv, ApprovalsAudited, ListsAreCleared,
          SendsAreCleared, CallsPrecedeRecords, IsNext
  <2>3. CASE DecideCommit(c)
    <3> DEFINE item == client[c].item
    <3> DEFINE d == client[c].decision
    <3>1. item \in Items /\ d \in Decisions
      BY <2>3 DEF DecideCommit, TypeOK, Requests, Idle
    <3>2. \A j \in Items : status[j] \in Cleared => status'[j] \in Cleared
      BY <2>3, <3>1, MovedKeepsCleared DEF DecideCommit, TypeOK, Decisions, Statuses
    <3>3. \A j \in Items : audit["approved"][j] > 0 => audit'["approved"][j] > 0
      BY <2>3, <3>1 DEF DecideCommit, Audited, TypeOK, AuditActions, Decisions
    <3>4. \A j \in Items : status'[j] \in Cleared =>
             status[j] \in Cleared \/ (j = item /\ d = "approved")
      <4>1. status' \in {status, [status EXCEPT ![item] = d]}
        BY <2>3 DEF DecideCommit, Moved
      <4>2. status \in [Items -> Statuses]
        BY DEF TypeOK
      <4> QED
        BY <3>1, <4>1, <4>2 DEF Decisions, Cleared
    <3>5. d = "approved" => audit'["approved"][item] > 0
      BY <2>3, <3>1 DEF DecideCommit, Audited, TypeOK, AuditActions
    <3>6. ApprovalsAudited'
      BY <3>1, <3>3, <3>4, <3>5 DEF EgressInv, ApprovalsAudited
    <3> QED
      BY <2>3, <3>2, <3>6
      DEF DecideCommit, passes, TypeOK, EgressInv, ListsAreCleared, SendsAreCleared,
          CallsPrecedeRecords, IsNext
  <2> QED
    BY <1>3, <2>1, <2>2, <2>3 DEF ClientStep
<1>4. ASSUME NEW s \in Senders, SenderStart(s) \/ StartFails(s) \/ MarkSentErrs(s)
                                \/ Finish(s) \/ MarkFailedErrs(s)
      PROVE  EgressInv'
  BY <1>4, EgressInvFrame
  DEF SenderStart, StartFails, MarkSentErrs, Finish, MarkFailedErrs, PassDies, Goto,
      rows, TypeOK
<1>5. ASSUME NEW s \in Senders, ListApproved(s) PROVE EgressInv'
  <2>1. \A r \in Senders : r # s => batch'[r] = batch[r] /\ pc'[r] = pc[r]
    BY <1>5 DEF ListApproved, Goto, TypeOK
  <2>2. pc'[s] = "looping" /\ \A i \in batch'[s] : status[i] \in Cleared
    BY <1>5 DEF ListApproved, Goto, TypeOK, Cleared
  <2>3. ListsAreCleared'
    BY <1>5, <2>1, <2>2 DEF ListApproved, rows, EgressInv, ListsAreCleared
  <2>4. CallsPrecedeRecords'
    BY <1>5, <2>1, <2>2 DEF ListApproved, EgressInv, CallsPrecedeRecords, IsNext
  <2> QED
    BY <1>5, <2>3, <2>4
    DEF ListApproved, rows, EgressInv, ApprovalsAudited, SendsAreCleared
<1>6. ASSUME NEW s \in Senders, NEW i \in Items,
             Validate(s, i) \/ Deny(s, i) \/ ValidateErrs(s, i)
      PROVE  EgressInv'
  BY <1>6, EgressInvFrame DEF Validate, Deny, ValidateErrs, Goto, rows, TypeOK
<1>7. ASSUME NEW s \in Senders, NEW i \in Items, IsNext(s, i), Accepted(i),
             UNCHANGED rows, UNCHANGED batch \/ batch' = [batch EXCEPT ![s] = {}],
             \E state \in {"sent", "erred", "idle"} : Goto(s, state)
      PROVE  EgressInv'
  <2>1. status[i] \in Cleared
    BY <1>7 DEF IsNext, EgressInv, ListsAreCleared
  <2>2. /\ delivered'[i] > 0
        /\ \A j \in Items : j # i => delivered'[j] = delivered[j]
    BY <1>7 DEF Accepted, TypeOK
  <2>3. ApprovalsAudited' /\ SendsAreCleared'
    BY <1>7, <2>1, <2>2 DEF rows, EgressInv, ApprovalsAudited, SendsAreCleared
  <2>4. \A r \in Senders : /\ batch'[r] \in {batch[r], {}}
                           /\ r # s => batch'[r] = batch[r] /\ pc'[r] = pc[r]
    BY <1>7 DEF TypeOK, Goto
  <2>5. ListsAreCleared'
    BY <1>7, <2>4 DEF rows, EgressInv, ListsAreCleared
  <2>6. ASSUME NEW r \in Senders, NEW j \in Items, pc'[r] = "sent", IsNext(r, j)'
        PROVE  delivered'[j] > 0
    <3>1. batch'[r] = batch[r] /\ IsNext(r, j)
      BY <2>4, <2>6 DEF IsNext
    <3>2. CASE r = s
      BY <1>7, <2>2, <3>1, <3>2, NextIsUnique
    <3>3. CASE r # s
      BY <2>2, <2>4, <2>6, <3>1, <3>3 DEF EgressInv, CallsPrecedeRecords
    <3> QED
      BY <3>2, <3>3
  <2> QED
    BY <2>3, <2>5, <2>6 DEF EgressInv, CallsPrecedeRecords
<1>8. ASSUME NEW s \in Senders, NEW i \in Items, SendReturns(s, i) \/ SendRaises(s, i)
      PROVE  EgressInv'
  <2>1. CASE Accepted(i)
    BY <1>7, <1>8, <2>1 DEF SendReturns, SendRaises
  <2>2. CASE SendRaises(s, i) /\ UNCHANGED delivered
    BY <2>2, EgressInvFrame DEF SendRaises, Goto, rows, TypeOK
  <2> QED
    BY <1>8, <2>1, <2>2 DEF SendReturns, SendRaises
<1>9. ASSUME NEW s \in Senders, Crash(s) PROVE EgressInv'
  <2>1. CASE UNCHANGED delivered
    BY <1>9, <2>1, EgressInvFrame DEF Crash, PassDies, Goto, rows, TypeOK
  <2>2. ASSUME NEW i \in Items, IsNext(s, i), Accepted(i) PROVE EgressInv'
    BY <1>7, <1>9, <2>2 DEF Crash, PassDies
  <2> QED
    BY <1>9, <2>1, <2>2 DEF Crash
<1>10. ASSUME NEW s \in Senders, NEW i \in Items, MarkSent(s, i) \/ MarkFailed(s, i)
       PROVE  EgressInv'
  <2>1. PICK to \in {"sent", "failed"} : status' = Moved(i, "approved", to)
    BY <1>10 DEF MarkSent, MarkFailed
  <2>2. \A j \in Items : status'[j] \in Cleared <=> status[j] \in Cleared
    BY <2>1 DEF Moved, TypeOK, Cleared
  <2>3. \A j \in Items : audit'["approved"][j] = audit["approved"][j]
    BY <1>10 DEF MarkSent, MarkFailed, Audited, TypeOK, AuditActions
  <2>4. \A r \in Senders : \/ batch'[r] = batch[r] /\ pc'[r] = pc[r]
                           \/ batch'[r] \subseteq batch[r] /\ pc'[r] # "sent"
    BY <1>10 DEF MarkSent, MarkFailed, Done, Goto, TypeOK
  <2>5. UNCHANGED delivered
    BY <1>10 DEF MarkSent, MarkFailed
  <2>6. ApprovalsAudited' /\ SendsAreCleared'
    BY <2>2, <2>3, <2>5 DEF EgressInv, ApprovalsAudited, SendsAreCleared
  <2>7. ListsAreCleared'
    BY <2>2, <2>4 DEF EgressInv, ListsAreCleared, TypeOK
  <2>8. CallsPrecedeRecords'
    BY <2>4, <2>5 DEF EgressInv, CallsPrecedeRecords, IsNext
  <2> QED
    BY <2>6, <2>7, <2>8 DEF EgressInv
<1> QED
  BY <1>1, <1>2, <1>3, <1>4, <1>5, <1>6, <1>8, <1>9, <1>10 DEF Next, PassStep, PassFault

(* The invariant holds throughout. *)
LEMMA EgressInvariant == Spec => [](TypeOK /\ EgressInv)
<1>1. Init => EgressInv
  BY DEF Init, EgressInv, ApprovalsAudited, ListsAreCleared, SendsAreCleared,
         CallsPrecedeRecords, Cleared, IsNext
<1> QED
  BY <1>1, TypeCorrect, EgressInvStep, PTL DEF Spec

(* No row leaves for Telegram or is closed unless a human approved it, however
   many processes decide and send at once (outbox.py:90-96 and 103). *)
THEOREM OnlyApprovedLeaves == Spec => []NothingLeavesUnapproved
<1>1. TypeOK /\ EgressInv => NothingLeavesUnapproved
  BY DEF EgressInv, ApprovalsAudited, SendsAreCleared, NothingLeavesUnapproved, Cleared
<1> QED
  BY <1>1, EgressInvariant, PTL

-----------------------------------------------------------------------------
(* The outbox implements Egress *)

(* A transmission of the outbox is a transmission of Egress. *)
LEMMA AcceptedTransmits ==
  ASSUME TypeOK, EgressInv, NEW s \in Senders, NEW i \in Items,
         IsNext(s, i), Accepted(i), UNCHANGED status
  PROVE  Promise!Next
<1>1. status[i] \in Cleared
  BY DEF EgressInv, ListsAreCleared, IsNext
<1>2. Promise!Transmit(i)
  BY <1>1 DEF Accepted, Cleared, Promise!Transmit, Promise!Cleared
<1> QED
  BY <1>2 DEF Promise!Next

(* A step of the outbox is a step of Egress or leaves Egress as it is. *)
LEMMA EgressStep ==
  TypeOK /\ EgressInv /\ [Next]_vars => [Promise!Next]_Promise!vars
<1> SUFFICES ASSUME TypeOK, EgressInv, [Next]_vars
             PROVE  Promise!Next \/ UNCHANGED <<status, delivered>>
  BY DEF Promise!vars
<1>1. CASE UNCHANGED vars \/ Environment
  BY <1>1 DEF vars, rows, Environment, Tick, EditAllowSend, RegisterPeer
<1>2. ASSUME NEW c \in Clients, ClientStep(c)
      PROVE  Promise!Next \/ UNCHANGED <<status, delivered>>
  <2>1. ASSUME NEW i \in Items, EnqueueCommit(c, i) PROVE Promise!Next
    BY <2>1 DEF EnqueueCommit, Promise!Next, Promise!Submit
  <2>2. CASE DecideCommit(c)
    <3> DEFINE item == client[c].item
    <3> DEFINE d == client[c].decision
    <3>1. item \in Items /\ d \in Decisions
      BY <2>2 DEF DecideCommit, TypeOK, Requests, Idle
    <3>2. CASE status[item] = "pending"
      <4>1. status' = [status EXCEPT ![item] = d] /\ UNCHANGED delivered
        BY <2>2, <3>2 DEF DecideCommit, Moved
      <4>2. Promise!Decide(item)
        BY <3>1, <3>2, <4>1 DEF Promise!Decide, Decisions
      <4> QED
        BY <3>1, <4>2 DEF Promise!Next
    <3>3. CASE status[item] # "pending"
      BY <2>2, <3>3 DEF DecideCommit, Moved
    <3> QED
      BY <3>2, <3>3
  <2>3. ASSUME ClientLeaves(c) \/ (\E p \in Peers : EnqueueCheck(c, p))
                 \/ (\E i \in Items, d \in Decisions : DecideCheck(c, i, d))
        PROVE  UNCHANGED <<status, delivered>>
    BY <2>3 DEF ClientLeaves, EnqueueCheck, DecideCheck, rows
  <2> QED
    BY <1>2, <2>1, <2>2, <2>3 DEF ClientStep
<1>3. ASSUME NEW s \in Senders, SenderStart(s) \/ StartFails(s) \/ MarkSentErrs(s)
                                \/ Finish(s) \/ MarkFailedErrs(s) \/ ListApproved(s)
      PROVE  UNCHANGED <<status, delivered>>
  BY <1>3 DEF SenderStart, StartFails, MarkSentErrs, Finish, MarkFailedErrs, PassDies,
              ListApproved, rows
<1>4. ASSUME NEW s \in Senders, NEW i \in Items,
             Validate(s, i) \/ Deny(s, i) \/ ValidateErrs(s, i)
      PROVE  UNCHANGED <<status, delivered>>
  BY <1>4 DEF Validate, Deny, ValidateErrs, rows
<1>5. ASSUME NEW s \in Senders, NEW i \in Items, SendReturns(s, i) \/ SendRaises(s, i)
      PROVE  Promise!Next \/ UNCHANGED <<status, delivered>>
  BY <1>5, AcceptedTransmits DEF SendReturns, SendRaises, rows
<1>6. ASSUME NEW s \in Senders, Crash(s)
      PROVE  Promise!Next \/ UNCHANGED <<status, delivered>>
  BY <1>6, AcceptedTransmits DEF Crash, PassDies, rows
<1>7. ASSUME NEW s \in Senders, NEW i \in Items, MarkSent(s, i) \/ MarkFailed(s, i)
      PROVE  Promise!Next \/ UNCHANGED <<status, delivered>>
  <2>1. CASE status[i] # "approved"
    BY <1>7, <2>1 DEF MarkSent, MarkFailed, Moved
  <2>2. CASE status[i] = "approved"
    <3>1. UNCHANGED delivered
      BY <1>7 DEF MarkSent, MarkFailed
    <3>2. \/ status' = [status EXCEPT ![i] = "sent"] /\ delivered[i] > 0
          \/ status' = [status EXCEPT ![i] = "failed"]
      BY <1>7, <2>2 DEF MarkSent, MarkFailed, Moved, EgressInv, CallsPrecedeRecords
    <3>3. Promise!Close(i)
      BY <2>2, <3>1, <3>2 DEF Promise!Close
    <3> QED
      BY <3>3 DEF Promise!Next
  <2> QED
    BY <2>1, <2>2
<1> QED
  BY <1>1, <1>2, <1>3, <1>4, <1>5, <1>6, <1>7 DEF Next, PassStep, PassFault

(* The outbox keeps the promise of Egress: only approved text is transmitted, a
   decision stands, and a row marked sent was taken by Telegram. *)
THEOREM OutboxImplementsEgress == Spec => ImplementsEgress
<1>1. Init => Promise!Init
  BY DEF Init, Promise!Init
<1> QED
  BY <1>1, EgressInvariant, EgressStep, PTL DEF Spec, ImplementsEgress, Promise!Spec

-----------------------------------------------------------------------------
(* One sender, as the README runs it: its list stays approved, since nobody else
   closes a row, and what it was let through by stays true until it records. *)

OneSender == \A r, s \in Senders : r = s

ListsAreApproved == \A s \in Senders : \A i \in batch[s] : status[i] = "approved"

GapsAreOpen == \A s \in Senders : pc[s] \in {"calling", "sent"} => GapElapsed

SingleInv == ListsAreApproved /\ LedgerExact /\ GapKept /\ GapsAreOpen

(* A step that closes nothing, and lets the sender through only when the gap has
   elapsed. *)
LEMMA SingleFrame ==
  ASSUME TypeOK, TypeOK', SingleInv, now' >= now,
         UNCHANGED <<sentAt, audit["send"], audit["fail"]>>,
         (\A i \in Items : \/ status'[i] = status[i]
                           \/ {status[i], status'[i]} \cap {"sent", "failed"} = {}),
         (\A s \in Senders : \A i \in batch'[s] : status'[i] = "approved"),
         (\A s \in Senders : pc'[s] \in {"calling", "sent"}
                                => pc[s] \in {"calling", "sent"} \/ GapElapsed)
  PROVE  SingleInv'
<1>1. \A i \in Items : /\ status'[i] = "sent" <=> status[i] = "sent"
                       /\ status'[i] = "failed" <=> status[i] = "failed"
  OBVIOUS
<1>2. ListsAreApproved'
  BY DEF ListsAreApproved
<1>3. LedgerExact'
  BY <1>1 DEF SingleInv, LedgerExact
<1>4. GapKept'
  BY <1>1 DEF SingleInv, GapKept
<1>5. GapsAreOpen'
  <2>1. ASSUME GapElapsed PROVE GapElapsed'
    <3>1. ASSUME NEW i \in Items, status'[i] = "sent" PROVE now' - sentAt'[i] >= MinGap
      <4>1. now - sentAt[i] >= MinGap /\ sentAt'[i] = sentAt[i]
        BY <1>1, <2>1, <3>1 DEF GapElapsed
      <4>2. now \in Nat /\ now' \in Nat /\ sentAt[i] \in Nat /\ MinGap \in Nat
        BY DEF TypeOK, Times
      <4> QED
        BY <4>1, <4>2
    <3> QED
      BY <3>1 DEF GapElapsed
  <2> QED
    BY <2>1 DEF SingleInv, GapsAreOpen
<1> QED
  BY <1>2, <1>3, <1>4, <1>5 DEF SingleInv

(* Another audit row is of no concern to the ledger. *)
LEMMA OtherAudits ==
  ASSUME TypeOK, NEW a \in AuditActions \ {"send", "fail"}, NEW i \in Items,
         audit' = Audited(a, i)
  PROVE  UNCHANGED <<audit["send"], audit["fail"]>>
  BY DEF TypeOK, Audited, AuditActions

LEMMA SingleStep ==
  ASSUME OneSender
  PROVE  TypeOK /\ TypeOK' /\ SingleInv /\ [Next]_vars => SingleInv'
<1> SUFFICES ASSUME TypeOK, TypeOK', SingleInv, [Next]_vars PROVE SingleInv'
  OBVIOUS
<1>0. now \in Nat /\ now >= now /\ ListsAreApproved
  BY DEF TypeOK, Times, SingleInv
<1>1. CASE UNCHANGED vars \/ Environment
  <2>1. now' >= now
    BY <1>0, <1>1 DEF vars, Environment, Tick, EditAllowSend, RegisterPeer
  <2> QED
    BY <1>0, <1>1, <2>1, SingleFrame
    DEF vars, Environment, Tick, EditAllowSend, RegisterPeer, rows, passes, config, ListsAreApproved
<1>2. ASSUME NEW c \in Clients, ClientStep(c) PROVE SingleInv'
  <2>1. ASSUME ClientLeaves(c) \/ (\E p \in Peers : EnqueueCheck(c, p))
                 \/ (\E i \in Items, d \in Decisions : DecideCheck(c, i, d))
        PROVE  SingleInv'
    BY <1>0, <2>1, SingleFrame
    DEF ClientLeaves, EnqueueCheck, DecideCheck, rows, passes, ListsAreApproved
  <2>2. ASSUME NEW i \in Items, EnqueueCommit(c, i) PROVE SingleInv'
    <3>1. UNCHANGED <<audit["send"], audit["fail"]>>
      BY <2>2, OtherAudits DEF EnqueueCommit, AuditActions
    <3>2. \A j \in Items : \/ status'[j] = status[j]
                           \/ status[j] = "absent" /\ status'[j] = "pending"
      BY <2>2 DEF EnqueueCommit, TypeOK
    <3>3. \A s \in Senders : \A j \in batch[s] : status'[j] = "approved"
      BY <1>0, <3>2 DEF ListsAreApproved, TypeOK
    <3> QED
      BY <1>0, <2>2, <3>1, <3>2, <3>3, SingleFrame DEF EnqueueCommit, passes
  <2>3. CASE DecideCommit(c)
    <3>1. client[c].item \in Items /\ client[c].decision \in {"approved", "rejected"}
      BY <2>3 DEF DecideCommit, TypeOK, Requests, Idle, Decisions
    <3>2. UNCHANGED <<audit["send"], audit["fail"]>>
      BY <2>3, <3>1, OtherAudits DEF DecideCommit, AuditActions
    <3>3. \A j \in Items : \/ status'[j] = status[j]
                           \/ status[j] = "pending" /\ status'[j] \in {"approved", "rejected"}
      BY <2>3, <3>1 DEF DecideCommit, Moved, TypeOK
    <3>4. \A s \in Senders : \A j \in batch[s] : status'[j] = "approved"
      BY <1>0, <3>3 DEF ListsAreApproved, TypeOK
    <3> QED
      BY <1>0, <2>3, <3>2, <3>3, <3>4, SingleFrame DEF DecideCommit, passes
  <2> QED
    BY <1>2, <2>1, <2>2, <2>3 DEF ClientStep
<1>3. ASSUME NEW s \in Senders, SenderStart(s) \/ StartFails(s) \/ ListApproved(s) \/ Finish(s)
                                \/ MarkSentErrs(s) \/ MarkFailedErrs(s) \/ Crash(s)
      PROVE  SingleInv'
  <2>1. UNCHANGED <<now, rows>>
    BY <1>3
    DEF SenderStart, StartFails, ListApproved, Finish, MarkSentErrs, MarkFailedErrs, Crash, PassDies
  <2>2. \A r \in Senders : pc'[r] \in {"calling", "sent"} => pc[r] \in {"calling", "sent"}
    BY <1>3
    DEF SenderStart, StartFails, ListApproved, Finish, MarkSentErrs, MarkFailedErrs, Crash,
        PassDies, Goto, TypeOK
  <2>3. \/ batch' = batch
        \/ batch' = [batch EXCEPT ![s] = {}]
        \/ batch' = [batch EXCEPT ![s] = {i \in Items : status[i] = "approved"}]
    BY <1>3
    DEF SenderStart, StartFails, ListApproved, Finish, MarkSentErrs, MarkFailedErrs, Crash, PassDies
  <2>4. \A r \in Senders : \A i \in batch'[r] : i \in batch[r] \/ status[i] = "approved"
    <3>1. batch \in [Senders -> SUBSET Items]
      BY DEF TypeOK
    <3> QED
      BY <2>3, <3>1, SMTT(20)
  <2> QED
    BY <1>0, <2>1, <2>2, <2>4, SingleFrame DEF rows, ListsAreApproved
<1>4. ASSUME NEW s \in Senders, NEW i \in Items,
             Validate(s, i) \/ Deny(s, i) \/ ValidateErrs(s, i)
                \/ SendReturns(s, i) \/ SendRaises(s, i)
      PROVE  SingleInv'
  <2>1. /\ UNCHANGED <<now, rows, batch>>
        /\ \A r \in Senders : pc'[r] \in {"calling", "sent"}
                                 => pc[r] \in {"calling", "sent"} \/ GapElapsed
    BY <1>4
    DEF Validate, PolicyAllows, Deny, ValidateErrs, SendReturns, SendRaises, Goto, TypeOK
  <2> QED
    BY <1>0, <2>1, SingleFrame DEF rows, ListsAreApproved
<1>5. ASSUME NEW s \in Senders, NEW i \in Items, MarkSent(s, i) PROVE SingleInv'
  <2>1. /\ status[i] = "approved" /\ i \in batch[s] /\ now' = now
        /\ status' = [status EXCEPT ![i] = "sent"]
        /\ sentAt' = [sentAt EXCEPT ![i] = now]
        /\ batch'[s] = batch[s] \ {i} /\ pc'[s] = "looping"
        /\ audit' = Audited("send", i)
    BY <1>0, <1>5 DEF MarkSent, IsNext, Moved, Done, Goto, ListsAreApproved, TypeOK
  <2>2. ListsAreApproved'
    BY <1>0, <2>1, OneSender DEF ListsAreApproved, OneSender, TypeOK
  <2>3. LedgerExact'
    <3>1. /\ audit'["send"][i] = audit["send"][i] + 1 /\ audit'["fail"] = audit["fail"]
          /\ \A j \in Items \ {i} : audit'["send"][j] = audit["send"][j]
      BY <2>1 DEF Audited, AuditActions, TypeOK
    <3> QED
      BY <2>1, <3>1 DEF SingleInv, LedgerExact, TypeOK
  <2>4. GapKept'
    <3>1. GapElapsed
      BY <1>5 DEF MarkSent, SingleInv, GapsAreOpen
    <3>2. /\ sentAt'[i] = now
          /\ \A j \in Items \ {i} : sentAt'[j] = sentAt[j] /\ status'[j] = status[j]
      BY <2>1 DEF TypeOK
    <3>3. \A j \in Items \ {i} : status[j] = "sent" => sentAt'[i] - sentAt'[j] >= MinGap
      BY <3>1, <3>2 DEF GapElapsed
    <3>4. ASSUME NEW j \in Items, NEW k \in Items, j < k, status'[j] = "sent", status'[k] = "sent"
          PROVE  \/ sentAt'[k] - sentAt'[j] >= MinGap
                 \/ sentAt'[j] - sentAt'[k] >= MinGap
      <4>1. j # k
        BY <3>4 DEF Items
      <4>2. CASE j = i \/ k = i
        BY <3>2, <3>3, <3>4, <4>1, <4>2
      <4>3. CASE j # i /\ k # i
        BY <3>2, <3>4, <4>3 DEF SingleInv, GapKept
      <4> QED
        BY <4>2, <4>3
    <3> QED
      BY <3>4 DEF GapKept
  <2>5. GapsAreOpen'
    BY <2>1, OneSender DEF GapsAreOpen, OneSender
  <2> QED
    BY <2>2, <2>3, <2>4, <2>5 DEF SingleInv
<1>6. ASSUME NEW s \in Senders, NEW i \in Items, MarkFailed(s, i) PROVE SingleInv'
  <2>1. /\ status[i] = "approved" /\ i \in batch[s] /\ now' = now /\ sentAt' = sentAt
        /\ status' = [status EXCEPT ![i] = "failed"]
        /\ batch'[s] \subseteq batch[s] \ {i} /\ pc'[s] \notin {"calling", "sent"}
        /\ audit' = Audited("fail", i)
    BY <1>0, <1>6 DEF MarkFailed, IsNext, Moved, Done, Goto, ListsAreApproved, TypeOK
  <2>2. ListsAreApproved'
    BY <1>0, <2>1, OneSender DEF ListsAreApproved, OneSender, TypeOK
  <2>3. LedgerExact'
    <3>1. /\ audit'["fail"][i] = audit["fail"][i] + 1 /\ audit'["send"] = audit["send"]
          /\ \A j \in Items \ {i} : audit'["fail"][j] = audit["fail"][j]
      BY <2>1 DEF Audited, AuditActions, TypeOK
    <3> QED
      BY <2>1, <3>1 DEF SingleInv, LedgerExact, TypeOK
  <2>4. GapKept'
    <3>1. \A j \in Items : status'[j] = "sent" => status[j] = "sent"
      BY <2>1 DEF TypeOK
    <3> QED
      BY <2>1, <3>1 DEF SingleInv, GapKept
  <2>5. GapsAreOpen'
    BY <2>1, OneSender DEF GapsAreOpen, OneSender
  <2> QED
    BY <2>2, <2>3, <2>4, <2>5 DEF SingleInv
<1> QED
  BY <1>1, <1>2, <1>3, <1>4, <1>5, <1>6 DEF Next, PassStep, PassFault

LEMMA SingleInvariant ==
  ASSUME OneSender PROVE Spec => [](TypeOK /\ SingleInv)
<1>1. Init => SingleInv
  BY DEF Init, SingleInv, ListsAreApproved, LedgerExact, GapKept, GapsAreOpen, AuditActions
<1> QED
  BY <1>1, TypeCorrect, SingleStep, PTL DEF Spec

(* With one sender, whatever CLI processes decide meanwhile: a row is closed by one
   audited send or one audited failure (sender.py:22-71, outbox.py:120-147). *)
THEOREM LedgerIsExact ==
  ASSUME OneSender PROVE Spec => []LedgerExact
<1>1. SingleInv => LedgerExact
  BY DEF SingleInv
<1> QED
  BY <1>1, SingleInvariant, PTL

(* With one sender, any two recorded sends are minimum_gap_seconds apart, though the
   gap is checked before the call and the time taken after it (outbox.py:194-198). *)
THEOREM GapsAreKept ==
  ASSUME OneSender PROVE Spec => []GapKept
<1>1. SingleInv => GapKept
  BY DEF SingleInv
<1> QED
  BY <1>1, SingleInvariant, PTL

LEMMA ApprovedTransmitted ==
  TypeOK /\ SingleInv /\ [Next]_vars
     => [\A i \in Items : delivered'[i] > delivered[i] => status[i] = "approved"]_vars
<1> SUFFICES ASSUME TypeOK, SingleInv, [Next]_vars, NEW i \in Items, delivered'[i] > delivered[i]
             PROVE  status[i] = "approved"
  OBVIOUS
<1>1. delivered[i] \in Nat /\ delivered' # delivered
  BY DEF TypeOK
<1>2. PICK s \in Senders, j \in Items : IsNext(s, j) /\ Accepted(j)
  BY <1>1
  DEF Next, Environment, Tick, EditAllowSend, RegisterPeer, ClientStep, EnqueueCheck, EnqueueCommit,
      DecideCheck, DecideCommit, ClientLeaves, SenderStart, PassStep, PassFault, ListApproved,
      Validate, Deny, ValidateErrs, SendReturns, SendRaises, MarkSent, MarkFailed, Finish, StartFails,
      MarkSentErrs, MarkFailedErrs, Crash, vars
<1>3. j = i
  BY <1>1, <1>2 DEF Accepted, TypeOK
<1> QED
  BY <1>2, <1>3 DEF SingleInv, ListsAreApproved, IsNext

(* With one sender, a transmission takes a row that is approved at that moment,
   though the list was read before (README.md:295). *)
THEOREM OneSenderTransmitsApproved ==
  ASSUME OneSender PROVE Spec => TransmitsOnlyApproved
  BY SingleInvariant, ApprovedTransmitted, PTL DEF Spec, TransmitsOnlyApproved

=============================================================================
