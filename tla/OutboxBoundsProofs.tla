------------------------- MODULE OutboxBoundsProofs -------------------------
(***************************************************************************)
(* What the outbox promises in numbers, for any number of senders, rows    *)
(* and peers: that records do not outnumber deliveries, how often a row is *)
(* delivered, how far a rate window is overrun; and that sending stays     *)
(* off.  Each is shown by counting the senders that are between a check    *)
(* and its record.                                                         *)
(***************************************************************************)
EXTENDS OutboxProofs, FiniteSetTheorems

USE SendersAreFinite

(* Sets of senders are finite and no larger than Senders. *)
LEMMA SomeSenders ==
    ASSUME NEW S \in SUBSET Senders
    PROVE  /\ IsFiniteSet(S) /\ Cardinality(S) \in Nat
           /\ Cardinality(Senders) \in Nat /\ Cardinality(S) <= Cardinality(Senders)
  BY FS_Subset, FS_CardinalityType

LEMMA Fewer ==
    ASSUME NEW S \in SUBSET Senders, NEW T \in SUBSET S
    PROVE  Cardinality(T) <= Cardinality(S)
  BY FS_Subset, SomeSenders

LEMMA OneFewer ==
    ASSUME NEW S \in SUBSET Senders, NEW s \in S, NEW T \in SUBSET (S \ {s})
    PROVE  Cardinality(T) <= Cardinality(S) - 1
<1>1. Cardinality(S \ {s}) = Cardinality(S) - 1
  BY FS_RemoveElement, SomeSenders
<1>2. Cardinality(T) <= Cardinality(S \ {s})
  BY Fewer
<1>3. Cardinality(S \ {s}) \in Nat /\ Cardinality(S) \in Nat /\ Cardinality(T) \in Nat
  BY SomeSenders
<1> QED
  BY <1>1, <1>2, <1>3

LEMMA OneMore ==
    ASSUME NEW S \in SUBSET Senders, NEW s \in Senders, NEW T \in SUBSET (S \cup {s})
    PROVE  Cardinality(T) <= Cardinality(S) + 1
<1>1. IsFiniteSet(S) /\ Cardinality(S) \in Nat
  BY SomeSenders
<1>2. Cardinality(S \cup {s}) = IF s \in S THEN Cardinality(S) ELSE Cardinality(S) + 1
  BY <1>1, FS_AddElement
<1>3. Cardinality(T) <= Cardinality(S \cup {s})
  BY Fewer
<1>4. Cardinality(S \cup {s}) \in Nat /\ Cardinality(T) \in Nat
  BY SomeSenders
<1> QED
  BY <1>1, <1>2, <1>3, <1>4

LEMMA AcceptedAdds ==
    ASSUME TypeOK, NEW i \in Items, Accepted(i), NEW j \in Items
    PROVE  delivered'[j] = IF j = i THEN delivered[j] + 1 ELSE delivered[j]
  BY DEF Accepted, TypeOK

LEMMA DeliveredGrows ==
    ASSUME TypeOK, UNCHANGED delivered \/ \E i \in Items : Accepted(i), NEW j \in Items
    PROVE  delivered[j] \in Nat /\ delivered'[j] >= delivered[j]
<1>1. delivered[j] \in Nat
  BY DEF TypeOK
<1>2. delivered'[j] \in {delivered[j], delivered[j] + 1}
  BY AcceptedAdds
<1> QED
  BY <1>1, <1>2

(* What a step does to the senders: at most one of them moves, in one of these
   ways. *)
Others(s) ==
    \A r \in Senders \ {s} : pc'[r] = pc[r] /\ batch'[r] = batch[r]

LEMMA StaysNext ==
    ASSUME NEW r, NEW i, batch'[r] = batch[r] PROVE IsNext(r, i)' <=> IsNext(r, i)
  BY DEF IsNext

-----------------------------------------------------------------------------
(* Records do not outnumber deliveries: the calls that returned and are not yet
   recorded are counted with the records. *)

Returned(i) == {s \in Senders : pc[s] = "sent" /\ IsNext(s, i)}

SentInv ==
    \A i \in Items :
        /\ audit["send"][i] + Cardinality(Returned(i)) <= delivered[i]
        /\ status[i] = "sent" => audit["send"][i] > 0

LEMMA ReturnedSenders == \A i : Returned(i) \in SUBSET Senders
  BY DEF Returned

(* A step that records nothing, marks nothing as sent and lets no call return. *)
LEMMA SentFrame ==
    ASSUME TypeOK, TypeOK', SentInv,
           \A i \in Items : /\ audit'["send"][i] = audit["send"][i]
                            /\ delivered'[i] >= delivered[i]
                            /\ status'[i] = "sent" => status[i] = "sent",
           \A r \in Senders : pc'[r] = "sent" => pc[r] = "sent" /\ batch'[r] = batch[r]
    PROVE  SentInv'
<1>1. ASSUME NEW i \in Items
      PROVE  /\ audit'["send"][i] + Cardinality(Returned(i)') <= delivered'[i]
             /\ status'[i] = "sent" => audit'["send"][i] > 0
  <2>1. Returned(i)' \subseteq Returned(i)
    BY StaysNext DEF Returned
  <2>2. Cardinality(Returned(i)') <= Cardinality(Returned(i))
    BY <2>1, ReturnedSenders, Fewer
  <2>3. Cardinality(Returned(i)') \in Nat /\ Cardinality(Returned(i)) \in Nat
    BY <2>1, ReturnedSenders, SomeSenders
  <2>4. audit["send"][i] \in Nat /\ delivered[i] \in Nat /\ delivered'[i] \in Nat
    BY DEF TypeOK, AuditActions
  <2> QED
    BY <2>2, <2>3, <2>4 DEF SentInv
<1> QED
  BY <1>1 DEF SentInv

LEMMA SentStep == TypeOK /\ TypeOK' /\ SentInv /\ [Next]_vars => SentInv'
<1> SUFFICES ASSUME TypeOK, TypeOK', SentInv, [Next]_vars PROVE SentInv'
  OBVIOUS
<1>1. CASE UNCHANGED vars
  BY <1>1, SentFrame DEF vars, rows, passes, TypeOK
<1>2. CASE Environment
  BY <1>2, SentFrame
  DEF Environment, Tick, EditAllowSend, RegisterPeer, config, rows, passes, TypeOK
<1>3. ASSUME NEW c \in Clients, ClientStep(c) PROVE SentInv'
  <2>1. UNCHANGED <<pc, batch, delivered>>
    BY <1>3 DEF ClientStep, EnqueueCheck, EnqueueCommit, DecideCheck, DecideCommit, ClientLeaves,
       passes
  <2>2. \A i \in Items : audit'["send"][i] = audit["send"][i]
    <3>1. CASE DecideCommit(c)
      <4>1. client[c].decision \in {"approved", "rejected"}
        BY <3>1 DEF DecideCommit, TypeOK, Requests, Idle, Decisions
      <4> QED
        BY <3>1, <4>1 DEF DecideCommit, Audited, TypeOK, AuditActions
    <3> QED
      BY <1>3, <3>1 DEF ClientStep, EnqueueCheck, EnqueueCommit, DecideCheck, ClientLeaves, rows,
         Audited, TypeOK, AuditActions
  <2>3. \A i \in Items : status'[i] = "sent" => status[i] = "sent"
    <3>1. CASE DecideCommit(c)
      <4>1. client[c].decision \in {"approved", "rejected"}
        BY <3>1 DEF DecideCommit, TypeOK, Requests, Idle, Decisions
      <4> QED
        BY <3>1, <4>1 DEF DecideCommit, Moved, TypeOK
    <3> QED
      BY <1>3, <3>1 DEF ClientStep, EnqueueCheck, EnqueueCommit, DecideCheck, ClientLeaves, rows, TypeOK
  <2> QED
    BY <2>1, <2>2, <2>3, SentFrame DEF TypeOK
<1>4. ASSUME NEW s \in Senders, SenderStart(s) \/ StartFails(s) \/ ListApproved(s)
                                \/ MarkSentErrs(s) \/ Finish(s)
      PROVE  SentInv'
  BY <1>4, SentFrame DEF SenderStart, StartFails, ListApproved, MarkSentErrs, Finish, Goto, rows, TypeOK
<1>5. ASSUME NEW s \in Senders, NEW i \in Items,
             Validate(s, i) \/ Deny(s, i) \/ ValidateErrs(s, i)
      PROVE  SentInv'
  BY <1>5, SentFrame DEF Validate, Deny, ValidateErrs, Goto, rows, TypeOK
<1>6. ASSUME NEW s \in Senders, NEW i \in Items, SendRaises(s, i) PROVE SentInv'
  <2>1. \A j \in Items : delivered'[j] >= delivered[j]
    BY <1>6, DeliveredGrows DEF SendRaises
  <2> QED
    BY <1>6, <2>1, SentFrame DEF SendRaises, Goto, rows, TypeOK
<1>7. ASSUME NEW s \in Senders, MarkFailedErrs(s) \/ Crash(s) PROVE SentInv'
  <2>1. \A j \in Items : delivered'[j] >= delivered[j]
    BY <1>7, DeliveredGrows DEF MarkFailedErrs, Crash
  <2> QED
    BY <1>7, <2>1, SentFrame DEF MarkFailedErrs, Crash, PassDies, Goto, rows, TypeOK
<1>8. ASSUME NEW s \in Senders, NEW i \in Items, MarkFailed(s, i) PROVE SentInv'
  <2>1. \A j \in Items : audit'["send"][j] = audit["send"][j]
    BY <1>8 DEF MarkFailed, Audited, TypeOK, AuditActions
  <2>2. \A j \in Items : status'[j] = "sent" => status[j] = "sent"
    BY <1>8 DEF MarkFailed, Moved, TypeOK
  <2>3. \A r \in Senders : pc'[r] = "sent" => pc[r] = "sent" /\ batch'[r] = batch[r]
    BY <1>8 DEF MarkFailed, Done, Goto, TypeOK
  <2> QED
    BY <1>8, <2>1, <2>2, <2>3, SentFrame DEF MarkFailed, TypeOK
<1>9. ASSUME NEW s \in Senders, NEW i \in Items, SendReturns(s, i) PROVE SentInv'
  <2>1. Others(s) /\ batch' = batch /\ pc[s] = "calling" /\ IsNext(s, i)
    BY <1>9 DEF SendReturns, Goto, Others, TypeOK
  <2>2. ASSUME NEW j \in Items
        PROVE  /\ audit'["send"][j] + Cardinality(Returned(j)') <= delivered'[j]
               /\ status'[j] = "sent" => audit'["send"][j] > 0
    <3>1. Returned(j)' \subseteq Returned(j) \cup {s}
      BY <2>1, StaysNext DEF Returned, Others
    <3>2. j # i => Returned(j)' \subseteq Returned(j)
      BY <2>1, <3>1, NextIsUnique, StaysNext DEF Returned
    <3>3. /\ IsFiniteSet(Returned(j)) /\ Cardinality(Returned(j)) \in Nat
          /\ Cardinality(Returned(j)') \in Nat
      BY ReturnedSenders, <3>1, SomeSenders
    <3>4. Cardinality(Returned(j)') <= Cardinality(Returned(j)) + 1
      BY <3>1, ReturnedSenders, OneMore
    <3>5. j # i => Cardinality(Returned(j)') <= Cardinality(Returned(j))
      BY <3>2, ReturnedSenders, Fewer
    <3>6. /\ audit["send"][j] \in Nat /\ delivered[j] \in Nat /\ audit' = audit /\ status' = status
          /\ delivered'[j] = IF j = i THEN delivered[j] + 1 ELSE delivered[j]
      BY <1>9 DEF SendReturns, Accepted, rows, TypeOK, AuditActions
    <3> QED
      BY <3>3, <3>4, <3>5, <3>6 DEF SentInv
  <2> QED
    BY <2>2 DEF SentInv
<1>10. ASSUME NEW s \in Senders, NEW i \in Items, MarkSent(s, i) PROVE SentInv'
  <2>1. /\ Others(s) /\ pc[s] = "sent" /\ pc'[s] = "looping" /\ IsNext(s, i)
    BY <1>10 DEF MarkSent, Goto, Done, Others, TypeOK
  <2>2. ASSUME NEW j \in Items
        PROVE  /\ audit'["send"][j] + Cardinality(Returned(j)') <= delivered'[j]
               /\ status'[j] = "sent" => audit'["send"][j] > 0
    <3>1. Returned(j)' \subseteq Returned(j) \ {s}
      BY <2>1, StaysNext DEF Returned, Others
    <3>2. Cardinality(Returned(j)) \in Nat /\ Cardinality(Returned(j)') \in Nat
      BY ReturnedSenders, <3>1, SomeSenders
    <3>3. Cardinality(Returned(j)') <= Cardinality(Returned(j))
      BY <3>1, ReturnedSenders, Fewer
    <3>4. j = i => Cardinality(Returned(j)') <= Cardinality(Returned(j)) - 1
      <4>1. s \in Returned(i)
        BY <2>1 DEF Returned
      <4> QED
        BY <3>1, <4>1, ReturnedSenders, OneFewer
    <3>5. /\ audit["send"][j] \in Nat /\ delivered[j] \in Nat /\ delivered' = delivered
          /\ audit'["send"][j] = IF j = i THEN audit["send"][j] + 1 ELSE audit["send"][j]
      BY <1>10 DEF MarkSent, Audited, TypeOK, AuditActions
    <3>6. j # i => status'[j] = status[j]
      BY <1>10 DEF MarkSent, Moved, TypeOK
    <3> QED
      BY <3>2, <3>3, <3>4, <3>5, <3>6 DEF SentInv
  <2> QED
    BY <2>2 DEF SentInv
<1> QED
  BY <1>1, <1>2, <1>3, <1>4, <1>5, <1>6, <1>7, <1>8, <1>9, <1>10 DEF Next, PassStep, PassFault

(* The mirror never claims a send that did not happen, for any number of senders
   that hold the same row (sender.py:36-37, outbox.py:120-139). *)
THEOREM SendsAreDelivered == Spec => []SentIsDelivered
<1>1. Init => SentInv
  <2> SUFFICES ASSUME Init PROVE SentInv
    OBVIOUS
  <2>1. \A i : Returned(i) = {}
    BY DEF Init, Returned
  <2> QED
    <3>1. ASSUME NEW i \in Items
          PROVE  audit["send"][i] = 0 /\ delivered[i] = 0 /\ status[i] = "absent"
      BY DEF Init, AuditActions
    <3> QED
      BY <2>1, <3>1, FS_EmptySet DEF SentInv
<1>2. TypeOK /\ SentInv => SentIsDelivered
  <2> SUFFICES ASSUME TypeOK, SentInv, NEW i \in Items
               PROVE  /\ audit["send"][i] <= delivered[i]
                      /\ status[i] = "sent" => audit["send"][i] > 0
    BY DEF SentIsDelivered
  <2>1. Cardinality(Returned(i)) \in Nat /\ audit["send"][i] \in Nat /\ delivered[i] \in Nat
    BY ReturnedSenders, SomeSenders DEF TypeOK, AuditActions
  <2> QED
    BY <2>1 DEF SentInv
<1> QED
  BY <1>1, <1>2, SentStep, TypeCorrect, PTL DEF Spec

-----------------------------------------------------------------------------
(* Sending stays off: a pass that calls has loaded allow_send as on. *)

CallsWereAllowed == \A s \in Senders : pc[s] = "calling" => loaded[s]

LEMMA CallsStep == TypeOK /\ CallsWereAllowed /\ [Next]_vars => CallsWereAllowed'
<1> SUFFICES ASSUME TypeOK, CallsWereAllowed, [Next]_vars PROVE CallsWereAllowed'
  OBVIOUS
<1> USE DEF TypeOK, CallsWereAllowed, Goto
<1>1. CASE UNCHANGED vars \/ Environment \/ \E c \in Clients : ClientStep(c)
  BY <1>1 DEF vars, Environment, Tick, EditAllowSend, RegisterPeer, ClientStep, EnqueueCheck,
     EnqueueCommit, DecideCheck, DecideCommit, ClientLeaves, passes
<1>2. ASSUME NEW s \in Senders, NEW i \in Items, Validate(s, i) PROVE CallsWereAllowed'
  BY <1>2 DEF Validate, PolicyAllows
<1>3. ASSUME NEW s \in Senders, NEW i \in Items,
             Deny(s, i) \/ ValidateErrs(s, i) \/ SendReturns(s, i) \/ SendRaises(s, i)
                \/ MarkSent(s, i) \/ MarkFailed(s, i)
      PROVE  CallsWereAllowed'
  BY <1>3 DEF Deny, ValidateErrs, SendReturns, SendRaises, MarkSent, MarkFailed
<1>4. ASSUME NEW s \in Senders,
             SenderStart(s) \/ StartFails(s) \/ ListApproved(s) \/ Finish(s) \/ MarkSentErrs(s)
                \/ MarkFailedErrs(s) \/ Crash(s)
      PROVE  CallsWereAllowed'
  BY <1>4 DEF SenderStart, StartFails, ListApproved, Finish, MarkSentErrs, MarkFailedErrs, Crash, PassDies
<1> QED
  BY <1>1, <1>2, <1>3, <1>4 DEF Next, PassStep, PassFault

LEMMA SwitchStep ==
    TypeOK /\ CallsWereAllowed /\ [Next]_vars
        => [SwitchedOff /\ ~allowSend' => SwitchedOff' /\ delivered' = delivered]_vars
<1> SUFFICES ASSUME TypeOK, CallsWereAllowed, [Next]_vars, SwitchedOff, ~allowSend'
             PROVE  SwitchedOff' /\ delivered' = delivered
  OBVIOUS
<1> USE DEF TypeOK, SwitchedOff, Goto
<1>1. \A s \in Senders : pc[s] # "calling"
  BY DEF CallsWereAllowed
<1>2. CASE UNCHANGED vars \/ Environment \/ \E c \in Clients : ClientStep(c)
  BY <1>2 DEF vars, Environment, Tick, EditAllowSend, RegisterPeer, ClientStep, EnqueueCheck,
     EnqueueCommit, DecideCheck, DecideCommit, ClientLeaves, passes
<1>3. ASSUME NEW s \in Senders, NEW i \in Items,
             Validate(s, i) \/ Deny(s, i) \/ ValidateErrs(s, i) \/ SendReturns(s, i)
                \/ SendRaises(s, i) \/ MarkSent(s, i) \/ MarkFailed(s, i)
      PROVE  SwitchedOff' /\ delivered' = delivered
  BY <1>1, <1>3 DEF Validate, Deny, ValidateErrs, SendReturns, SendRaises, MarkSent, MarkFailed
<1>4. ASSUME NEW s \in Senders,
             SenderStart(s) \/ StartFails(s) \/ ListApproved(s) \/ Finish(s) \/ MarkSentErrs(s)
                \/ MarkFailedErrs(s) \/ Crash(s)
      PROVE  SwitchedOff' /\ delivered' = delivered
  BY <1>1, <1>4 DEF SenderStart, StartFails, ListApproved, Finish, MarkSentErrs, MarkFailedErrs,
     Crash, PassDies
<1> QED
  BY <1>2, <1>3, <1>4 DEF Next, PassStep, PassFault

(* Once allow_send is off and the passes that loaded it as on have ended, nothing is
   transmitted until it is on again, for any number of senders and rows. *)
THEOREM SendingStaysOff == Spec => SwitchOffHolds
<1>1. Init => CallsWereAllowed
  BY DEF Init, CallsWereAllowed
<1> QED
  BY <1>1, CallsStep, SwitchStep, TypeCorrect, PTL DEF Spec, SwitchOffHolds

-----------------------------------------------------------------------------
(* Rate windows.  A sender that was let through counts against each scope of its
   row until it records: in the window of the clock, records and such senders are
   together at most the limit and the other senders. *)

Through(sc) ==
    {s \in Senders : pc[s] \in {"calling", "sent"}
                        /\ \E i \in Items : IsNext(s, i) /\ sc \in {"global", peerOf[i]}}

Allowance(sc) == Limit(sc) + Cardinality(Senders) - 1

RateInv ==
    \A sc \in Scopes, h \in Hours :
        /\ h > Hour(now) => rate[sc][h] = 0
        /\ h = Hour(now) => rate[sc][h] + Cardinality(Through(sc)) <= Allowance(sc)
        /\ rate[sc][h] <= Allowance(sc)

LEMMA ThroughSenders == \A sc : Through(sc) \in SUBSET Senders
  BY DEF Through

LEMMA AllowanceIsNatural ==
    ASSUME NEW sc \in Scopes
    PROVE  Limit(sc) \in Nat \ {0} /\ Cardinality(Senders) \in Nat /\ Allowance(sc) \in Nat
<1>1. Limit(sc) \in Nat \ {0}
  BY LimitsArePositive DEF Limit
<1>2. Cardinality(Senders) \in Nat
  BY FS_CardinalityType
<1> QED
  BY <1>1, <1>2 DEF Allowance

LEMMA HoursAdvance ==
    ASSUME NEW t \in Nat PROVE Hour(t) \in Nat /\ Hour(t + 1) \in Nat /\ Hour(t) <= Hour(t + 1)
  BY LimitsArePositive DEF Hour

(* A step that records nothing and lets nobody through. *)
LEMMA RateFrame ==
    ASSUME TypeOK, TypeOK', RateInv, rate' = rate, now' = now \/ now' = now + 1,
           \A sc \in Scopes : Through(sc)' \subseteq Through(sc)
    PROVE  RateInv'
<1>1. ASSUME NEW sc \in Scopes, NEW h \in Hours
      PROVE  /\ h > Hour(now') => rate'[sc][h] = 0
             /\ h = Hour(now') => rate'[sc][h] + Cardinality(Through(sc)') <= Allowance(sc)
             /\ rate'[sc][h] <= Allowance(sc)
  <2>1. Hour(now) \in Nat /\ Hour(now') \in Nat /\ Hour(now) <= Hour(now') /\ h \in Nat
    <3>1. now \in Nat /\ \A t \in Times : t \in Nat
      BY DEF TypeOK, Times
    <3>2. h \in Nat
      BY <3>1, HoursAdvance DEF Hours
    <3> QED
      BY <3>1, <3>2, HoursAdvance
  <2>2. /\ Cardinality(Through(sc)') <= Cardinality(Through(sc))
        /\ Cardinality(Through(sc)') \in Nat /\ Cardinality(Through(sc)) \in Nat
        /\ Cardinality(Through(sc)') <= Cardinality(Senders)
    BY ThroughSenders, Fewer, SomeSenders
  <2>3. rate[sc][h] \in Nat
    BY DEF TypeOK
  <2>4. CASE Hour(now') = Hour(now)
    BY <2>1, <2>2, <2>3, <2>4, AllowanceIsNatural DEF RateInv
  <2>5. CASE Hour(now') > Hour(now)
    <3>1. h = Hour(now') => rate'[sc][h] = 0
      BY <2>1, <2>5 DEF RateInv
    <3> QED
      BY <2>1, <2>2, <2>3, <2>5, <3>1, AllowanceIsNatural DEF RateInv, Allowance
  <2> QED
    BY <2>1, <2>4, <2>5
<1> QED
  BY <1>1 DEF RateInv, Allowance, Limit

(* Rows that senders hold keep their peer. *)
LEMMA ThroughShrinks ==
    ASSUME TypeOK, NEW sc \in Scopes,
           \A r \in Senders : pc'[r] \in {"calling", "sent"} =>
               pc[r] \in {"calling", "sent"} /\ batch'[r] = batch[r],
           \A r \in Senders : \A i \in batch[r] : peerOf'[i] = peerOf[i]
    PROVE  Through(sc)' \subseteq Through(sc)
  BY StaysNext DEF Through, IsNext

LEMMA RateStep == TypeOK /\ TypeOK' /\ EgressInv /\ RateInv /\ [Next]_vars => RateInv'
<1> SUFFICES ASSUME TypeOK, TypeOK', EgressInv, RateInv, [Next]_vars PROVE RateInv'
  OBVIOUS
<1>1. CASE UNCHANGED vars
  BY <1>1, RateFrame, ThroughShrinks DEF vars, rows, passes
<1>2. CASE Environment
  <2>1. rate' = rate /\ (now' = now \/ now' = now + 1) /\ UNCHANGED <<pc, batch, peerOf>>
    BY <1>2 DEF Environment, Tick, EditAllowSend, RegisterPeer, config, rows, passes
  <2> QED
    BY <2>1, RateFrame, ThroughShrinks
<1>3. ASSUME NEW c \in Clients, ClientStep(c) PROVE RateInv'
  <2>1. rate' = rate /\ now' = now /\ UNCHANGED <<pc, batch>>
    BY <1>3 DEF ClientStep, EnqueueCheck, EnqueueCommit, DecideCheck, DecideCommit, ClientLeaves,
       rows, passes
  <2>2. ASSUME NEW r \in Senders, NEW i \in batch[r] PROVE peerOf'[i] = peerOf[i]
    <3>1. i \in Items /\ status[i] # "absent"
      BY DEF EgressInv, ListsAreCleared, Cleared, TypeOK
    <3> QED
      BY <1>3, <3>1 DEF ClientStep, EnqueueCheck, EnqueueCommit, DecideCheck, DecideCommit,
         ClientLeaves, rows, TypeOK
  <2> QED
    BY <2>1, <2>2, RateFrame, ThroughShrinks
<1>4. ASSUME NEW s \in Senders,
             SenderStart(s) \/ StartFails(s) \/ ListApproved(s) \/ Finish(s) \/ MarkSentErrs(s)
                \/ MarkFailedErrs(s) \/ Crash(s)
      PROVE  RateInv'
  <2>1. rate' = rate /\ now' = now /\ peerOf' = peerOf
    BY <1>4 DEF SenderStart, StartFails, ListApproved, Finish, MarkSentErrs, MarkFailedErrs, Crash,
       PassDies, rows
  <2>2. \A r \in Senders : pc'[r] \in {"calling", "sent"} =>
           pc[r] \in {"calling", "sent"} /\ batch'[r] = batch[r]
    BY <1>4 DEF SenderStart, StartFails, ListApproved, Finish, MarkSentErrs, MarkFailedErrs, Crash,
       PassDies, Goto, TypeOK
  <2> QED
    BY <2>1, <2>2, RateFrame, ThroughShrinks
<1>5. ASSUME NEW s \in Senders, NEW i \in Items,
             Deny(s, i) \/ ValidateErrs(s, i) \/ SendReturns(s, i) \/ SendRaises(s, i)
                \/ MarkFailed(s, i)
      PROVE  RateInv'
  <2>1. rate' = rate /\ now' = now /\ peerOf' = peerOf
    BY <1>5 DEF Deny, ValidateErrs, SendReturns, SendRaises, MarkFailed, rows
  <2>2. \A r \in Senders : pc'[r] \in {"calling", "sent"} =>
           pc[r] \in {"calling", "sent"} /\ batch'[r] = batch[r]
    BY <1>5 DEF Deny, ValidateErrs, SendReturns, SendRaises, MarkFailed, Goto, Done, TypeOK
  <2> QED
    BY <2>1, <2>2, RateFrame, ThroughShrinks
<1>6. ASSUME NEW s \in Senders, NEW i \in Items, Validate(s, i) PROVE RateInv'
  <2>1. /\ rate' = rate /\ now' = now /\ peerOf' = peerOf /\ batch' = batch /\ Others(s)
        /\ IsNext(s, i) /\ RateAllows(peerOf[i])
    BY <1>6 DEF Validate, PolicyAllows, Goto, Others, rows, TypeOK
  <2>2. ASSUME NEW sc \in Scopes, NEW h \in Hours
        PROVE  /\ h > Hour(now') => rate'[sc][h] = 0
               /\ h = Hour(now') => rate'[sc][h] + Cardinality(Through(sc)') <= Allowance(sc)
               /\ rate'[sc][h] <= Allowance(sc)
    <3>1. rate[sc][h] \in Nat
      BY DEF TypeOK
    <3>2. CASE sc \in {"global", peerOf[i]}
      <4>1. rate[sc][Hour(now)] < Limit(sc)
        BY <2>1, <3>2 DEF RateAllows
      <4>2. Cardinality(Through(sc)') <= Cardinality(Senders) /\ Cardinality(Through(sc)') \in Nat
        <5>1. Through(sc)' \in SUBSET Senders
          BY DEF Through
        <5> QED
          BY <5>1, SomeSenders
      <4>3. h = Hour(now) => rate[sc][h] + Cardinality(Through(sc)') <= Allowance(sc)
        BY <3>1, <4>1, <4>2, AllowanceIsNatural DEF Allowance
      <4> QED
        BY <2>1, <4>3 DEF RateInv
    <3>3. CASE sc \notin {"global", peerOf[i]}
      <4>1. Through(sc)' \subseteq Through(sc)
        BY <2>1, <3>3, NextIsUnique, StaysNext DEF Through, Others
      <4>2. /\ Cardinality(Through(sc)') <= Cardinality(Through(sc))
            /\ Cardinality(Through(sc)') \in Nat /\ Cardinality(Through(sc)) \in Nat
        BY <4>1, ThroughSenders, Fewer, SomeSenders
      <4> QED
        BY <2>1, <3>1, <4>2, AllowanceIsNatural DEF RateInv
    <3> QED
      BY <3>2, <3>3
  <2> QED
    BY <2>2 DEF RateInv, Allowance, Limit
<1>7. ASSUME NEW s \in Senders, NEW i \in Items, MarkSent(s, i) PROVE RateInv'
  <2>1. /\ now' = now /\ peerOf' = peerOf /\ Others(s) /\ IsNext(s, i)
        /\ pc[s] = "sent" /\ pc'[s] = "looping"
    BY <1>7 DEF MarkSent, Goto, Done, Others, TypeOK
  <2>2. Hour(now) \in Hours
    BY HourOfNow DEF TypeOK
  <2>3. ASSUME NEW sc \in Scopes, NEW h \in Hours
        PROVE  /\ h > Hour(now') => rate'[sc][h] = 0
               /\ h = Hour(now') => rate'[sc][h] + Cardinality(Through(sc)') <= Allowance(sc)
               /\ rate'[sc][h] <= Allowance(sc)
    <3>1. rate[sc][h] \in Nat /\ Hour(now) \in Nat
      BY HoursAdvance DEF TypeOK, Times
    <3>2. rate'[sc][h] = IF sc \in {"global", peerOf[i]} /\ h = Hour(now)
                         THEN rate[sc][h] + 1 ELSE rate[sc][h]
      BY <1>7, <2>2 DEF MarkSent, Charged, TypeOK
    <3>3. Through(sc)' \subseteq Through(sc) \ {s}
      BY <2>1, StaysNext DEF Through, Others
    <3>4. /\ Cardinality(Through(sc)') <= Cardinality(Through(sc))
          /\ Cardinality(Through(sc)') \in Nat /\ Cardinality(Through(sc)) \in Nat
      BY <3>3, ThroughSenders, Fewer, SomeSenders
    <3>5. sc \in {"global", peerOf[i]} => Cardinality(Through(sc)') <= Cardinality(Through(sc)) - 1
      <4>1. sc \in {"global", peerOf[i]} => s \in Through(sc)
        BY <2>1 DEF Through
      <4> QED
        BY <3>3, <4>1, ThroughSenders, OneFewer
    <3> QED
      BY <2>1, <3>1, <3>2, <3>4, <3>5, AllowanceIsNatural DEF RateInv
  <2> QED
    BY <2>3 DEF RateInv, Allowance, Limit
<1> QED
  BY <1>1, <1>2, <1>3, <1>4, <1>5, <1>6, <1>7 DEF Next, PassStep, PassFault

(* For any number of senders, peers and limits, a window is over its limit by at
   most the number of the other senders. *)
THEOREM WindowsAreBounded == Spec => []RateBound
<1>1. Init => RateInv
  <2> SUFFICES ASSUME Init PROVE RateInv
    OBVIOUS
  <2>1. \A sc : Through(sc) = {}
    BY DEF Init, Through
  <2>2. \A sc \in Scopes, h \in Hours : rate[sc][h] = 0
    BY DEF Init
  <2> QED
    BY <2>1, <2>2, FS_EmptySet, AllowanceIsNatural DEF RateInv
<1>2. RateInv => RateBound
  BY DEF RateInv, RateBound, Allowance
<1> QED
  BY <1>1, <1>2, RateStep, EgressInvariant, PTL DEF Spec

-----------------------------------------------------------------------------
(* Deliveries of a row.  While it is open, each of them is of a sender that still
   holds what came of its call, or of one that died; once it is closed, only the
   senders that have it on their list and before them may deliver it again. *)

Closed     == {"sent", "failed"}
Handing(i) == {s \in Senders : pc[s] \in {"sent", "erred"} /\ IsNext(s, i)}
Waiting(i) == {s \in Senders : i \in batch[s]} \ Handing(i)

Counted(i) ==
    /\ status[i] \notin Closed => delivered[i] <= faults + Cardinality(Handing(i))
    /\ status[i] \in Closed =>
          delivered[i] + Cardinality(Waiting(i)) <= faults + Cardinality(Senders)

DeliveryInv == \A i \in Items : Counted(i)

LEMMA CountsAreNatural ==
    ASSUME NEW i
    PROVE  /\ Handing(i) \in SUBSET Senders /\ Waiting(i) \in SUBSET Senders
           /\ Cardinality(Handing(i)) \in Nat /\ Cardinality(Waiting(i)) \in Nat
           /\ Cardinality(Senders) \in Nat
<1>1. Handing(i) \in SUBSET Senders /\ Waiting(i) \in SUBSET Senders
  BY DEF Handing, Waiting
<1> QED
  BY <1>1, SomeSenders

LEMMA Apart ==
    ASSUME NEW S \in SUBSET Senders, NEW T \in SUBSET (Senders \ S)
    PROVE  Cardinality(S) + Cardinality(T) <= Cardinality(Senders)
<1>1. Cardinality(Senders \ S) = Cardinality(Senders) - Cardinality(S)
  <2>1. Senders \cap S = S
    OBVIOUS
  <2> QED
    BY <2>1, SomeSenders, FS_Difference
<1>2. Cardinality(T) <= Cardinality(Senders \ S)
  BY Fewer
<1>3. Cardinality(S) \in Nat /\ Cardinality(T) \in Nat /\ Cardinality(Senders) \in Nat
  BY SomeSenders
<1> QED
  BY <1>1, <1>2, <1>3

(* A step that delivers nothing and closes nothing. *)
LEMMA CountedFrame ==
    ASSUME TypeOK, TypeOK', NEW i \in Items, Counted(i),
           delivered'[i] = delivered[i], faults' = faults,
           status'[i] \in Closed <=> status[i] \in Closed,
           status[i] \notin Closed => Handing(i) \subseteq Handing(i)',
           status[i] \in Closed => Waiting(i)' \subseteq Waiting(i)
    PROVE  Counted(i)'
<1>1. Handing(i)' \in SUBSET Senders /\ Waiting(i)' \in SUBSET Senders
  BY DEF Handing, Waiting
<1>2. Cardinality(Handing(i)') \in Nat /\ Cardinality(Waiting(i)') \in Nat
  BY <1>1, SomeSenders
<1>3. status[i] \notin Closed => Cardinality(Handing(i)) <= Cardinality(Handing(i)')
  BY <1>1, Fewer
<1>4. status[i] \in Closed => Cardinality(Waiting(i)') <= Cardinality(Waiting(i))
  BY CountsAreNatural, Fewer
<1>5. delivered[i] \in Nat /\ faults \in Nat
  BY BoundsAreNaturals DEF TypeOK
<1> QED
  BY <1>2, <1>3, <1>4, <1>5, CountsAreNatural DEF Counted

(* The senders other than s count as before, and s as the step leaves it. *)
LEMMA OthersCount ==
    ASSUME NEW s \in Senders, Others(s), NEW i
    PROVE  /\ Handing(i)' \ {s} = Handing(i) \ {s}
           /\ Waiting(i)' \ {s} = Waiting(i) \ {s}
  BY DEF Others, Handing, Waiting, IsNext

LEMMA AllTheSame ==
    ASSUME UNCHANGED <<pc, batch>>, NEW i
    PROVE  Handing(i)' = Handing(i) /\ Waiting(i)' = Waiting(i)
  BY DEF Handing, Waiting, IsNext

LEMMA DeliveryStep == TypeOK /\ TypeOK' /\ EgressInv /\ DeliveryInv /\ [Next]_vars => DeliveryInv'
<1> SUFFICES ASSUME TypeOK, TypeOK', EgressInv, DeliveryInv, [Next]_vars, NEW j \in Items
             PROVE  Counted(j)'
  BY DEF DeliveryInv
<1>0. Counted(j) /\ delivered[j] \in Nat /\ faults \in Nat
  BY BoundsAreNaturals DEF DeliveryInv, TypeOK
<1>1. CASE UNCHANGED vars \/ Environment
  <2>1. UNCHANGED <<status, delivered, faults, pc, batch>>
    BY <1>1 DEF vars, Environment, Tick, EditAllowSend, RegisterPeer, rows, passes
  <2> QED
    BY <1>0, <2>1, AllTheSame, CountedFrame
<1>2. ASSUME NEW c \in Clients, ClientStep(c) PROVE Counted(j)'
  <2>1. UNCHANGED <<delivered, faults, pc, batch>>
    BY <1>2 DEF ClientStep, EnqueueCheck, EnqueueCommit, DecideCheck, DecideCommit, ClientLeaves, passes
  <2>2. status'[j] \in Closed <=> status[j] \in Closed
    <3>1. CASE DecideCommit(c)
      <4>1. client[c].decision \in {"approved", "rejected"}
        BY <3>1 DEF DecideCommit, TypeOK, Requests, Idle, Decisions
      <4> QED
        BY <3>1, <4>1 DEF DecideCommit, Moved, TypeOK, Closed
    <3> QED
      BY <1>2, <3>1 DEF ClientStep, EnqueueCheck, EnqueueCommit, DecideCheck, ClientLeaves, rows,
         TypeOK, Closed
  <2> QED
    BY <1>0, <2>1, <2>2, AllTheSame, CountedFrame
<1>3. ASSUME NEW s \in Senders,
             SenderStart(s) \/ StartFails(s) \/ Finish(s) \/ MarkSentErrs(s)
                \/ (\E i \in Items : Validate(s, i) \/ Deny(s, i) \/ ValidateErrs(s, i)
                                       \/ (SendRaises(s, i) /\ UNCHANGED delivered))
      PROVE  Counted(j)'
  <2>1. /\ UNCHANGED <<status, delivered, faults, batch>> /\ Others(s)
        /\ pc[s] \in {"sent", "erred"} => pc'[s] \in {"sent", "erred"}
    BY <1>3 DEF SenderStart, StartFails, Finish, MarkSentErrs, Validate, Deny, ValidateErrs, SendRaises,
       Goto, Others, rows, TypeOK
  <2>2. Handing(j) \subseteq Handing(j)' /\ Waiting(j)' \subseteq Waiting(j)
    BY <2>1 DEF Others, Handing, Waiting, IsNext
  <2> QED
    BY <1>0, <2>1, <2>2, CountedFrame
<1>4. ASSUME NEW s \in Senders, ListApproved(s) PROVE Counted(j)'
  <2>1. /\ UNCHANGED <<status, delivered, faults>> /\ Others(s) /\ pc[s] = "starting"
        /\ j \in batch'[s] => status[j] = "approved"
    BY <1>4 DEF ListApproved, Goto, Others, rows, TypeOK
  <2>2. Handing(j) \subseteq Handing(j)' /\ (status[j] \in Closed => Waiting(j)' \subseteq Waiting(j))
    BY <2>1 DEF Others, Handing, Waiting, IsNext, Closed
  <2> QED
    BY <1>0, <2>1, <2>2, CountedFrame
<1>5. ASSUME NEW s \in Senders, NEW i \in Items, SendReturns(s, i) \/ SendRaises(s, i), Accepted(i)
      PROVE  Counted(j)'
  <2>1. /\ UNCHANGED <<status, faults, batch>> /\ Others(s) /\ IsNext(s, i)
        /\ pc[s] = "calling" /\ pc'[s] \in {"sent", "erred"}
    BY <1>5 DEF SendReturns, SendRaises, Goto, Others, rows, TypeOK
  <2>2. CASE j # i
    <3>1. delivered'[j] = delivered[j]
      BY <1>5, <2>2, AcceptedAdds
    <3>2. Handing(j) \subseteq Handing(j)' /\ Waiting(j)' \subseteq Waiting(j)
      BY <2>1 DEF Others, Handing, Waiting, IsNext
    <3> QED
      BY <1>0, <2>1, <3>1, <3>2, CountedFrame
  <2>3. CASE j = i
    <3>1. delivered'[j] = delivered[j] + 1
      BY <1>5, <2>3, AcceptedAdds
    <3>2. s \in Handing(j)' /\ Handing(j) \subseteq Handing(j)' \ {s} /\ Handing(j)' \in SUBSET Senders
      BY <2>1, <2>3 DEF Others, Handing, IsNext
    <3>3. s \in Waiting(j) /\ Waiting(j)' \subseteq Waiting(j) \ {s}
      BY <2>1, <2>3 DEF Others, Handing, Waiting, IsNext
    <3>4. Cardinality(Handing(j)) <= Cardinality(Handing(j)') - 1 /\ Cardinality(Handing(j)') \in Nat
      BY <3>2, OneFewer, SomeSenders
    <3>5. Cardinality(Waiting(j)') <= Cardinality(Waiting(j)) - 1 /\ Cardinality(Waiting(j)') \in Nat
      BY <3>3, CountsAreNatural, OneFewer, SomeSenders
    <3> QED
      BY <1>0, <2>1, <3>1, <3>4, <3>5, CountsAreNatural DEF Counted
  <2> QED
    BY <2>2, <2>3
<1>6. ASSUME NEW s \in Senders, NEW i \in Items, MarkSent(s, i) \/ MarkFailed(s, i)
      PROVE  Counted(j)'
  <2>1. /\ UNCHANGED <<delivered, faults>> /\ Others(s) /\ IsNext(s, i)
        /\ batch'[s] \subseteq batch[s] \ {i} /\ pc'[s] \notin {"sent", "erred"}
    BY <1>6 DEF MarkSent, MarkFailed, Goto, Done, Others, TypeOK
  <2>2. PICK to \in Closed : status' = Moved(i, "approved", to)
    BY <1>6 DEF MarkSent, MarkFailed, Closed
  <2>3. CASE j = i /\ status[j] = "approved"
    <3>1. status[j] \notin Closed /\ status'[j] \in Closed
      BY <2>2, <2>3 DEF Moved, Closed, TypeOK
    <3>2. Waiting(j)' \subseteq Senders \ Handing(j)
      BY <2>1, <2>3 DEF Others, Handing, Waiting, IsNext
    <3>3. Cardinality(Handing(j)) + Cardinality(Waiting(j)') <= Cardinality(Senders)
      BY <3>2, CountsAreNatural, Apart
    <3>4. Cardinality(Waiting(j)') \in Nat
      BY <3>2, SomeSenders
    <3> QED
      BY <1>0, <2>1, <3>1, <3>3, <3>4, CountsAreNatural DEF Counted
  <2>4. CASE ~(j = i /\ status[j] = "approved")
    <3>1. status'[j] = status[j]
      BY <2>2, <2>4 DEF Moved, TypeOK
    <3>2. Waiting(j)' \subseteq Waiting(j)
      <4>1. s \in Waiting(j)' => s \in Waiting(j)
        <5>1. j # i => ~IsNext(s, j)
          BY <2>1, NextIsUnique
        <5> QED
          BY <2>1, <5>1 DEF Handing, Waiting
      <4> QED
        BY <2>1, <4>1, OthersCount
    <3>3. status[j] \notin Closed => Handing(j) \subseteq Handing(j)'
      <4>1. status[i] \in Cleared
        BY <2>1 DEF EgressInv, ListsAreCleared, IsNext
      <4>2. status[j] \notin Closed => ~IsNext(s, j)
        BY <2>1, <2>4, <4>1, NextIsUnique DEF Cleared, Closed
      <4> QED
        BY <2>1, <4>2, OthersCount DEF Handing
    <3> QED
      BY <1>0, <2>1, <3>1, <3>2, <3>3, CountedFrame
  <2> QED
    BY <2>3, <2>4
<1>7. ASSUME NEW s \in Senders, MarkFailedErrs(s) \/ Crash(s) PROVE Counted(j)'
  <2>1. /\ status' = status /\ faults' = faults + 1 /\ Others(s)
        /\ batch'[s] = {} /\ pc'[s] = "idle"
    BY <1>7 DEF MarkFailedErrs, Crash, PassDies, Goto, Others, rows, TypeOK
  <2>2. \/ delivered'[j] = delivered[j]
        \/ delivered'[j] = delivered[j] + 1 /\ pc[s] = "calling"
    BY <1>7, AcceptedAdds DEF MarkFailedErrs, Crash
  <2>3. /\ Handing(j) \subseteq Handing(j)' \cup {s} /\ Handing(j)' \in SUBSET Senders
        /\ pc[s] = "calling" => Handing(j) \subseteq Handing(j)'
        /\ Waiting(j)' \subseteq Waiting(j)
    BY <2>1 DEF Others, Handing, Waiting, IsNext
  <2>4. /\ Cardinality(Handing(j)) <= Cardinality(Handing(j)') + 1
        /\ pc[s] = "calling" => Cardinality(Handing(j)) <= Cardinality(Handing(j)')
        /\ Cardinality(Handing(j)') \in Nat
    BY <2>3, OneMore, Fewer, SomeSenders
  <2>5. Cardinality(Waiting(j)') <= Cardinality(Waiting(j)) /\ Cardinality(Waiting(j)') \in Nat
    BY <2>3, CountsAreNatural, Fewer, SomeSenders
  <2> QED
    BY <1>0, <2>1, <2>2, <2>4, <2>5, CountsAreNatural DEF Counted
<1> QED
  <2>1. ASSUME NEW s \in Senders, NEW i \in Items, SendReturns(s, i) \/ SendRaises(s, i)
        PROVE  Counted(j)'
    BY <1>3, <1>5, <2>1 DEF SendReturns, SendRaises
  <2> QED
    BY <1>1, <1>2, <1>3, <1>4, <1>6, <1>7, <2>1 DEF Next, PassStep, PassFault

(* For any number of senders and rows, a row is delivered at most once per sender
   and once more for each pass that died. *)
THEOREM DeliveriesAreBounded == Spec => []DeliveryBound
<1>1. Init => DeliveryInv
  <2> SUFFICES ASSUME Init, NEW i \in Items PROVE Counted(i)
    BY DEF DeliveryInv
  <2>1. delivered[i] = 0 /\ faults = 0 /\ status[i] \notin Closed
    BY DEF Init, Closed
  <2> QED
    BY <2>1, CountsAreNatural DEF Counted
<1>2. TypeOK /\ DeliveryInv => DeliveryBound
  <2> SUFFICES ASSUME TypeOK, DeliveryInv, NEW i \in Items
               PROVE  delivered[i] <= Cardinality(Senders) + faults
    BY DEF DeliveryBound
  <2>1. Counted(i) /\ delivered[i] \in Nat /\ faults \in Nat
    BY BoundsAreNaturals DEF DeliveryInv, TypeOK
  <2>2. Cardinality(Handing(i)) <= Cardinality(Senders)
    BY CountsAreNatural, SomeSenders
  <2> QED
    BY <2>1, <2>2, CountsAreNatural DEF Counted
<1> QED
  BY <1>1, <1>2, DeliveryStep, EgressInvariant, PTL DEF Spec

=============================================================================
