------------------------------- MODULE Outbox -------------------------------
(***************************************************************************)
(* The moderated outbox: the CLI processes that enqueue and decide, the    *)
(* sender processes of `tgq outbox send`, the SQLite rows they share (the  *)
(* tables outbox, rate_limit and audit) and what reached Telegram.         *)
(*                                                                         *)
(* Every process works in its own OS process on the same database file.    *)
(* A policy check and the transaction that follows it are two actions,     *)
(* since the code checks outside of the transaction.  A transaction is one *)
(* action.  An await is an action boundary.                                *)
(*                                                                         *)
(* Row ids are assigned in the order of insertion and the clock does not   *)
(* go back, so "ORDER BY created_at, id" is the order of the ids.  A       *)
(* message body is checked by a pure predicate of the body, which never    *)
(* changes after the insert: only bodies that pass it are modelled.        *)
(***************************************************************************)
EXTENDS Integers, FiniteSets

CONSTANTS
    Peers,          \* rows of the table peers
    Clients,        \* CLI processes that run `outbox enqueue/approve/reject`
    Senders,        \* processes that run `outbox send`
    MaxItems,       \* bound: rows ever inserted
    MaxTime,        \* bound: the clock stops here
    MaxFaults,      \* bound: passes that die with a row in hand
    MaxEdits,       \* bound: changes of the configuration while others run
    HourLen,        \* length of a rate window (3600 in the code)
    GlobalPerHour,  \* rate_limits.global_per_hour
    PeerPerHour,    \* rate_limits.peer_per_hour
    MinGap          \* rate_limits.minimum_gap_seconds

(* config._positive refuses a limit that is not a positive integer. *)
ASSUME LimitsArePositive ==
    {HourLen, GlobalPerHour, PeerPerHour, MinGap} \subseteq Nat \ {0}

ASSUME BoundsAreNaturals == {MaxItems, MaxTime, MaxFaults, MaxEdits} \subseteq Nat

(* The scope "global" of a counter is not the scope of a peer. *)
ASSUME GlobalIsNoPeer == "global" \notin Peers

ASSUME SendersAreFinite == IsFiniteSet(Senders)

Items     == 1 .. MaxItems
Times     == 0 .. MaxTime
Hour(t)   == t \div HourLen
Hours     == {Hour(t) : t \in Times}
Scopes    == Peers \cup {"global"}
(* A definition named Operator_Mistake, here and below, is a mutant of Operator:
   the runs must tell the two apart. *)
Decisions_Unchecked == {"approved", "rejected", "later"}

Decisions == {"approved", "rejected"}
Statuses  == {"absent", "pending", "approved", "rejected", "sent", "failed"}
AuditActions == {"enqueue", "approved", "rejected", "send", "fail"}

(* What a CLI process holds between its check and its transaction. *)
Idle     == [op |-> "idle"]
Requests == [op : {"enqueue"}, peer : Peers]
                \cup [op : {"decide"}, item : Items, decision : Decisions]

(***************************************************************************)
(* A sender is idle, starting (configuration loaded, connecting to         *)
(* Telegram), looping over its batch, calling send_message, holding the    *)
(* result of a successful call, holding an exception, or holding a         *)
(* PolicyError.                                                            *)
(***************************************************************************)
SenderStates == {"idle", "starting", "looping", "calling",
                 "sent", "erred", "denied"}

VARIABLES
    now,        \* the wall clock all the processes read
    allowSend,  \* allow_send of the watchlist file
    sendable,   \* the peers whose column sendable is 1
    status,     \* outbox.status, "absent" before the insert
    peerOf,     \* outbox.peer_id
    sentAt,     \* outbox.sent_at, read only where status is "sent"
    rate,       \* rate_limit.count by scope and window
    audit,      \* number of audit rows by action and target
    client,     \* what each CLI process holds
    pc,         \* where each sender is
    loaded,     \* allow_send as the sender's process loaded it
    batch,      \* the rows a sender has still to process, the current one too
    delivered,  \* how often Telegram accepted the message of a row
    faults,     \* passes that died with a row in hand
    edits       \* changes of the configuration so far

config   == <<allowSend, sendable, edits>>
rows     == <<status, peerOf, sentAt, rate, audit>>
passes   == <<pc, loaded, batch>>
vars     == <<now, config, rows, client, passes, delivered, faults>>

TypeOK ==
    /\ now \in Times
    /\ allowSend \in BOOLEAN
    /\ sendable \subseteq Peers
    /\ status \in [Items -> Statuses]
    /\ peerOf \in [Items -> Peers \cup {"none"}]
    /\ sentAt \in [Items -> Times]
    /\ rate \in [Scopes -> [Hours -> Nat]]
    /\ audit \in [AuditActions -> [Items -> Nat]]
    /\ client \in [Clients -> Requests \cup {Idle}]
    /\ pc \in [Senders -> SenderStates]
    /\ loaded \in [Senders -> BOOLEAN]
    /\ batch \in [Senders -> SUBSET Items]
    /\ delivered \in [Items -> Nat]
    /\ faults \in 0 .. MaxFaults
    /\ edits \in 0 .. MaxEdits

Init ==
    /\ now = 0
    /\ allowSend \in BOOLEAN
    /\ sendable \in SUBSET Peers
    /\ status = [i \in Items |-> "absent"]
    /\ peerOf = [i \in Items |-> "none"]
    /\ sentAt = [i \in Items |-> 0]
    /\ rate = [sc \in Scopes |-> [h \in Hours |-> 0]]
    /\ audit = [a \in AuditActions |-> [i \in Items |-> 0]]
    /\ client = [c \in Clients |-> Idle]
    /\ pc = [s \in Senders |-> "idle"]
    /\ loaded = [s \in Senders |-> FALSE]
    /\ batch = [s \in Senders |-> {}]
    /\ delivered = [i \in Items |-> 0]
    /\ faults = 0
    /\ edits = 0

-----------------------------------------------------------------------------
(* The policy checks *)

Limit(sc) == IF sc = "global" THEN GlobalPerHour ELSE PeerPerHour

RateAllows_OneMore(p) ==
    \A sc \in {"global", p} : rate[sc][Hour(now)] <= Limit(sc)

RateAllows(p) ==
    \A sc \in {"global", p} : rate[sc][Hour(now)] < Limit(sc)

GapElapsed_OneLess ==
    \A i \in Items : status[i] = "sent" => now - sentAt[i] >= MinGap - 1

GapElapsed ==
    \A i \in Items : status[i] = "sent" => now - sentAt[i] >= MinGap

(* _validate, for a process whose configuration says allow. *)
PolicyAllows(allow, p) ==
    /\ allow
    /\ p \in sendable
    /\ RateAllows(p)
    /\ GapElapsed

Moved_Always(i, from, to) == [status EXCEPT ![i] = to]

(* UPDATE outbox SET status=to WHERE id=i AND status=from: a row that is no
   longer in `from` is left alone and the statement still succeeds. *)
Moved(i, from, to) ==
    IF status[i] = from THEN [status EXCEPT ![i] = to] ELSE status

Audited(a, i) == [audit EXCEPT ![a][i] = @ + 1]

-----------------------------------------------------------------------------
(* The environment: the clock, the operator who edits the watchlist file and
   the sync process that copies a peer's sendable flag into the database. *)

Tick ==
    /\ now < MaxTime
    /\ now' = now + 1
    /\ UNCHANGED <<config, rows, client, passes, delivered, faults>>

Edit == edits < MaxEdits /\ edits' = edits + 1

EditAllowSend ==
    /\ Edit
    /\ allowSend' = ~allowSend
    /\ UNCHANGED <<now, sendable, rows, client, passes, delivered, faults>>

RegisterPeer(p) ==
    /\ Edit
    /\ \/ sendable' = sendable \cup {p}
       \/ sendable' = sendable \ {p}
    /\ UNCHANGED <<now, allowSend, rows, client, passes, delivered, faults>>

-----------------------------------------------------------------------------
(* The CLI processes *)

(* A call that the policy refuses changes nothing. *)
EnqueueCheck(c, p) ==
    /\ client[c] = Idle
    /\ PolicyAllows(allowSend, p)
    /\ client' = [client EXCEPT ![c] = [op |-> "enqueue", peer |-> p]]
    /\ UNCHANGED <<now, config, rows, passes, delivered, faults>>

(* The insert takes the next row id. *)
EnqueueCommit(c, i) ==
    /\ client[c].op = "enqueue"
    /\ status[i] = "absent"
    /\ \A j \in Items : j < i => status[j] # "absent"
    /\ status' = [status EXCEPT ![i] = "pending"]
    /\ peerOf' = [peerOf EXCEPT ![i] = client[c].peer]
    /\ audit' = Audited("enqueue", i)
    /\ client' = [client EXCEPT ![c] = Idle]
    /\ UNCHANGED <<now, config, sentAt, rate, passes, delivered, faults>>

DecideCheck(c, i, d) ==
    /\ client[c] = Idle
    /\ status[i] = "pending"
    /\ client' = [client EXCEPT ![c] = [op |-> "decide", item |-> i, decision |-> d]]
    /\ UNCHANGED <<now, config, rows, passes, delivered, faults>>

(* The update is conditional, the audit row is not. *)
DecideCommit(c) ==
    /\ client[c].op = "decide"
    /\ status' = Moved(client[c].item, "pending", client[c].decision)
    /\ audit' = Audited(client[c].decision, client[c].item)
    /\ client' = [client EXCEPT ![c] = Idle]
    /\ UNCHANGED <<now, config, peerOf, sentAt, rate, passes, delivered, faults>>

(* --dry-run returns after the check; so does a process that dies there or
   whose transaction fails and is rolled back. *)
ClientLeaves(c) ==
    /\ client[c] # Idle
    /\ client' = [client EXCEPT ![c] = Idle]
    /\ UNCHANGED <<now, config, rows, passes, delivered, faults>>

-----------------------------------------------------------------------------
(* The sender processes.  A dry-run pass only reads. *)

Goto(s, state) == pc' = [pc EXCEPT ![s] = state]

(* The next row of a pass is the oldest of its list that is left. *)
IsNext(s, i) ==
    /\ i \in batch[s]
    /\ \A j \in batch[s] : i <= j

Done(s, i) == batch' = [batch EXCEPT ![s] = @ \ {i}]

SenderStart_Cached(s) ==
    /\ pc[s] = "idle"
    /\ Goto(s, "starting")
    /\ loaded' = [loaded EXCEPT ![s] = @ \/ allowSend]
    /\ UNCHANGED <<now, config, rows, client, batch, delivered, faults>>

(* The configuration is loaded once, before the connection is made. *)
SenderStart(s) ==
    /\ pc[s] = "idle"
    /\ Goto(s, "starting")
    /\ loaded' = [loaded EXCEPT ![s] = allowSend]
    /\ UNCHANGED <<now, config, rows, client, batch, delivered, faults>>

(* Credentials, the session or the connection fail. *)
StartFails(s) ==
    /\ pc[s] = "starting"
    /\ Goto(s, "idle")
    /\ UNCHANGED <<now, config, rows, client, loaded, batch, delivered, faults>>

ListApproved_PendingToo(s) ==
    /\ pc[s] = "starting"
    /\ Goto(s, "looping")
    /\ batch' = [batch EXCEPT ![s] = {i \in Items : status[i] \in {"pending", "approved"}}]
    /\ UNCHANGED <<now, config, rows, client, loaded, delivered, faults>>

(* The list of approved rows is read once, when the pass begins. *)
ListApproved(s) ==
    /\ pc[s] = "starting"
    /\ Goto(s, "looping")
    /\ batch' = [batch EXCEPT ![s] = {i \in Items : status[i] = "approved"}]
    /\ UNCHANGED <<now, config, rows, client, loaded, delivered, faults>>

(* validate_before_send passes.  Its reads are taken as one step; it does not
   read the status of the row again. *)
Validate(s, i) ==
    /\ pc[s] = "looping"
    /\ IsNext(s, i)
    /\ PolicyAllows(loaded[s], peerOf[i])
    /\ Goto(s, "calling")
    /\ UNCHANGED <<now, config, rows, client, loaded, batch, delivered, faults>>

Deny_Waits(s, i) == FALSE

(* It raises PolicyError. *)
Deny(s, i) ==
    /\ pc[s] = "looping"
    /\ IsNext(s, i)
    /\ ~PolicyAllows(loaded[s], peerOf[i])
    /\ Goto(s, "denied")
    /\ UNCHANGED <<now, config, rows, client, loaded, batch, delivered, faults>>

(* It raises another exception, such as a locked database. *)
ValidateErrs(s, i) ==
    /\ pc[s] = "looping"
    /\ IsNext(s, i)
    /\ Goto(s, "erred")
    /\ UNCHANGED <<now, config, rows, client, loaded, batch, delivered, faults>>

Accepted(i) == delivered' = [delivered EXCEPT ![i] = @ + 1]

(* send_message returns: Telegram took the message. *)
SendReturns(s, i) ==
    /\ pc[s] = "calling"
    /\ IsNext(s, i)
    /\ Accepted(i)
    /\ Goto(s, "sent")
    /\ UNCHANGED <<now, config, rows, client, loaded, batch, faults>>

SendRaises_Swallowed(s, i) ==
    /\ pc[s] = "calling"
    /\ IsNext(s, i)
    /\ Accepted(i) \/ UNCHANGED delivered
    /\ Goto(s, "sent")
    /\ UNCHANGED <<now, config, rows, client, loaded, batch, faults>>

(* send_message raises.  The message may have been taken all the same: the
   answer was lost. *)
SendRaises(s, i) ==
    /\ pc[s] = "calling"
    /\ IsNext(s, i)
    /\ Accepted(i) \/ UNCHANGED delivered
    /\ Goto(s, "erred")
    /\ UNCHANGED <<now, config, rows, client, loaded, batch, faults>>

(* Both counters of a send, in the window of the current hour. *)
Charged(i) ==
    [sc \in Scopes |-> IF sc \in {"global", peerOf[i]}
                       THEN [rate[sc] EXCEPT ![Hour(now)] = @ + 1]
                       ELSE rate[sc]]

(* The counters and the audit row are written whether or not the update found
   the row still approved. *)
MarkSent(s, i) ==
    /\ pc[s] = "sent"
    /\ IsNext(s, i)
    /\ status' = Moved(i, "approved", "sent")
    /\ sentAt' = IF status[i] = "approved" THEN [sentAt EXCEPT ![i] = now] ELSE sentAt
    /\ rate' = Charged(i)
    /\ audit' = Audited("send", i)
    /\ Done(s, i)
    /\ Goto(s, "looping")
    /\ UNCHANGED <<now, config, peerOf, client, loaded, delivered, faults>>

MarkSentErrs_NoRollback(s) ==
    /\ pc[s] = "sent"
    /\ \E i \in Items : IsNext(s, i) /\ audit' = Audited("send", i)
    /\ Goto(s, "erred")
    /\ UNCHANGED <<now, config, status, peerOf, sentAt, rate, client, loaded, batch, delivered, faults>>

(* The transaction of mark_sent is rolled back; send_approved goes on as for a
   message that was not sent. *)
MarkSentErrs(s) ==
    /\ pc[s] = "sent"
    /\ Goto(s, "erred")
    /\ UNCHANGED <<now, config, rows, client, loaded, batch, delivered, faults>>

MarkFailed_StaysOpen(s, i) ==
    /\ pc[s] \in {"erred", "denied"}
    /\ IsNext(s, i)
    /\ Goto(s, "idle")
    /\ batch' = [batch EXCEPT ![s] = {}]
    /\ UNCHANGED <<now, config, rows, client, loaded, delivered, faults>>

(* mark_failed: after an exception the pass goes on with the next row, after a
   PolicyError it ends and the rest of the list stays approved. *)
MarkFailed(s, i) ==
    /\ pc[s] \in {"erred", "denied"}
    /\ IsNext(s, i)
    /\ status' = Moved(i, "approved", "failed")
    /\ audit' = Audited("fail", i)
    /\ \/ pc[s] = "erred" /\ Goto(s, "looping") /\ Done(s, i)
       \/ pc[s] = "denied" /\ Goto(s, "idle") /\ batch' = [batch EXCEPT ![s] = {}]
    /\ UNCHANGED <<now, config, peerOf, sentAt, rate, client, loaded, delivered, faults>>

PassDies(s) ==
    /\ faults < MaxFaults
    /\ faults' = faults + 1
    /\ Goto(s, "idle")
    /\ batch' = [batch EXCEPT ![s] = {}]
    /\ UNCHANGED <<now, config, rows, client, loaded>>

(* mark_failed itself fails and its exception leaves send_approved. *)
MarkFailedErrs(s) ==
    /\ pc[s] \in {"erred", "denied"}
    /\ PassDies(s)
    /\ UNCHANGED delivered

(* The process is killed.  A call it had under way may still be served. *)
Crash(s) ==
    /\ pc[s] \notin {"idle", "starting"}
    /\ PassDies(s)
    /\ \/ UNCHANGED delivered
       \/ /\ pc[s] = "calling"
          /\ \E i \in Items : IsNext(s, i) /\ Accepted(i)

Finish(s) ==
    /\ pc[s] = "looping"
    /\ batch[s] = {}
    /\ Goto(s, "idle")
    /\ UNCHANGED <<now, config, rows, client, loaded, batch, delivered, faults>>

-----------------------------------------------------------------------------

Environment ==
    \/ Tick
    \/ EditAllowSend
    \/ \E p \in Peers : RegisterPeer(p)

ClientStep(c) ==
    \/ \E p \in Peers : EnqueueCheck(c, p)
    \/ \E i \in Items : EnqueueCommit(c, i)
    \/ \E i \in Items, d \in Decisions : DecideCheck(c, i, d)
    \/ DecideCommit(c)
    \/ ClientLeaves(c)

(* What the code of a pass does once it is started ... *)
PassStep(s) ==
    \/ ListApproved(s)
    \/ \E i \in Items :
          \/ Validate(s, i) \/ Deny(s, i)
          \/ SendReturns(s, i) \/ SendRaises(s, i)
          \/ MarkSent(s, i) \/ MarkFailed(s, i)
    \/ Finish(s)

(* ... and the exceptions that its other calls may raise. *)
PassFault(s) ==
    \/ StartFails(s)
    \/ \E i \in Items : ValidateErrs(s, i)
    \/ MarkSentErrs(s)
    \/ MarkFailedErrs(s)

Next ==
    \/ Environment
    \/ \E c \in Clients : ClientStep(c)
    \/ \E s \in Senders : SenderStart(s) \/ PassStep(s) \/ PassFault(s) \/ Crash(s)

Spec == Init /\ [][Next]_vars

(* A process that runs takes its next step, and a call to Telegram returns or
   raises in the end.  Nobody has to start a process, and nothing else has to
   fail: a pass must end without the help of an exception. *)
FairSpec == Spec /\ \A s \in Senders : WF_vars(PassStep(s))

-----------------------------------------------------------------------------
(* Properties *)

(* A human cleared the row: it was approved, whatever became of it since. *)
Cleared == {"approved", "sent", "failed"}

(* Only a row that a human approved leaves for Telegram or is closed: the
   audit log holds the approval and no rejection took its place.  This is what
   the guard of decide's UPDATE (outbox.py:90-96) and the WHERE clause of
   approved() (outbox.py:103) protect when deciders and senders interleave. *)
NothingLeavesUnapproved ==
    \A i \in Items :
        delivered[i] > 0 \/ status[i] \in {"sent", "failed"}
            => audit["approved"][i] > 0 /\ status[i] \in Cleared

(* Why it is so: an approval is audited in the transaction that makes it, a
   list holds cleared rows only and rows stay cleared, so a row is transmitted
   or closed only if it is cleared, and marked as sent only after the call.
   These facts together are inductive. *)
ApprovalsAudited == \A i \in Items : status[i] \in Cleared => audit["approved"][i] > 0
ListsAreCleared  == \A s \in Senders : \A i \in batch[s] : status[i] \in Cleared
SendsAreCleared  == \A i \in Items : delivered[i] > 0 => status[i] \in Cleared
CallsPrecedeRecords ==
    \A s \in Senders, i \in Items : pc[s] = "sent" /\ IsNext(s, i) => delivered[i] > 0

EgressInv ==
    ApprovalsAudited /\ ListsAreCleared /\ SendsAreCleared /\ CallsPrecedeRecords

(* The mirror never claims a send that did not happen: each audited send is a
   message Telegram took, and a row is sent only with such an audit row, even
   if several passes hold the same row (mark_sent, outbox.py:120-139). *)
SentIsDelivered ==
    \A i \in Items :
        /\ audit["send"][i] <= delivered[i]
        /\ status[i] = "sent" => audit["send"][i] > 0

(* A row is transmitted at most once per concurrent sender, and once more for
   each pass that dies between the call and its record: a closed row is never
   put into a new list (outbox.py:99-109, sender.py:22-71). *)
DeliveryBound ==
    \A i \in Items : delivered[i] <= Cardinality(Senders) + faults

(* Each sender checks the counters before it calls and raises them after, so a
   window is over its limit by at most the other senders' calls in flight; a
   single sender is never over it (_check_rate_limits, outbox.py:180-193). *)
RateBound ==
    \A sc \in Scopes, h \in Hours :
        rate[sc][h] <= Limit(sc) + Cardinality(Senders) - 1

(* With one sender the recorded sends of any two rows are at least
   minimum_gap_seconds apart (outbox.py:194-198). *)
GapKept ==
    \A i, j \in Items :
        i < j /\ status[i] = "sent" /\ status[j] = "sent"
            => \/ sentAt[j] - sentAt[i] >= MinGap
               \/ sentAt[i] - sentAt[j] >= MinGap

(* With one sender the log is exact: a row is closed by one audited send or by
   one audited failure, never by both or by two, though passes die and
   answers are lost (sender.py:22-71, outbox.py:120-147). *)
LedgerExact ==
    \A i \in Items :
        /\ audit["send"][i] = IF status[i] = "sent" THEN 1 ELSE 0
        /\ audit["fail"][i] = IF status[i] = "failed" THEN 1 ELSE 0

(* A transmission takes a row that is approved at that moment.  README.md:295:
   "a separate sender process transmits only status=approved". *)
TransmitsOnlyApproved ==
    [][\A i \in Items : delivered'[i] > delivered[i] => status[i] = "approved"]_vars

(* Once allow_send is off in the file and the passes that loaded it as on have
   ended, nothing is transmitted until it is on again: that a pass never looks at
   the file again (runtime.py:165-183, sender.py:22-48) delays the switch by one
   pass and no more, whatever was approved before. *)
SwitchedOff == ~allowSend /\ \A s \in Senders : pc[s] # "idle" => ~loaded[s]

SwitchOffHolds ==
    [][SwitchedOff /\ ~allowSend' => SwitchedOff' /\ delivered' = delivered]_vars

(* An item is decided once: tests/test_outbox.py expects the second decision
   to raise PolicyError and to leave no audit row. *)
OneDecisionPerItem ==
    \A i \in Items : audit["approved"][i] + audit["rejected"][i] <= 1

(* A pass comes to its end, with exceptions, denials and lost answers on the
   way (the loop of send_approved, sender.py:22-72). *)
PassEnds == \A s \in Senders : pc[s] # "idle" ~> pc[s] = "idle"

(* The promise of the outbox, and that Spec keeps it. *)
Promise == INSTANCE Egress
    WITH Items <- Items, status <- status, delivered <- delivered

ImplementsEgress == Promise!Spec

=============================================================================
