------------------------------- MODULE Egress -------------------------------
(***************************************************************************)
(* What the outbox promises, whoever runs it and however often it fails:   *)
(* text leaves for Telegram only if it was submitted, a human then         *)
(* approved it, and nobody had rejected it; a decision is never reversed,  *)
(* and a row is called sent only if Telegram took it.  It does not promise *)
(* that a row is transmitted once, nor that it is still open when it is.   *)
(***************************************************************************)
EXTENDS Naturals

CONSTANT Items

VARIABLES
    status,     \* the row of each item
    delivered   \* how often Telegram took it

vars == <<status, delivered>>

Init ==
    /\ status = [i \in Items |-> "absent"]
    /\ delivered = [i \in Items |-> 0]

Submit(i) ==
    /\ status[i] = "absent"
    /\ status' = [status EXCEPT ![i] = "pending"]
    /\ UNCHANGED delivered

Decide(i) ==
    /\ status[i] = "pending"
    /\ \E d \in {"approved", "rejected"} : status' = [status EXCEPT ![i] = d]
    /\ UNCHANGED delivered

(* A human has cleared the item: it was approved, whatever became of it. *)
Cleared(i) == status[i] \in {"approved", "sent", "failed"}

Transmit(i) ==
    /\ Cleared(i)
    /\ delivered' = [delivered EXCEPT ![i] = @ + 1]
    /\ UNCHANGED status

(* A row is closed once; the close says sent only of what was taken. *)
Close(i) ==
    /\ status[i] = "approved"
    /\ \/ delivered[i] > 0 /\ status' = [status EXCEPT ![i] = "sent"]
       \/ status' = [status EXCEPT ![i] = "failed"]
    /\ UNCHANGED delivered

Next == \E i \in Items : Submit(i) \/ Decide(i) \/ Transmit(i) \/ Close(i)

Spec == Init /\ [][Next]_vars

=============================================================================
