------------------------------ MODULE MCOutbox ------------------------------
(***************************************************************************)
(* Processes and peers are alike.                                          *)
(***************************************************************************)
EXTENDS Outbox, TLC

Symmetry ==
    Permutations(Clients) \cup Permutations(Senders) \cup Permutations(Peers)

=============================================================================
