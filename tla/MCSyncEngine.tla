---------------------------- MODULE MCSyncEngine ----------------------------
(***************************************************************************)
(* Policies and looks for the small instances of SyncEngine.               *)
(***************************************************************************)
EXTENDS SyncEngine

Keep(h, r) == [history |-> h, retention |-> r]

Fresh    == {Keep(1, 1)}
Deepened == {Keep(1, 1), Keep(2, 2)}
Depths   == {Keep(1, Null), Keep(Null, Null)}

(* Edits of the first message show, and those of later ones do not. *)
Looks == [i \in Ids |-> [v \in Versions |-> IF i = 1 THEN v ELSE 0]]

=============================================================================
