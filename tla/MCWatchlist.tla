----------------------------- MODULE MCWatchlist ----------------------------
(***************************************************************************)
(* Two peers of the same name.                                             *)
(***************************************************************************)
EXTENDS Watchlist, TLC

CONSTANTS chat, team, tail, rules

(* Both peers are called the same, and the last digits of their ids agree. *)
SameName   == [d \in Dialogs |-> chat]
SameDigits == [d \in Dialogs |-> tail]

File(S) == [peers |-> S, rest |-> rules]

Written(n) == [base |-> n, digits |-> None, count |-> 0]

(* A human has listed nothing, or one of the peers: under the slug that resolve
   would choose, or under another and to be sent to. *)
HumanFiles ==
    {File({})}
        \cup {File({[id |-> d, slug |-> Written(chat), sendable |-> FALSE]}) : d \in Dialogs}
        \cup {File({[id |-> d, slug |-> Written(team), sendable |-> TRUE]}) : d \in Dialogs}

Symmetry == Permutations(Dialogs) \cup Permutations(Resolvers)

=============================================================================
