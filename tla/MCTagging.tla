----------------------------- MODULE MCTagging ------------------------------
(***************************************************************************)
(* Two words, and rules that give either of them, both or none a tag.      *)
(***************************************************************************)
EXTENDS Tagging, TLC

CONSTANTS ping, pong, urgent

TwoTexts == {ping, pong}
OneTag   == {urgent}
Rules    == {{}, {<<ping, urgent>>}, {<<pong, urgent>>}}

Symmetry == Permutations(Msgs) \cup Permutations(Retaggers)

=============================================================================
