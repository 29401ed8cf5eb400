------------------------------- MODULE Tagging ------------------------------
(***************************************************************************)
(* The tags of the mirror and those who write them: sync tags a message by *)
(* the rules it loaded when it started, people and agents tag by hand, and *)
(* `retag` reads the messages, then replaces the tags of the rules.        *)
(*                                                                         *)
(* A set of rules is what it makes of a text: pairs of a text and the tag  *)
(* it earns.  The rules come from the watchlist, which people edit.  Which *)
(* messages sync writes and prunes is in SyncEngine; here it writes any.   *)
(***************************************************************************)

CONSTANTS
    Msgs,       \* handles of messages
    Texts,
    Tags,
    RuleSets,   \* the sets of rules the watchlist may hold
    Retaggers,  \* processes that run `tgq retag`
    NoRow,      \* text of a message that is not mirrored
    Idle        \* read of a retagger that has none

ASSUME RulesAreRules == RuleSets \subseteq SUBSET (Texts \X Tags)
ASSUME NoRowIsNoText == NoRow \notin Texts

HandSources == {"manual", "agent"}
Sources     == HandSources \cup {"rule"}

VARIABLES
    rules,      \* the rules in the watchlist
    loaded,     \* the rules of the sync that runs
    text,       \* table messages: text of each row
    source,     \* table tags: source of each tag of each message, or "none"
    read,       \* what each retagger has read: the rules and the rows
    kept,       \* history variable: tags put by hand that no rule has claimed
    settled     \* history variable: messages tagged by the rules in force

vars == <<rules, loaded, text, source, read, kept, settled>>

Stored == {m \in Msgs : text[m] # NoRow}

Rows  == [Msgs -> Texts \cup {NoRow}]
Reads == [rules : RuleSets, rows : Rows]

(* The last conjunct is the foreign key of tags. *)
TypeOK ==
    /\ {rules, loaded} \subseteq RuleSets
    /\ text \in Rows
    /\ source \in [Msgs -> [Tags -> Sources \cup {"none"}]]
    /\ read \in [Retaggers -> Reads \cup {Idle}]
    /\ kept \subseteq Msgs \X Tags
    /\ settled \subseteq Stored
    /\ \A m \in Msgs, t \in Tags : source[m][t] # "none" => m \in Stored

Init ==
    /\ rules \in RuleSets
    /\ loaded = rules
    /\ text = [m \in Msgs |-> NoRow]
    /\ source = [m \in Msgs |-> [t \in Tags |-> "none"]]
    /\ read = [r \in Retaggers |-> Idle]
    /\ kept = {}
    /\ settled = {}

-----------------------------------------------------------------------------
(* Helpers.  A definition named Operator_Mistake is a mutant of Operator. *)

(* apply_rules: the tags of a message of text x that had the tags old. *)
Ruled(R, x, old) == [t \in Tags |-> IF <<x, t>> \in R THEN "rule" ELSE old[t]]

Claimed(R, x, m) == {<<m, t>> : t \in {u \in Tags : <<x, u>> \in R}}

HandTagsOnly_Nothing(old) == [t \in Tags |-> "none"]
HandTagsOnly_All(old)     == old

(* DELETE FROM tags WHERE source='rule' *)
HandTagsOnly(old) == [t \in Tags |-> IF old[t] = "rule" THEN "none" ELSE old[t]]

RowsRemain_Unchecked(R, rows) == TRUE

(* The foreign key of every tag that the rules make of the rows read. *)
RowsRemain(R, rows) ==
    \A m \in Msgs : Claimed(R, rows[m], m) # {} => m \in Stored

-----------------------------------------------------------------------------
(* The watchlist and sync *)

EditRules(R) ==
    /\ R # rules
    /\ rules' = R
    /\ settled' = {}
    /\ UNCHANGED <<loaded, text, source, read, kept>>

(* A sync loads the watchlist once, a loop too. *)
StartSync ==
    /\ loaded' = rules
    /\ UNCHANGED <<rules, text, source, read, kept, settled>>

Write_NewRowsOnly(m, x) ==
    /\ text' = [text EXCEPT ![m] = x]
    /\ source' = IF m \in Stored THEN source
                 ELSE [source EXCEPT ![m] = Ruled(loaded, x, @)]
    /\ kept' = kept \ Claimed(loaded, x, m)
    /\ settled' = IF loaded = rules THEN settled \cup {m} ELSE settled \ {m}
    /\ UNCHANGED <<rules, loaded, read>>

(* upsert_many inserts or updates the row and applies the rules to it.  A batch
   is one transaction, which here is as many steps. *)
Write(m, x) ==
    /\ text' = [text EXCEPT ![m] = x]
    /\ source' = [source EXCEPT ![m] = Ruled(loaded, x, @)]
    /\ kept' = kept \ Claimed(loaded, x, m)
    /\ settled' = IF loaded = rules THEN settled \cup {m} ELSE settled \ {m}
    /\ UNCHANGED <<rules, loaded, read>>

(* The tags of a row go with it. *)
Prune(m) ==
    /\ m \in Stored
    /\ text' = [text EXCEPT ![m] = NoRow]
    /\ source' = [source EXCEPT ![m] = [t \in Tags |-> "none"]]
    /\ kept' = kept \ ({m} \X Tags)
    /\ settled' = settled \ {m}
    /\ UNCHANGED <<rules, loaded, read>>

-----------------------------------------------------------------------------
(* tgq tag *)

(* The foreign key refuses a message that is not mirrored. *)
PutTag(m, t, s) ==
    /\ m \in Stored
    /\ source' = [source EXCEPT ![m][t] = s]
    /\ kept' = kept \cup {<<m, t>>}
    /\ UNCHANGED <<rules, loaded, text, read, settled>>

RemoveTag(m, t) ==
    /\ source' = [source EXCEPT ![m][t] = "none"]
    /\ kept' = kept \ {<<m, t>>}
    /\ settled' = settled \ {m}
    /\ UNCHANGED <<rules, loaded, text, read>>

-----------------------------------------------------------------------------
(* tgq retag *)

(* The watchlist is loaded and the messages are read before the transaction. *)
RetagRead(r) ==
    /\ read[r] = Idle
    /\ read' = [read EXCEPT ![r] = [rules |-> rules, rows |-> text]]
    /\ UNCHANGED <<rules, loaded, text, source, kept, settled>>

(* The tags of the rules are deleted and made again of the rows read. *)
RetagCommit(r) ==
    /\ read[r] # Idle
    /\ LET R == read[r].rules
           rows == read[r].rows
       IN  /\ RowsRemain(R, rows)
           /\ source' = [m \in Msgs |-> Ruled(R, rows[m], HandTagsOnly(source[m]))]
           /\ kept' = kept \ UNION {Claimed(R, rows[m], m) : m \in Msgs}
           /\ settled' = {m \in Stored : rows[m] = text[m] /\ R = rules}
    /\ read' = [read EXCEPT ![r] = Idle]
    /\ UNCHANGED <<rules, loaded, text>>

(* The tag of a row that is gone is refused, or the database stays locked: the
   transaction is rolled back and the process exits with an error. *)
RetagFails(r) ==
    /\ read[r] # Idle
    /\ read' = [read EXCEPT ![r] = Idle]
    /\ UNCHANGED <<rules, loaded, text, source, kept, settled>>

-----------------------------------------------------------------------------

Next ==
    \/ \E R \in RuleSets : EditRules(R)
    \/ StartSync
    \/ \E m \in Msgs, x \in Texts : Write(m, x)
    \/ \E m \in Msgs : Prune(m)
    \/ \E m \in Msgs, t \in Tags, s \in HandSources : PutTag(m, t, s)
    \/ \E m \in Msgs, t \in Tags : RemoveTag(m, t)
    \/ \E r \in Retaggers : RetagRead(r) \/ RetagCommit(r) \/ RetagFails(r)

Spec == Init /\ [][Next]_vars

-----------------------------------------------------------------------------
(* Properties *)

(* A tag put by hand stays, with a source that says so, until a hand removes it,
   its message is pruned, or a rule claims the same tag: no retag takes it, however
   old the rows are that it read (_retag, main.py:753-796). *)
HandTagsStay ==
    \A m \in Msgs, t \in Tags : <<m, t>> \in kept => source[m][t] \in HandSources

(* A message last written by a sync, or reread by a retag, that had the rules of
   the watchlist has every tag these rules give its text; what breaks this is a
   hand, an edit of the rules, or a retag that had read the row before it changed
   (apply_rules, engine.py:503-516; README.md:374). *)
MatchesAreTagged ==
    \A m \in settled : \A t \in Tags : <<text[m], t>> \in rules => source[m][t] # "none"

(* A retag that nothing raced leaves the tags of its rules and no tag of an
   earlier rule or text: the delete comes before the rules are applied, in one
   transaction (main.py:780-796). *)
RetagIsExact ==
    [][\A r \in Retaggers :
          RetagCommit(r) /\ read[r].rows = text =>
              \A m \in Msgs, t \in Tags :
                  source'[m][t] = "rule" <=> <<text[m], t>> \in read[r].rules]_vars

=============================================================================
