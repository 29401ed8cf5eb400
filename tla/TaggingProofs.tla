---------------------------- MODULE TaggingProofs ---------------------------
(***************************************************************************)
(* The properties of Tagging for every value of its constants: TypeOK with *)
(* the foreign key, HandTagsStay, MatchesAreTagged and RetagIsExact.  Each *)
(* invariant is inductive on top of TypeOK.                                *)
(***************************************************************************)
EXTENDS Tagging, TLAPS

USE RulesAreRules, NoRowIsNoText

(* apply_rules yields sources of tags. *)
LEMMA RuledType ==
    ASSUME NEW R, NEW x, NEW old \in [Tags -> Sources \cup {"none"}]
    PROVE  Ruled(R, x, old) \in [Tags -> Sources \cup {"none"}]
  BY DEF Ruled, Sources

(* So does the delete of the tags of rules. *)
LEMMA HandTagsOnlyType ==
    ASSUME NEW old \in [Tags -> Sources \cup {"none"}]
    PROVE  HandTagsOnly(old) \in [Tags -> Sources \cup {"none"}]
  BY DEF HandTagsOnly

LEMMA TypeInit == Init => TypeOK
  BY DEF Init, TypeOK, Rows, Stored

LEMMA TypeStep == TypeOK /\ [Next]_vars => TypeOK'
<1> SUFFICES ASSUME TypeOK, [Next]_vars PROVE TypeOK'
  OBVIOUS
<1>1. ASSUME NEW R \in RuleSets, EditRules(R) PROVE TypeOK'
  BY <1>1 DEF EditRules, TypeOK, Stored
<1>2. CASE StartSync
  BY <1>2 DEF StartSync, TypeOK, Stored
<1>3. ASSUME NEW m \in Msgs, NEW x \in Texts, Write(m, x) PROVE TypeOK'
  <2>1. source' \in [Msgs -> [Tags -> Sources \cup {"none"}]]
    BY <1>3, RuledType DEF Write, TypeOK
  <2>2. text' \in Rows /\ Stored' = Stored \cup {m}
    BY <1>3 DEF Write, TypeOK, Rows, Stored
  <2>3. \A n \in Msgs, t \in Tags : source'[n][t] # "none" => n \in Stored'
    BY <1>3, <2>2 DEF Write, TypeOK
  <2> QED
    BY <1>3, <2>1, <2>2, <2>3 DEF Write, TypeOK
<1>4. ASSUME NEW m \in Msgs, Prune(m) PROVE TypeOK'
  <2>1. source' \in [Msgs -> [Tags -> Sources \cup {"none"}]]
    BY <1>4 DEF Prune, TypeOK
  <2>2. text' \in Rows /\ Stored' = Stored \ {m}
    BY <1>4 DEF Prune, TypeOK, Rows, Stored
  <2>3. \A n \in Msgs, t \in Tags : source'[n][t] # "none" => n \in Stored'
    BY <1>4, <2>2 DEF Prune, TypeOK
  <2> QED
    BY <1>4, <2>1, <2>2, <2>3 DEF Prune, TypeOK
<1>5. ASSUME NEW m \in Msgs, NEW t \in Tags, NEW s \in HandSources, PutTag(m, t, s)
      PROVE  TypeOK'
  BY <1>5 DEF PutTag, TypeOK, Sources, Stored
<1>6. ASSUME NEW m \in Msgs, NEW t \in Tags, RemoveTag(m, t) PROVE TypeOK'
  BY <1>6 DEF RemoveTag, TypeOK, Stored
<1>7. ASSUME NEW r \in Retaggers, RetagRead(r) PROVE TypeOK'
  BY <1>7 DEF RetagRead, TypeOK, Reads, Stored
<1>8. ASSUME NEW r \in Retaggers, RetagCommit(r) PROVE TypeOK'
  <2> DEFINE R == read[r].rules
             rows == read[r].rows
  <2>1. R \in RuleSets /\ rows \in Rows
    BY <1>8 DEF RetagCommit, TypeOK, Reads
  <2>2. source' \in [Msgs -> [Tags -> Sources \cup {"none"}]]
    BY <1>8, RuledType, HandTagsOnlyType DEF RetagCommit, TypeOK
  <2>3. ASSUME NEW m \in Msgs, NEW t \in Tags, source'[m][t] # "none" PROVE m \in Stored
    <3>1. source'[m][t] = Ruled(R, rows[m], HandTagsOnly(source[m]))[t]
      BY <1>8 DEF RetagCommit
    <3>2. CASE <<rows[m], t>> \in R
      <4>1. <<m, t>> \in Claimed(R, rows[m], m)
        BY <3>2 DEF Claimed
      <4> QED
        BY <1>8, <4>1 DEF RetagCommit, RowsRemain
    <3>3. CASE <<rows[m], t>> \notin R
      <4>1. source'[m][t] = HandTagsOnly(source[m])[t]
        BY <3>1, <3>3 DEF Ruled
      <4>2. source[m][t] # "none"
        BY <2>3, <4>1 DEF HandTagsOnly
      <4> QED
        BY <4>2 DEF TypeOK
    <3> QED
      BY <3>2, <3>3
  <2>4. Stored' = Stored
    BY <1>8 DEF RetagCommit, Stored
  <2> QED
    BY <1>8, <2>2, <2>3, <2>4 DEF RetagCommit, TypeOK
<1>9. ASSUME NEW r \in Retaggers, RetagFails(r) PROVE TypeOK'
  BY <1>9 DEF RetagFails, TypeOK, Stored
<1>10. CASE UNCHANGED vars
  BY <1>10 DEF vars, TypeOK, Stored
<1> QED
  BY <1>1, <1>2, <1>3, <1>4, <1>5, <1>6, <1>7, <1>8, <1>9, <1>10 DEF Next

(* Every tag belongs to a mirrored message, and every variable keeps its type,
   however retags, prunes and hands interleave. *)
THEOREM TypeCorrect == Spec => []TypeOK
  BY TypeInit, TypeStep, PTL DEF Spec

-----------------------------------------------------------------------------
(* Tags put by hand *)

(* What no rule claims keeps its source when the rules are applied. *)
LEMMA UnclaimedKept ==
    ASSUME NEW R, NEW x, NEW m, NEW t \in Tags, NEW old, <<m, t>> \notin Claimed(R, x, m)
    PROVE  Ruled(R, x, old)[t] = old[t]
  BY DEF Ruled, Claimed

(* Tags put by hand outlive the delete of the tags of rules. *)
LEMMA HandTagKept ==
    ASSUME NEW t \in Tags, NEW old, old[t] \in HandSources
    PROVE  HandTagsOnly(old)[t] = old[t]
  BY DEF HandTagsOnly, HandSources

LEMMA HandStep == TypeOK /\ HandTagsStay /\ [Next]_vars => HandTagsStay'
<1> SUFFICES ASSUME TypeOK, HandTagsStay, [Next]_vars,
                    NEW n \in Msgs, NEW u \in Tags, <<n, u>> \in kept'
             PROVE  source'[n][u] \in HandSources
  BY DEF HandTagsStay
<1> USE DEF HandTagsStay
<1>1. CASE UNCHANGED <<source, kept>>
  BY <1>1
<1>2. ASSUME NEW m \in Msgs, NEW x \in Texts, Write(m, x)
      PROVE  source'[n][u] \in HandSources
  <2>1. <<n, u>> \in kept /\ <<n, u>> \notin Claimed(loaded, x, m)
    BY <1>2 DEF Write
  <2>2. source'[n] = IF n = m THEN Ruled(loaded, x, source[n]) ELSE source[n]
    BY <1>2 DEF Write, TypeOK
  <2> QED
    BY <2>1, <2>2, UnclaimedKept
<1>3. ASSUME NEW m \in Msgs, Prune(m) PROVE source'[n][u] \in HandSources
  BY <1>3 DEF Prune, TypeOK
<1>4. ASSUME NEW m \in Msgs, NEW t \in Tags, NEW s \in HandSources, PutTag(m, t, s)
      PROVE  source'[n][u] \in HandSources
  <2>1. CASE n = m /\ u = t
    BY <1>4, <2>1 DEF PutTag, TypeOK
  <2>2. CASE ~(n = m /\ u = t)
    BY <1>4, <2>2 DEF PutTag, TypeOK
  <2> QED
    BY <2>1, <2>2
<1>5. ASSUME NEW m \in Msgs, NEW t \in Tags, RemoveTag(m, t)
      PROVE  source'[n][u] \in HandSources
  BY <1>5 DEF RemoveTag, TypeOK
<1>6. ASSUME NEW r \in Retaggers, RetagCommit(r) PROVE source'[n][u] \in HandSources
  <2> DEFINE R == read[r].rules
             rows == read[r].rows
  <2>1. <<n, u>> \in kept /\ <<n, u>> \notin Claimed(R, rows[n], n)
    BY <1>6 DEF RetagCommit
  <2>2. source'[n] = Ruled(R, rows[n], HandTagsOnly(source[n]))
    BY <1>6 DEF RetagCommit
  <2>3. source'[n][u] = HandTagsOnly(source[n])[u]
    BY <2>1, <2>2, UnclaimedKept
  <2> QED
    BY <2>1, <2>3, HandTagKept
<1>7. ASSUME NEW r \in Retaggers, RetagRead(r) \/ RetagFails(r)
      PROVE  source'[n][u] \in HandSources
  BY <1>1, <1>7 DEF RetagRead, RetagFails
<1>8. ASSUME NEW R \in RuleSets, EditRules(R) PROVE source'[n][u] \in HandSources
  BY <1>1, <1>8 DEF EditRules
<1>9. CASE StartSync \/ UNCHANGED vars
  BY <1>1, <1>9 DEF StartSync, vars
<1> QED
  BY <1>2, <1>3, <1>4, <1>5, <1>6, <1>7, <1>8, <1>9 DEF Next

(* For any number of messages, tags and retags at once: a tag put by hand stays
   until a hand, a prune or a rule with the same tag takes it. *)
THEOREM HandTagsKept == Spec => []HandTagsStay
<1>1. Init => HandTagsStay
  BY DEF Init, HandTagsStay
<1> QED
  BY <1>1, HandStep, TypeCorrect, PTL DEF Spec

-----------------------------------------------------------------------------
(* Tags that the rules owe *)

LEMMA MatchStep == TypeOK /\ MatchesAreTagged /\ [Next]_vars => MatchesAreTagged'
<1> SUFFICES ASSUME TypeOK, MatchesAreTagged, [Next]_vars,
                    NEW n \in settled', NEW u \in Tags, <<text'[n], u>> \in rules'
             PROVE  source'[n][u] # "none"
  BY DEF MatchesAreTagged
<1> USE DEF MatchesAreTagged
<1>1. CASE UNCHANGED <<rules, text, source, settled>>
  BY <1>1
<1>2. ASSUME NEW m \in Msgs, NEW x \in Texts, Write(m, x) PROVE source'[n][u] # "none"
  <2>1. CASE n = m
    <3>1. text'[n] = x /\ rules' = rules
      BY <1>2, <2>1 DEF Write, TypeOK, Rows
    <3>3. loaded = rules
      BY <1>2, <2>1 DEF Write
    <3>2. source'[n] = Ruled(loaded, x, source[n])
      BY <1>2, <2>1 DEF Write, TypeOK
    <3> QED
      BY <3>1, <3>2, <3>3 DEF Ruled
  <2>2. CASE n # m
    BY <1>2, <2>2 DEF Write, TypeOK, Stored
  <2> QED
    BY <2>1, <2>2
<1>3. ASSUME NEW m \in Msgs, Prune(m) PROVE source'[n][u] # "none"
  BY <1>3 DEF Prune, TypeOK, Stored
<1>4. ASSUME NEW m \in Msgs, NEW t \in Tags, NEW s \in HandSources, PutTag(m, t, s)
      PROVE  source'[n][u] # "none"
  <2>1. source[n][u] # "none" /\ n \in Msgs
    BY <1>4 DEF PutTag, TypeOK, Stored
  <2>2. CASE n = m /\ u = t
    BY <1>4, <2>2 DEF PutTag, TypeOK, HandSources
  <2>3. CASE ~(n = m /\ u = t)
    BY <1>4, <2>1, <2>3 DEF PutTag, TypeOK
  <2> QED
    BY <2>2, <2>3
<1>5. ASSUME NEW m \in Msgs, NEW t \in Tags, RemoveTag(m, t) PROVE source'[n][u] # "none"
  BY <1>5 DEF RemoveTag, TypeOK, Stored
<1>6. ASSUME NEW r \in Retaggers, RetagCommit(r) PROVE source'[n][u] # "none"
  <2> DEFINE R == read[r].rules
             rows == read[r].rows
  <2>1. n \in Msgs /\ rows[n] = text[n] /\ R = rules /\ <<text[n], u>> \in rules
    BY <1>6 DEF RetagCommit, Stored
  <2>2. source'[n] = Ruled(R, rows[n], HandTagsOnly(source[n]))
    BY <1>6, <2>1 DEF RetagCommit
  <2> QED
    BY <2>1, <2>2 DEF Ruled
<1>7. ASSUME NEW r \in Retaggers, RetagRead(r) \/ RetagFails(r)
      PROVE  source'[n][u] # "none"
  BY <1>1, <1>7 DEF RetagRead, RetagFails
<1>8. ASSUME NEW R \in RuleSets, EditRules(R) PROVE source'[n][u] # "none"
  BY <1>8 DEF EditRules
<1>9. CASE StartSync \/ UNCHANGED vars
  BY <1>1, <1>9 DEF StartSync, vars
<1> QED
  BY <1>2, <1>3, <1>4, <1>5, <1>6, <1>7, <1>8, <1>9 DEF Next

(* Whatever retags and edits of the watchlist interleave, a message that nothing
   raced has the tags that the rules in force give it. *)
THEOREM MatchesTagged == Spec => []MatchesAreTagged
<1>1. Init => MatchesAreTagged
  BY DEF Init, MatchesAreTagged
<1> QED
  BY <1>1, MatchStep, TypeCorrect, PTL DEF Spec

-----------------------------------------------------------------------------
(* What a retag leaves *)

(* For any rules and texts, a retag that nothing raced leaves the tags of its rules
   and none of earlier ones. *)
THEOREM RetagLeavesItsRules == Spec => RetagIsExact
<1>1. ASSUME NEW r \in Retaggers, RetagCommit(r), read[r].rows = text,
             NEW m \in Msgs, NEW t \in Tags
      PROVE  source'[m][t] = "rule" <=> <<text[m], t>> \in read[r].rules
  <2>1. source'[m][t] = Ruled(read[r].rules, text[m], HandTagsOnly(source[m]))[t]
    BY <1>1 DEF RetagCommit
  <2>2. HandTagsOnly(source[m])[t] # "rule"
    BY DEF HandTagsOnly
  <2> QED
    BY <2>1, <2>2 DEF Ruled
<1>2. [Next]_vars =>
         [\A r \in Retaggers : RetagCommit(r) /\ read[r].rows = text =>
             \A m \in Msgs, t \in Tags :
                source'[m][t] = "rule" <=> <<text[m], t>> \in read[r].rules]_vars
  BY <1>1
<1> QED
  BY <1>2, PTL DEF Spec, RetagIsExact

=============================================================================
