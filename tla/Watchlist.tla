------------------------------ MODULE Watchlist -----------------------------
(***************************************************************************)
(* The watchlist file and those who share it without a lock: people who    *)
(* edit it, `tgq watchlist resolve --write`, which reads it, asks Telegram, *)
(* reads it again, truncates it and writes it back with one peer more, and *)
(* sync, which loads it and registers its peers in the mirror.             *)
(*                                                                         *)
(* The order of the peers in the file is left out, and so is what their    *)
(* entries say beside id, slug and sendable; the rest of the file is one   *)
(* value.  A slug is its base, the suffix that tells two bases apart and   *)
(* the counter that tells two suffixes apart.  A file is small enough for  *)
(* one write of the operating system, and what two writes at once leave of *)
(* two different lengths is assumed to be no YAML.                         *)
(***************************************************************************)
EXTENDS Integers, FiniteSets, FiniteSetsExt

CONSTANTS
    Dialogs,    \* the peers that Telegram knows, by id
    Names,      \* what names of peers become in a slug
    NameOf,     \* the name of each dialog
    Digits,     \* the last digits of ids
    DigitsOf,   \* the last digits of each id
    Rests,      \* what the file says beside its peers: rules, policies, allow_send
    Saved,      \* the files that people may save
    Resolvers,  \* processes that run `tgq watchlist resolve --write`
    Broken,     \* a file that is no YAML
    None

ASSUME NamesAreGiven == NameOf \in [Dialogs -> Names] /\ DigitsOf \in [Dialogs -> Digits]

Slugs    == [base : Names, digits : Digits \cup {None}, count : Nat]
Entries  == [id : Dialogs, slug : Slugs, sendable : BOOLEAN]
Contents == [peers : SUBSET Entries, rest : Rests \cup {None}]

(* An empty file loads as a watchlist that says nothing. *)
Empty == [peers |-> {}, rest |-> None]

Distinct(S) == \A e, f \in S : e.id = f.id \/ e.slug = f.slug => e = f

(* People do not list a peer or a slug twice; load_config does not check it. *)
ASSUME PeopleAreCareful == Saved \subseteq {c \in Contents : Distinct(c.peers)}

ASSUME FilesAreFinite == \A c \in Saved : IsFiniteSet(c.peers)

ASSUME BrokenIsNoFile == Broken \notin Contents

ASSUME NoneIsNothing == None \notin Digits \cup Slugs \cup Contents

(* What a resolver holds at each of its steps. *)
Idle  == [step |-> "idle"]
Works == {Idle}
            \cup [step : {"resolving"}, used : SUBSET Slugs]
            \cup [step : {"checked", "writing"}, peer : Entries, raw : Contents]

VARIABLES
    file,       \* watchlist.yaml
    work,       \* what each resolver holds
    mirror,     \* the table peers: slug of each registered peer
    due         \* history variable: what people saved last and what was appended
                \* since, None after a write that overlapped another or was cut short

vars == <<file, work, mirror, due>>

TypeOK ==
    /\ file \in Contents \cup {Broken}
    /\ work \in [Resolvers -> Works]
    /\ mirror \in [Dialogs -> Slugs \cup {None}]
    /\ due \in Contents \cup {None}

Init ==
    /\ file \in Saved
    /\ work = [r \in Resolvers |-> Idle]
    /\ mirror = [d \in Dialogs |-> None]
    /\ due = file

At(r, step) == work[r].step = step
Holds(r, w) == work' = [work EXCEPT ![r] = w]
Writing     == {r \in Resolvers : At(r, "writing")}

-----------------------------------------------------------------------------
(* People.  A definition named Operator_Mistake, here and below, is a mutant of
   Operator. *)

(* An editor saves the file in one step. *)
Save(c) ==
    /\ c # file
    /\ file' = c
    /\ due' = IF Writing = {} THEN c ELSE None
    /\ UNCHANGED <<work, mirror>>

-----------------------------------------------------------------------------
(* tgq watchlist resolve --write *)

(* load_config: no YAML is an error, which changes nothing. *)
StartResolve(r) ==
    /\ At(r, "idle")
    /\ file # Broken
    /\ Holds(r, [step |-> "resolving", used |-> {e.slug : e \in file.peers}])
    /\ UNCHANGED <<file, mirror, due>>

Plain_NoFallback(d) == [base |-> None, digits |-> None, count |-> 0]

Plain(d) == [base |-> NameOf[d], digits |-> None, count |-> 0]

Numbered(d, n) == [base |-> NameOf[d], digits |-> DigitsOf[d], count |-> n]

(* _unique_slug; the first of the numbered slugs bears no number. *)
UniqueSlug(d, used) ==
    IF Plain(d) \notin used THEN Plain(d)
    ELSE Numbered(d, Min({n \in 1 .. Cardinality(used) + 1 : Numbered(d, n) \notin used}))

QueryKinds == {"username", "peer_id", "title"}

(* A title may match many dialogs, the other queries name one at most. *)
Matches(kind) == {M \in SUBSET Dialogs : kind = "title" \/ Cardinality(M) <= 1}

Resolved_Sendable(d, used) ==
    [id |-> d, slug |-> UniqueSlug(d, used), sendable |-> TRUE]

Resolved(d, used) ==
    [id |-> d, slug |-> UniqueSlug(d, used), sendable |-> FALSE]

IsNew_ById(peer, c) == \A e \in c.peers : e.id # peer.id

(* The slug was chosen for the file as it was before Telegram was asked. *)
IsNew(peer, c) == \A e \in c.peers : e.id # peer.id /\ e.slug # peer.slug

(* Telegram answers.  Candidates are printed; a single match is given a slug, and
   append_peer reads the file again ... *)
Resolve(r, M) ==
    /\ At(r, "resolving")
    /\ \E d \in M :
          LET peer == Resolved(d, work[r].used)
          IN  /\ M = {d}
              /\ file # Broken
              /\ IsNew(peer, file)
              /\ Holds(r, [step |-> "checked", peer |-> peer, raw |-> file])
    /\ UNCHANGED <<file, mirror, due>>

(* ... write_text opens it, which truncates it ... *)
Truncate(r) ==
    /\ At(r, "checked")
    /\ file' = Empty
    /\ Holds(r, [work[r] EXCEPT !.step = "writing"])
    /\ due' = IF file = work[r].raw /\ Writing = {} THEN due ELSE None
    /\ UNCHANGED mirror

Appended_PeersOnly(r) ==
    [peers |-> work[r].raw.peers \cup {work[r].peer}, rest |-> None]

Appended(r) == [work[r].raw EXCEPT !.peers = @ \cup {work[r].peer}]

(* ... and writes it.  What another wrote since may be longer: then its end
   follows what is written here, and is assumed not to parse. *)
WriteBack(r) ==
    /\ At(r, "writing")
    /\ file' \in {Appended(r)} \cup IF file = Empty THEN {} ELSE {Broken}
    /\ Holds(r, Idle)
    /\ due' = IF due = None THEN None ELSE [due EXCEPT !.peers = @ \cup {work[r].peer}]
    /\ UNCHANGED mirror

(* No match or several, a duplicate, a dry run, no --write, an error, or the
   process is killed. *)
LeaveResolve(r) ==
    /\ ~At(r, "idle")
    /\ Holds(r, Idle)
    /\ due' = IF At(r, "writing") THEN None ELSE due
    /\ UNCHANGED <<file, mirror>>

-----------------------------------------------------------------------------
(* tgq sync *)

MayRegister_OtherSlug(e) ==
    \A d \in Dialogs \ {e.id} : mirror[d] # e.slug

(* register_peer: the slug of a peer is immutable, and no other peer has it. *)
MayRegister(e) ==
    /\ mirror[e.id] \in {None, e.slug}
    /\ \A d \in Dialogs \ {e.id} : mirror[d] # e.slug

(* A sync registers the entries it loaded until one is refused or it dies.  One
   sync runs at a time and nobody else reads the table, so that each may as well
   be registered when the file is loaded. *)
Register(e) ==
    /\ MayRegister(e)
    /\ mirror' = [mirror EXCEPT ![e.id] = e.slug]
    /\ UNCHANGED <<file, work, due>>

-----------------------------------------------------------------------------

ResolverStep(r) ==
    \/ StartResolve(r)
    \/ \E kind \in QueryKinds : \E M \in Matches(kind) : Resolve(r, M)
    \/ Truncate(r)
    \/ WriteBack(r)
    \/ LeaveResolve(r)

Next ==
    \/ \E c \in Saved : Save(c)
    \/ \E r \in Resolvers : ResolverStep(r)
    \/ file # Broken /\ \E e \in file.peers : Register(e)

Spec == Init /\ [][Next]_vars

-----------------------------------------------------------------------------
(* Properties *)

(* No two entries of the file have an id or a slug in common, though a resolver
   chooses the slug from a file that others rewrite while it waits for Telegram,
   and writes back an even other version (append_peer, config.py:77-100;
   _unique_slug, resolve.py:116-129). *)
PeersAreDistinct == file # Broken => Distinct(file.peers)

(* As long as no write overlaps another or is cut short, the file is what people
   saved last and every peer appended since, whole; but it reads as empty while
   a resolver writes (append_peer, config.py:95-99). *)
NothingIsLost == due # None => file = due \/ (file = Empty /\ Writing # {})

(* Whatever versions of the file resolvers write back, an entry that allows
   sending is one that people saved so (README.md:173: "appends the resolved peer
   with sending disabled"). *)
SendingIsHuman ==
    file # Broken =>
        \A e \in file.peers : e.sendable => \E c \in Saved : e \in c.peers

(* A slug once registered means the same peer for ever, although an entry that a
   race lost may come back with another slug, and its slug may go to another
   peer (register_peer, engine.py:56-91; README.md:326: "`slug#msg_id` citations
   must not break"). *)
CitationsHold ==
    [][\A d \in Dialogs : mirror[d] # None =>
          \A c \in Dialogs : mirror'[c] = mirror[d] <=> c = d]_vars

=============================================================================
