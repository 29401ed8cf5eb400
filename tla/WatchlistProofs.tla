--------------------------- MODULE WatchlistProofs --------------------------
(***************************************************************************)
(* What holds of the watchlist file and of the registered slugs for every  *)
(* number of people, resolvers and peers.                                  *)
(***************************************************************************)
EXTENDS Watchlist, FunctionTheorems, FiniteSetTheorems, WellFoundedInduction, TLAPS

USE PeopleAreCareful, BrokenIsNoFile

(* The entries of a file are distinct, and what it allows to send to was allowed
   by people. *)
Human(e)    == e.sendable => \E c \in Saved : e \in c.peers
Shaped(c)   == c = [peers |-> c.peers, rest |-> c.rest]
GoodFile(c) == Shaped(c) /\ Distinct(c.peers) /\ \A e \in c.peers : Human(e)

(* A resolver that has read the file again holds a good version of it, none of
   whose entries is the peer it is about to append. *)
Carries(w) == w = [step |-> w.step, peer |-> w.peer, raw |-> w.raw]

GoodWork(w) ==
    w.step \in {"checked", "writing"} =>
        Carries(w) /\ GoodFile(w.raw) /\ IsNew(w.peer, w.raw) /\ Human(w.peer)

FileInv ==
    /\ file # Broken => GoodFile(file)
    /\ DOMAIN work = Resolvers
    /\ \A r \in Resolvers : GoodWork(work[r])

LEMMA SavedAreGood == ASSUME NEW c \in Saved PROVE c # Broken /\ GoodFile(c)
  BY DEF GoodFile, Shaped, Human, Contents

LEMMA EmptyIsGood == GoodFile(Empty)
  BY DEF GoodFile, Shaped, Empty, Distinct

(* One entry more keeps the entries distinct, if it is new. *)
LEMMA AppendedIsGood ==
    ASSUME NEW r, GoodFile(work[r].raw), IsNew(work[r].peer, work[r].raw), Human(work[r].peer)
    PROVE  GoodFile(Appended(r)) /\ Appended(r).peers = work[r].raw.peers \cup {work[r].peer}
<1>1. Appended(r) = [peers |-> work[r].raw.peers \cup {work[r].peer}, rest |-> work[r].raw.rest]
  BY DEF GoodFile, Shaped, Appended
<1> QED
  BY <1>1 DEF GoodFile, Shaped, Distinct, IsNew

(* A step of one resolver changes the work of no other. *)
LEMMA HoldsOne ==
    ASSUME NEW r \in Resolvers, NEW w, DOMAIN work = Resolvers, Holds(r, w),
           \A q \in Resolvers : GoodWork(work[q]), GoodWork(w)
    PROVE  DOMAIN work' = Resolvers /\ \A q \in Resolvers : GoodWork(work'[q])
  BY DEF Holds

LEMMA IdleIsGood == GoodWork(Idle)
  BY DEF GoodWork, Idle

LEMMA FileInit == Init => FileInv
  BY SavedAreGood, IdleIsGood DEF Init, FileInv

LEMMA FileStep == FileInv /\ [Next]_vars => FileInv'
<1> SUFFICES ASSUME FileInv, [Next]_vars PROVE FileInv'
  OBVIOUS
<1>1. ASSUME NEW c \in Saved, Save(c) PROVE FileInv'
  BY <1>1, SavedAreGood DEF Save, FileInv
<1>2. ASSUME NEW r \in Resolvers, StartResolve(r) PROVE FileInv'
  <2> DEFINE w == [step |-> "resolving", used |-> {e.slug : e \in file.peers}]
  <2>1. GoodWork(w)
    BY DEF GoodWork
  <2> QED
    BY <1>2, <2>1, HoldsOne DEF StartResolve, FileInv
<1>3. ASSUME NEW r \in Resolvers, NEW M, Resolve(r, M) PROVE FileInv'
  <2>1. PICK d \in M : /\ file # Broken
                       /\ IsNew(Resolved(d, work[r].used), file)
                       /\ Holds(r, [step |-> "checked", peer |-> Resolved(d, work[r].used),
                                    raw |-> file])
    BY <1>3 DEF Resolve
  <2> DEFINE w == [step |-> "checked", peer |-> Resolved(d, work[r].used), raw |-> file]
  <2>2. GoodWork(w)
    BY <2>1 DEF GoodWork, Carries, Human, Resolved, FileInv
  <2> QED
    BY <1>3, <2>1, <2>2, HoldsOne DEF Resolve, FileInv
<1>4. ASSUME NEW r \in Resolvers, Truncate(r) PROVE FileInv'
  <2> DEFINE w == [work[r] EXCEPT !.step = "writing"]
  <2>1. GoodWork(work[r]) /\ work[r].step = "checked"
    BY <1>4 DEF Truncate, At, FileInv
  <2>2. w = [step |-> "writing", peer |-> work[r].peer, raw |-> work[r].raw]
    BY <2>1 DEF GoodWork, Carries
  <2>3. GoodWork(w)
    BY <2>1, <2>2 DEF GoodWork, Carries
  <2>4. Holds(r, w)
    BY <1>4 DEF Truncate
  <2> QED
    BY <1>4, <2>3, <2>4, HoldsOne, EmptyIsGood DEF Truncate, FileInv
<1>5. ASSUME NEW r \in Resolvers, WriteBack(r) PROVE FileInv'
  <2>1. GoodWork(work[r]) /\ work[r].step = "writing"
    BY <1>5 DEF WriteBack, At, FileInv
  <2>2. GoodFile(Appended(r))
    BY <2>1, AppendedIsGood DEF GoodWork
  <2>3. file' = Appended(r) \/ file' = Broken
    BY <1>5 DEF WriteBack
  <2> QED
    BY <1>5, <2>2, <2>3, IdleIsGood, HoldsOne DEF WriteBack, FileInv
<1>6. ASSUME NEW r \in Resolvers, LeaveResolve(r) PROVE FileInv'
  BY <1>6, IdleIsGood, HoldsOne DEF LeaveResolve, FileInv
<1>7. ASSUME NEW e, Register(e) PROVE FileInv'
  BY <1>7 DEF Register, FileInv
<1>8. CASE UNCHANGED vars
  BY <1>8 DEF vars, FileInv
<1> QED
  BY <1>1, <1>2, <1>3, <1>4, <1>5, <1>6, <1>7, <1>8 DEF Next, ResolverStep

LEMMA FileHolds == Spec => []FileInv
  BY FileInit, FileStep, PTL DEF Spec

(* However many resolvers, editors and versions of the file there are, no peer and
   no slug is listed twice. *)
THEOREM EntriesDistinct == Spec => []PeersAreDistinct
<1>1. FileInv => PeersAreDistinct
  BY DEF FileInv, GoodFile, PeersAreDistinct
<1> QED
  BY <1>1, FileHolds, PTL

(* No resolver ever allows sending. *)
THEOREM SendingAllowedByPeople == Spec => []SendingIsHuman
<1>1. FileInv => SendingIsHuman
  BY DEF FileInv, GoodFile, Human, SendingIsHuman
<1> QED
  BY <1>1, FileHolds, PTL

-----------------------------------------------------------------------------
(* What people saved and resolvers appended *)

(* Unless writes overlapped, nobody writes and the file is what is due, or one
   resolver writes, what it read was due, and the file is still empty. *)
DueInv ==
    due # None =>
        \/ Writing = {} /\ file = due
        \/ \E r \in Resolvers : Writing = {r} /\ file = Empty /\ due = work[r].raw

LEMMA DueStep == FileInv /\ DueInv /\ [Next]_vars => DueInv'
<1> SUFFICES ASSUME FileInv, DueInv, [Next]_vars, due' # None PROVE DueInv'
  BY DEF DueInv
<1> USE DEF DueInv
<1>0. ASSUME NEW r \in Resolvers, NEW w, Holds(r, w)
      PROVE  /\ \A q \in Resolvers : work'[q] = IF q = r THEN w ELSE work[q]
             /\ Writing' = IF w.step = "writing" THEN Writing \cup {r} ELSE Writing \ {r}
  <2>1. \A q \in Resolvers : work'[q] = IF q = r THEN w ELSE work[q]
    BY <1>0 DEF Holds, FileInv
  <2> QED
    BY <2>1 DEF Writing, At
<1>1. ASSUME NEW c \in Saved, Save(c) PROVE DueInv'
  BY <1>1 DEF Save, Writing, At
<1>2. ASSUME NEW r \in Resolvers, StartResolve(r) PROVE DueInv'
  <2> DEFINE w == [step |-> "resolving", used |-> {e.slug : e \in file.peers}]
  <2>1. Writing' = Writing /\ \A q \in Writing : work'[q] = work[q]
    BY <1>2, <1>0 DEF StartResolve, Writing, At
  <2> QED
    BY <1>2, <2>1 DEF StartResolve
<1>3. ASSUME NEW r \in Resolvers, NEW M, Resolve(r, M) PROVE DueInv'
  <2>1. PICK d \in M : Holds(r, [step |-> "checked", peer |-> Resolved(d, work[r].used),
                                  raw |-> file])
    BY <1>3 DEF Resolve
  <2>2. Writing' = Writing /\ \A q \in Writing : work'[q] = work[q]
    BY <1>3, <2>1, <1>0 DEF Resolve, Writing, At
  <2> QED
    BY <1>3, <2>2 DEF Resolve
<1>4. ASSUME NEW r \in Resolvers, Truncate(r) PROVE DueInv'
  <2>1. due' = due /\ file = work[r].raw /\ Writing = {}
    BY <1>4 DEF Truncate
  <2>2. [work[r] EXCEPT !.step = "writing"]
            = [step |-> "writing", peer |-> work[r].peer, raw |-> work[r].raw]
    BY <1>4 DEF Truncate, At, FileInv, GoodWork, Carries
  <2>3. Holds(r, [step |-> "writing", peer |-> work[r].peer, raw |-> work[r].raw])
    BY <1>4, <2>2 DEF Truncate
  <2>4. Writing' = {r} /\ work'[r].raw = work[r].raw
    BY <2>1, <2>3, <1>0
  <2> QED
    BY <1>4, <2>1, <2>4 DEF Truncate
<1>5. ASSUME NEW r \in Resolvers, WriteBack(r) PROVE DueInv'
  <2>1. r \in Writing
    BY <1>5 DEF WriteBack, Writing
  <2>2. due # None
    BY <1>5 DEF WriteBack
  <2>3. Writing = {r} /\ file = Empty /\ due = work[r].raw
    BY <2>1, <2>2
  <2>4. file' = Appended(r)
    BY <1>5, <2>3 DEF WriteBack
  <2>5. due' = Appended(r)
    BY <1>5, <2>2, <2>3 DEF WriteBack, Appended
  <2>6. Writing' = {}
    BY <1>5, <1>0, <2>3 DEF WriteBack, Idle
  <2> QED
    BY <2>4, <2>5, <2>6
<1>6. ASSUME NEW r \in Resolvers, LeaveResolve(r) PROVE DueInv'
  <2>1. r \notin Writing /\ due' = due
    BY <1>6 DEF LeaveResolve, Writing
  <2>2. Writing' = Writing /\ \A q \in Writing : work'[q] = work[q]
    BY <1>6, <2>1, <1>0 DEF LeaveResolve, Idle, Writing
  <2> QED
    BY <1>6, <2>1, <2>2 DEF LeaveResolve
<1>7. ASSUME NEW e, Register(e) PROVE DueInv'
  BY <1>7 DEF Register, Writing, At
<1>8. CASE UNCHANGED vars
  BY <1>8 DEF vars, Writing, At
<1> QED
  BY <1>1, <1>2, <1>3, <1>4, <1>5, <1>6, <1>7, <1>8 DEF Next, ResolverStep

(* Nothing that people saved and nothing that was appended is lost, unless writes
   overlap or one is cut short. *)
THEOREM NothingLost == Spec => []NothingIsLost
<1>1. Init => DueInv
  BY DEF Init, DueInv, Writing, At, Idle
<1>2. DueInv => NothingIsLost
  BY DEF DueInv, NothingIsLost
<1> QED
  BY <1>1, <1>2, DueStep, FileHolds, PTL DEF Spec

-----------------------------------------------------------------------------
(* The mirror *)

SlugsInv ==
    /\ DOMAIN mirror = Dialogs
    /\ \A c, d \in Dialogs : mirror[c] # None /\ mirror[c] = mirror[d] => c = d

LEMMA SlugsStep ==
    ASSUME SlugsInv, [Next]_vars
    PROVE  /\ SlugsInv'
           /\ \A d \in Dialogs : mirror[d] # None =>
                 \A c \in Dialogs : mirror'[c] = mirror[d] <=> c = d
<1>1. ASSUME NEW e, Register(e)
      PROVE  /\ SlugsInv'
             /\ \A d \in Dialogs : mirror[d] # None =>
                   \A c \in Dialogs : mirror'[c] = mirror[d] <=> c = d
  <2>1. /\ mirror[e.id] \in {None, e.slug}
        /\ \A d \in Dialogs \ {e.id} : mirror[d] # e.slug
        /\ mirror' = [mirror EXCEPT ![e.id] = e.slug]
    BY <1>1 DEF Register, MayRegister
  <2>2. \A d \in Dialogs : mirror'[d] = IF d = e.id THEN e.slug ELSE mirror[d]
    BY <2>1 DEF SlugsInv
  <2> QED
    BY <2>1, <2>2 DEF SlugsInv
<1>2. UNCHANGED mirror \/ \E e : Register(e)
  BY DEF Next, vars, ResolverStep, Save, StartResolve, Resolve, Truncate, WriteBack, LeaveResolve
<1> QED
  BY <1>1, <1>2 DEF SlugsInv

LEMMA SlugsHold == Spec => []SlugsInv
<1>1. Init => SlugsInv
  BY DEF Init, SlugsInv
<1> QED
  BY <1>1, SlugsStep, PTL DEF Spec

(* Whatever becomes of the file, a citation keeps its meaning. *)
THEOREM CitationsKept == Spec => CitationsHold
<1>1. SlugsInv /\ [Next]_vars =>
        [\A d \in Dialogs : mirror[d] # None =>
            \A c \in Dialogs : mirror'[c] = mirror[d] <=> c = d]_vars
  BY SlugsStep
<1> QED
  BY <1>1, SlugsHold, PTL DEF Spec, CitationsHold

-----------------------------------------------------------------------------
(* Slugs and types *)

(* A set of natural numbers that is not empty has a least one. *)
LEMMA Least ==
    ASSUME NEW N \in SUBSET Nat, N # {}
    PROVE  \E m \in N : \A n \in N : m <= n
<1> DEFINE R == OpToRel(<, Nat)
<1>1. \A m, n \in Nat : m < n => <<m, n>> \in R
  BY DEF OpToRel
<1>2. IsWellFoundedOn(R, Nat)
  BY NatLessThanWellFounded
<1> HIDE DEF R
<1>3. PICK m \in N : \A n \in N : ~(<<n, m>> \in R)
  BY <1>2, WFMin
<1>4. ASSUME NEW n \in N PROVE m <= n
  <2>1. ~(n < m)
    BY <1>1, <1>3
  <2> QED
    BY <2>1
<1> QED
  BY <1>4

(* Among one number more than there are slugs in use, one is free: a slug is always
   found, it is the first of the free ones, and nobody has it. *)
LEMMA SlugIsFree ==
    ASSUME NEW d \in Dialogs, NEW used, IsFiniteSet(used)
    PROVE  UniqueSlug(d, used) \in Slugs /\ UniqueSlug(d, used) \notin used
<1> DEFINE k == Cardinality(used)
           N == {n \in 1 .. k + 1 : Numbered(d, n) \notin used}
<1>1. k \in Nat
  BY FS_CardinalityType
<1>2. N # {}
  <2> SUFFICES ASSUME \A n \in 1 .. k + 1 : Numbered(d, n) \in used PROVE FALSE
    OBVIOUS
  <2> DEFINE f == [n \in 1 .. k + 1 |-> Numbered(d, n)]
  <2>1. IsFiniteSet(1 .. k + 1) /\ Cardinality(1 .. k + 1) = k + 1
    BY <1>1, FS_Interval
  <2>2. f \in [1 .. k + 1 -> used]
    OBVIOUS
  <2>3. \E x, y \in 1 .. k + 1 : x # y /\ f[x] = f[y]
    <3> HIDE DEF f, k
    <3> QED
      BY <1>1, <2>1, <2>2, FS_PigeonHole DEF k
  <2> QED
    BY <2>3 DEF Numbered
<1>3. \E m \in N : \A n \in N : m <= n
  <2>1. N \in SUBSET Nat
    BY <1>1
  <2> QED
    BY <1>2, <2>1, Least
<1>4. Min(N) \in N
  BY <1>3 DEF Min
<1>5. Min(N) \in Nat /\ Numbered(d, Min(N)) \notin used
  BY <1>1, <1>4
<1>6. Plain(d) \in Slugs /\ \A n \in Nat : Numbered(d, n) \in Slugs
  BY NamesAreGiven DEF Plain, Numbered, Slugs
<1> HIDE DEF N
<1> QED
  BY <1>5, <1>6 DEF UniqueSlug, N

(* Files are finite, and so is what is read of them. *)
FiniteFile(c) == c \in Contents /\ IsFiniteSet(c.peers)

FiniteWork(w) ==
    /\ w \in Works
    /\ w.step = "resolving" => IsFiniteSet(w.used)
    /\ w.step \in {"checked", "writing"} => IsFiniteSet(w.raw.peers)

TypeInv ==
    /\ TypeOK
    /\ file # Broken => IsFiniteSet(file.peers)
    /\ \A r \in Resolvers : FiniteWork(work[r])

LEMMA SlugsOfFile ==
    ASSUME NEW c, FiniteFile(c)
    PROVE  {e.slug : e \in c.peers} \in SUBSET Slugs /\ IsFiniteSet({e.slug : e \in c.peers})
<1> DEFINE U == {e.slug : e \in c.peers}
           f == [e \in c.peers |-> e.slug]
<1>1. f \in Surjection(c.peers, U)
  BY DEF Surjection
<1>2. IsFiniteSet(U)
  BY <1>1, FS_Surjection DEF FiniteFile
<1> QED
  BY <1>2 DEF FiniteFile, Contents, Entries

LEMMA HoldsTyped ==
    ASSUME TypeInv, NEW r \in Resolvers, NEW w, FiniteWork(w), Holds(r, w)
    PROVE  /\ work' \in [Resolvers -> Works]
           /\ \A q \in Resolvers : FiniteWork(work'[q])
  BY DEF TypeInv, TypeOK, Holds, FiniteWork

LEMMA WorkOf ==
    ASSUME NEW w, FiniteWork(w), w.step \in {"checked", "writing"}
    PROVE  /\ w = [step |-> w.step, peer |-> w.peer, raw |-> w.raw]
           /\ w.peer \in Entries /\ FiniteFile(w.raw)
  BY DEF FiniteWork, Works, Idle, FiniteFile

LEMMA OneMore ==
    ASSUME NEW c \in Contents, NEW e \in Entries
    PROVE  /\ [c EXCEPT !.peers = @ \cup {e}] \in Contents
           /\ IsFiniteSet(c.peers) => IsFiniteSet([c EXCEPT !.peers = @ \cup {e}].peers)
<1>1. [c EXCEPT !.peers = @ \cup {e}] = [peers |-> c.peers \cup {e}, rest |-> c.rest]
  BY DEF Contents
<1> QED
  BY <1>1, FS_AddElement DEF Contents

LEMMA TypeInit == Init => TypeInv
<1> SUFFICES ASSUME Init PROVE TypeInv
  OBVIOUS
<1>1. FiniteWork(Idle)
  BY DEF FiniteWork, Works, Idle
<1> QED
  BY <1>1, FilesAreFinite DEF Init, TypeInv, TypeOK, FiniteWork

LEMMA TypeStep == TypeInv /\ [Next]_vars => TypeInv'
<1> SUFFICES ASSUME TypeInv, [Next]_vars PROVE TypeInv'
  OBVIOUS
<1>0. ASSUME work' \in [Resolvers -> Works], \A q \in Resolvers : FiniteWork(work'[q]),
             file' = Broken \/ FiniteFile(file'), mirror' = mirror,
             due' \in Contents \cup {None}
      PROVE  TypeInv'
  <2>1. ASSUME NEW q \in Resolvers PROVE FiniteWork(work[q])'
    BY <1>0 DEF FiniteWork
  <2> QED
    BY <1>0, <2>1 DEF TypeInv, TypeOK, FiniteFile
<1>1. FiniteWork(Idle) /\ FiniteFile(Empty)
  BY FS_EmptySet DEF FiniteWork, Works, Idle, FiniteFile, Empty, Contents
<1>2. /\ work \in [Resolvers -> Works] /\ \A q \in Resolvers : FiniteWork(work[q])
      /\ file = Broken \/ FiniteFile(file)
      /\ due \in Contents \cup {None} /\ mirror \in [Dialogs -> Slugs \cup {None}]
  BY DEF TypeInv, TypeOK, FiniteFile
<1>3. CASE UNCHANGED vars
  BY <1>0, <1>2, <1>3 DEF vars
<1>4. ASSUME NEW c \in Saved, Save(c) PROVE TypeInv'
  <2>1. c \in Contents /\ FiniteFile(c)
    BY FilesAreFinite DEF FiniteFile
  <2> QED
    BY <1>0, <1>2, <1>4, <2>1 DEF Save
<1>5. ASSUME NEW r \in Resolvers, StartResolve(r) PROVE TypeInv'
  <2> DEFINE w == [step |-> "resolving", used |-> {e.slug : e \in file.peers}]
  <2>1. FiniteWork(w)
    BY <1>2, <1>5, SlugsOfFile DEF StartResolve, FiniteWork, Works
  <2> QED
    BY <1>0, <1>2, <1>5, <2>1, HoldsTyped DEF StartResolve
<1>6. ASSUME NEW r \in Resolvers, NEW M \in SUBSET Dialogs, Resolve(r, M) PROVE TypeInv'
  <2>1. PICK d \in M : /\ file # Broken
                       /\ Holds(r, [step |-> "checked", peer |-> Resolved(d, work[r].used),
                                    raw |-> file])
    BY <1>6 DEF Resolve
  <2>2. IsFiniteSet(work[r].used)
    BY <1>2, <1>6 DEF Resolve, At, FiniteWork
  <2>3. Resolved(d, work[r].used) \in Entries
    BY <2>2, SlugIsFree DEF Resolved, Entries
  <2>4. FiniteWork([step |-> "checked", peer |-> Resolved(d, work[r].used), raw |-> file])
    BY <1>2, <2>1, <2>3 DEF FiniteWork, Works, FiniteFile
  <2> QED
    BY <1>0, <1>2, <1>6, <2>1, <2>4, HoldsTyped DEF Resolve
<1>7. ASSUME NEW r \in Resolvers, Truncate(r) PROVE TypeInv'
  <2>1. /\ work[r].step = "checked" /\ FiniteWork(work[r])
        /\ work[r] = [step |-> "checked", peer |-> work[r].peer, raw |-> work[r].raw]
        /\ work[r].peer \in Entries /\ FiniteFile(work[r].raw)
    BY <1>2, <1>7, WorkOf DEF Truncate, At
  <2>2. [work[r] EXCEPT !.step = "writing"]
            = [step |-> "writing", peer |-> work[r].peer, raw |-> work[r].raw]
    BY <2>1
  <2>3. FiniteWork([step |-> "writing", peer |-> work[r].peer, raw |-> work[r].raw])
    BY <2>1 DEF FiniteWork, Works, FiniteFile
  <2> QED
    BY <1>0, <1>1, <1>2, <1>7, <2>2, <2>3, HoldsTyped DEF Truncate
<1>8. ASSUME NEW r \in Resolvers, WriteBack(r) PROVE TypeInv'
  <2>1. work[r].peer \in Entries /\ FiniteFile(work[r].raw)
    BY <1>2, <1>8, WorkOf DEF WriteBack, At
  <2>2. FiniteFile(Appended(r))
    BY <2>1, OneMore DEF FiniteFile, Appended
  <2>3. due # None => [due EXCEPT !.peers = @ \cup {work[r].peer}] \in Contents
    BY <1>2, <2>1, OneMore
  <2> QED
    BY <1>0, <1>1, <1>8, <2>2, <2>3, HoldsTyped DEF WriteBack
<1>9. ASSUME NEW r \in Resolvers, LeaveResolve(r) PROVE TypeInv'
  BY <1>0, <1>1, <1>2, <1>9, HoldsTyped DEF LeaveResolve
<1>10. ASSUME file # Broken, NEW e \in file.peers, Register(e) PROVE TypeInv'
  <2>1. e \in Entries
    BY <1>2, <1>10 DEF FiniteFile, Contents
  <2>2. mirror' \in [Dialogs -> Slugs \cup {None}]
    BY <1>2, <1>10, <2>1 DEF Register, Entries
  <2> QED
    BY <1>10, <2>2 DEF Register, TypeInv, TypeOK, FiniteWork
<1> QED
  BY <1>3, <1>4, <1>5, <1>6, <1>7, <1>8, <1>9, <1>10 DEF Next, ResolverStep, Matches

(* For any finite files, however many peers share a name: whoever resolves one finds
   it a slug, and every variable keeps its type. *)
THEOREM TypeCorrect == Spec => []TypeOK
<1>1. TypeInv => TypeOK
  BY DEF TypeInv
<1> QED
  BY TypeInit, TypeStep, <1>1, PTL DEF Spec

=============================================================================
