----------------------------- MODULE MCAccounts -----------------------------
(***************************************************************************)
(* Two named accounts or a flat file, and commands of every kind.          *)
(***************************************************************************)
EXTENDS Accounts, TLC

CONSTANTS home, work, plain, f1, f2, d1, d2

Pair(h, w) == (home :> h) @@ (work :> w)

Named(default, db, dir) ==
    [named |-> TRUE, order |-> <<home, work>>, default |-> default, db |-> db, dir |-> dir]

Apart    == Pair(f1, f2)
ApartDir == Pair(d1, d2)

(* With and without a default, with a path that two accounts share, and flat with
   and without a path *)
People ==
    {Named(d, Apart, ApartDir) : d \in {home, None}}
        \cup {Named(home, Pair(f1, f1), ApartDir), Named(home, Apart, Pair(d1, d1))}
        \cup {[named |-> FALSE, order |-> <<plain>>, default |-> None,
               db |-> plain :> f, dir |-> plain :> d1] : f \in {f1, None}}

Run(kind, account) ==
    [kind |-> kind, account |-> account, db |-> None, env |-> None, dry |-> FALSE,
     handle |-> None, limit |-> 1, asc |-> FALSE]

Typical ==
    {[Run("search", All) EXCEPT !.limit = 2], [Run("search", All) EXCEPT !.limit = -1, !.asc = TRUE],
     Run("list", All), Run("sync", All), Run("loop", None),
     [Run("sync", home) EXCEPT !.db = f2],
     [Run("act", None) EXCEPT !.dry = TRUE], [Run("act", None) EXCEPT !.env = f2],
     [Run("tag", All) EXCEPT !.handle = work], [Run("tag", None) EXCEPT !.handle = work]}

Posts == {[ts |-> 1, id |-> 1], [ts |-> 1, id |-> 2], [ts |-> 2, id |-> 1]}

News  == {[ts |-> 1, id |-> 2]}

Held == {[f \in {f1, f2} |-> {}],
         (f1 :> {[ts |-> 1, id |-> 1], [ts |-> 1, id |-> 2]}) @@ (f2 :> {[ts |-> 2, id |-> 1]})}

Symmetry == Permutations(Processes)

=============================================================================
