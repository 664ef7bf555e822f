------------------------------- MODULE StdMap --------------------------------
(***************************************************************************)
(* std::map as the program uses it: a function with a finite domain.       *)
(***************************************************************************)

Empty == [i \in {} |-> 0]

\* emplace for each key of g: the keys f has stay as they are.
Emplace(f, g) ==
    [x \in DOMAIN f \cup DOMAIN g |-> IF x \in DOMAIN f THEN f[x] ELSE g[x]]

\* operator[] assigned for each key of g.
Assign(f, g) ==
    [x \in DOMAIN f \cup DOMAIN g |-> IF x \in DOMAIN g THEN g[x] ELSE f[x]]

\* erase for each key in S.
Without(f, S) == [x \in DOMAIN f \ S |-> f[x]]
=============================================================================
