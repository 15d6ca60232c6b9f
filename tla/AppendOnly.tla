----------------------------- MODULE AppendOnly -----------------------------
(***************************************************************************)
(* What a loading step promises about its two tables, whatever the order   *)
(* in which it runs: rows are only ever added, a row never changes, and    *)
(* the second table holds copies of rows of the first.                     *)
(***************************************************************************)
VARIABLES source, copy      \* functions from keys to rows

\* g has the rows of f, and perhaps others.
Extends(g, f) == DOMAIN f \subseteq DOMAIN g /\ \A k \in DOMAIN f : g[k] = f[k]

Init == DOMAIN source = {} /\ DOMAIN copy = {}

Collect == Extends(source', source) /\ UNCHANGED copy

Copy ==
    /\ UNCHANGED source
    /\ Extends(copy', copy)
    /\ Extends(source, copy')

Spec == Init /\ [][Collect \/ Copy]_<<source, copy>>
=============================================================================
