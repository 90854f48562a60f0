------------------------------- MODULE Values -------------------------------
(***************************************************************************)
(* Values on the edges of a workflow: records by kind, with null and the   *)
(* errors that computing one may end in.                                   *)
(***************************************************************************)
EXTENDS Naturals, Sequences

Null       == [kind |-> "null"]
Arr(s)     == [kind |-> "array", items |-> s]
Fails(why) == [kind |-> "error", why |-> why]
IsErr(v)   == v.kind = "error"
IsArr(v)   == v.kind = "array"

\* The value a function from names gives, null where it gives none (a Go map read).
Get(f, k) == IF k \in DOMAIN f THEN f[k] ELSE Null

\* One function from names written over another.
Over(f, g) == [k \in DOMAIN f \union DOMAIN g |-> IF k \in DOMAIN f THEN f[k] ELSE g[k]]

\* The first error of a sequence of results, or the sequence as an array.
Collected(results) ==
    IF \E i \in DOMAIN results : IsErr(results[i])
    THEN results[CHOOSE i \in DOMAIN results :
                   IsErr(results[i]) /\ \A j \in 1..(i - 1) : ~IsErr(results[j])]
    ELSE Arr(results)
=============================================================================
