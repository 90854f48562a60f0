----------------------------- MODULE MCScatter -----------------------------
(* Instances of Scatter for TLC. *)
EXTENDS Scatter

\* A step scattered over up to three keys and one over up to one.
Apart     == {<<"align">>, <<"sort", "all">>}
ApartKeys == [s \in Apart |-> IF s = <<"align">> THEN 3 ELSE 1]
=============================================================================
