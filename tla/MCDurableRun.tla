---------------------------- MODULE MCDurableRun ----------------------------
(* Instances of DurableRun for TLC. *)
EXTENDS DurableRun

Ok    == [status |-> Success, suspension |-> FALSE, outputs |-> TRUE, err |-> FALSE]
Fail  == [status |-> PermanentFail, suspension |-> FALSE, outputs |-> FALSE, err |-> TRUE]
Pause == [status |-> Suspended, suspension |-> TRUE, outputs |-> FALSE, err |-> FALSE]

\* A producer that may suspend and a consumer listed before it.
PairDeps  == [s \in {"a", "b"} |-> IF s = "b" THEN {"a"} ELSE {}]
PairOrder == <<"b", "a">>

SomeReturns == {Ok, Fail, Pause}
=============================================================================
