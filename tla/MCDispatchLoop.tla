--------------------------- MODULE MCDispatchLoop ---------------------------
(* Instances of DispatchLoop for TLC. *)
EXTENDS DispatchLoop

Ok    == [status |-> Success, suspension |-> FALSE, outputs |-> TRUE, err |-> FALSE]
Temp  == [status |-> TemporaryFail, suspension |-> FALSE, outputs |-> FALSE, err |-> TRUE]
Pause == [status |-> Suspended, suspension |-> TRUE, outputs |-> FALSE, err |-> FALSE]
Bogus == [status |-> "bogus", suspension |-> FALSE, outputs |-> TRUE, err |-> FALSE]
SomeReturns == {Ok, Bogus, Temp, Pause}

\* a stands alone; c reads b.
BranchDeps == [s \in {"a", "b", "c"} |-> IF s = "c" THEN {"b"} ELSE {}]
SortedOrder == <<"a", "b", "c">>
=============================================================================
