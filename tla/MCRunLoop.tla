----------------------------- MODULE MCRunLoop -----------------------------
(* Instances of RunLoop and its invariant for TLC. *)
EXTENDS RunLoopInvariant

\* What well-behaved handlers return.
Ok      == [status |-> Success, suspension |-> FALSE, outputs |-> TRUE, err |-> FALSE]
Fail    == [status |-> PermanentFail, suspension |-> FALSE, outputs |-> FALSE, err |-> TRUE]
Temp    == [status |-> TemporaryFail, suspension |-> FALSE, outputs |-> FALSE, err |-> TRUE]
Pause   == [status |-> Suspended, suspension |-> TRUE, outputs |-> FALSE, err |-> FALSE]
\* What a third-party handler may get wrong: no handle, a handle too many,
\* a zero Result, a status that is none.
NoHandle   == [status |-> Suspended, suspension |-> FALSE, outputs |-> FALSE, err |-> FALSE]
ZeroResult == [status |-> Unset, suspension |-> FALSE, outputs |-> FALSE, err |-> FALSE]
Bogus      == [status |-> "bogus", suspension |-> FALSE, outputs |-> TRUE, err |-> FALSE]

\* Two independent steps and one that needs both.
JoinDeps == [s \in {"a", "b", "c"} |-> IF s = "c" THEN {"a", "b"} ELSE {}]
MixedOrder == <<"c", "a", "b">>

SomeReturns == {Ok, Fail, Temp, Pause}
AllReturns == {Ok, Fail, Temp, Pause, NoHandle, ZeroResult, Bogus}
=============================================================================
