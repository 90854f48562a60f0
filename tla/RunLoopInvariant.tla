-------------------------- MODULE RunLoopInvariant --------------------------
(***************************************************************************)
(* The inductive invariant behind RunLoop's safety properties.  Each part  *)
(* is what one property needs to survive a step it says nothing about.     *)
(***************************************************************************)
EXTENDS RunLoop, LoopStateInvariant

\* A pass without progress has seen every step from the first on, and leaves
\* the loop waiting with nothing it could have started or launched.
PassComplete ==
    /\ (pc = "returned") <=> (outcome # "none")
    /\ pc \in {"starting", "launching"} /\ ~progress => at = 1 /\ slot = 1
    /\ pc = "launching" /\ ~progress => \A s \in Steps : ~Startable(s)
    /\ WaitsAtFixpoint

LoopInvariant ==
    /\ RunLoopTypeOK
    /\ StateInOrder
    /\ PassComplete
    /\ ResultIsComplete
=============================================================================
