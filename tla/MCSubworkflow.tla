--------------------------- MODULE MCSubworkflow ---------------------------
(* Nested documents for TLC. *)
EXTENDS Subworkflow

Flow(steps, feature) == [steps |-> steps, feature |-> feature, broken |-> FALSE]
Leaf(process) == [process |-> process, deps |-> {}]

\* `nest` runs one workflow two levels deep and again after that; `loop` runs workflows
\* that run one another and itself; `again` runs workflows that run one another after a
\* tool that may suspend, one of which could not be resumed, as it has the feature from
\* above.
Documents ==
    [nest   |-> Flow([n |-> Leaf("outer"), t |-> [process |-> "middle", deps |-> {"n"}]], TRUE),
     outer  |-> Flow([m |-> Leaf("middle"), e |-> Leaf("expression")], TRUE),
     middle |-> Flow([a |-> Leaf("tool"), b |-> Leaf("tool")], FALSE),
     loop   |-> Flow([l |-> Leaf("left"), x |-> Leaf("bad")], TRUE),
     left   |-> Flow([r |-> Leaf("right"), o |-> Leaf("loop")], FALSE),
     right  |-> Flow([l |-> Leaf("left"), z |-> Leaf("operation")], FALSE),
     bad    |-> [Flow([t |-> Leaf("tool")], TRUE) EXCEPT !.broken = TRUE],
     again  |-> Flow([k |-> Leaf("knot")], TRUE),
     knot   |-> Flow([t |-> Leaf("tool"), m |-> [process |-> "mesh", deps |-> {"t"}]], TRUE),
     mesh   |-> Flow([k |-> Leaf("knot")], FALSE)]
=============================================================================
