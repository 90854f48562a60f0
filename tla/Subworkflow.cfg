\* Workflows two and three levels deep, a cycle of them and one with a step that may
\* suspend, two handlers at a time in each run, answers that arrive in any order.
SPECIFICATION FairSpec
CONSTANTS
    Workflows <- Documents
    Roots = {"nest", "loop", "again"}
    MaxParallel = 2
    StopOnError = TRUE
    MaxAnswers = 4
INVARIANTS
    DescentEnds
PROPERTIES
    SuspensionsKept
    RunEnds
\* A run ends.
CHECK_DEADLOCK FALSE
