\* A document whose steps are listed producers first, with two independent branches;
\* OnErrorContinue.
SPECIFICATION FairSpec
CONSTANTS
    Steps = {"a", "b", "c"}
    Order <- SortedOrder
    Deps <- BranchDeps
    Scattered = {"b"}
    Conditional = {"a"}
    OutputSteps = {"a", "c"}
    MaxWidth = 2
    MaxParallel = 2
    ContinueOnError = TRUE
    Returns <- SomeReturns
    Faults = {"inputs", "gate", "call", "outputs", "cancel"}
INVARIANTS
    NilMeansNoMoreWork
    FailuresAccountedFor
PROPERTIES
    CallerReturns
