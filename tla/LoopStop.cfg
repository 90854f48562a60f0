\* OnErrorStop, two handlers at a time, a scattered producer and a join.
SPECIFICATION FairSpec
CONSTANTS
    Steps = {"a", "b", "c"}
    Order <- MixedOrder
    Deps <- JoinDeps
    Scattered = {"b"}
    Conditional = {"a"}
    OutputSteps = {"c"}
    MaxWidth = 2
    MaxParallel = 2
    ContinueOnError = FALSE
    Returns <- AllReturns
    Faults = {"inputs", "gate", "cancel"}
INVARIANTS
    CapRespected
    InputsProduced
    StepMatchesItsJobs
    WaitsAtFixpoint
    ResultIsComplete
PROPERTIES
    OutcomesAreFinal
    StopLaunchesNothing
    LoopEnds
    ImplementsDataflow
