\* A scattered producer and a conditional consumer, interrupted and resumed.
SPECIFICATION DurableFairSpec
CONSTANTS
    Steps = {"a", "b"}
    Order <- PairOrder
    Deps <- PairDeps
    Scattered = {"a"}
    Conditional = {"a"}
    OutputSteps = {"b"}
    MaxWidth = 2
    MaxParallel = 0
    ContinueOnError = FALSE
    Returns <- SomeReturns
    Faults = {"call", "outputs", "cancel", "refuse", "restart", "crash"}
    AnswerStatuses = {"success", "temporaryFail"}
    MaxMishaps = 2
INVARIANTS
    DurableInvariant
    SnapshotExtended
    RecordedWorkNotRedone
PROPERTIES
    RunConcludes
