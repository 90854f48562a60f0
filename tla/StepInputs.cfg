\* Documents of up to three steps, planned and run.
SPECIFICATION Spec
CONSTANTS
    Library <- MCLibrary
    RunInputs <- MCRunInputs
    HandlerValues <- MCHandlerValues
    Known <- MCKnown
    HasType <- CheckValueType
    PathsSet <- NormalizeValuePaths
    Accompanied <- Companions
    LeavesOf <- Leaves
INVARIANTS
    PlanSufficient
    DeliveredAsWired
\* A document is refused, or its run ends.
CHECK_DEADLOCK FALSE
