\* Two steps, one of them scattered over up to three keys, their sub-jobs
\* ending in any order.
SPECIFICATION Spec
CONSTANTS
    StepNames <- Apart
    MaxKeys <- ApartKeys
    MaxLen = 2
    Methods = {"dotproduct", "nested_crossproduct", "flat_crossproduct"}
INVARIANTS
    ScatterGathersAll
    OwnDirectory
\* A step ends gathered or refused.
CHECK_DEADLOCK FALSE
