\* Every staging of the library interrupted at any point, on the host and in containers,
\* and every kind of port over what a tool makes.
SPECIFICATION Spec
CONSTANTS
    Library <- FilesLibrary
    MaxRestarts = 1
    TooLarge = {"U"}
INVARIANTS
    StagedAsPlanned
    SourcesUntouched
    OutputsStand
\* An invocation ends.
CHECK_DEADLOCK FALSE
