\* One input of every type and value of the library, secondary files, requirements, and
\* command lines of several bindings.
SPECIFICATION Spec
CONSTANTS
    Library <- JobLibrary
    TooLarge = {"huge"}
INVARIANTS
    InputsConform
    CompanionsComplete
    LevelsUnbroken
\* Reading a job order ends.
CHECK_DEADLOCK FALSE
