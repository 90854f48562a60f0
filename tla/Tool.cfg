\* A host tool under a time limit and two contained ones sharing an image.
SPECIFICATION FairSpec
CONSTANTS
    Calls = {"h", "k", "m"}
    Contained = {"k", "m"}
    Limited = {"h"}
    Allocating = {"h", "k"}
    Endings <- SomeEndings
INVARIANTS
    ResultIsEarned
    HostLeavesNothing
    ImageBeforeContainer
PROPERTIES
    InvocationsEnd
