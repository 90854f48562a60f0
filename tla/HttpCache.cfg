\* One process at a time, which may die between any two steps; every write may fail.
SPECIFICATION Spec
CONSTANTS
    Processes = {p}
    Policies <- MCPolicies
    Lifetime = 2
    Truncates = FALSE
    Timeout = 1
    LastVersion = 3
    LastTime = 5
INVARIANTS
    CacheIsBelievable
\* The clock and the versions are bounded.
CHECK_DEADLOCK FALSE
