CONSTANTS
    Types <- MCTypes
    Jobs <- MCJobs
    MaxDepth = 5
    PayloadOffset = 4
    Levels = 7
    Limits = {0, 4, 6, 9, 11, 12, 24, 45}
    Identifiers = {0, 1, 2, 9}
    Nested = TRUE

SPECIFICATION Spec

INVARIANT
    EveryLeafAccounted

\* A type that has no columns ends the run.
CHECK_DEADLOCK FALSE
