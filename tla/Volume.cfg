CONSTANTS
    Queue = {q1, q2}
    Chunks = 2
    Cap = 1
    MaxWrites = 2
    MaxOrder = 3
    MaxCrashes = 1
SPECIFICATION Spec
SYMMETRY Symmetry
INVARIANTS
    UnsyncedIsDirty
PROPERTIES
    DirtyFdsPinned
    FlushCoversDirty
CHECK_DEADLOCK FALSE
