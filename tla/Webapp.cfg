CONSTANTS
    N = 3
    MaxMaking = 1
    MaxRoots = 1
    Deleter = {d1}
    MaxAtStop = 2
    MaxRuns = 2
    MaxFails = 1
SPECIFICATION Spec
INVARIANTS
    CascadeCovers
    LeftoversSwept
    NoneStuck
CHECK_DEADLOCK FALSE
