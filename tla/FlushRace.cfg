CONSTANTS
    Queue = {q1, q2}
    Chunks = 1
    Cap = 1
    MaxWrites = 2
    MaxOrder = 5
    MaxCrashes = 0
SPECIFICATION Spec
PROPERTY FlushDurable
CHECK_DEADLOCK FALSE
