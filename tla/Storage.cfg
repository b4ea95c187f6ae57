CONSTANTS
    Vm = {v1, v2}
    Dev = {d1, d2}
    Pid = {w1, w2}
    None = None
    MAX_RESPAWNS = 2
    MaxCrashes = 2
SPECIFICATION FairSpec
INVARIANTS
    TypeOK
    NoOrphanWorker
    DetachFindsWorker
PROPERTY CrashHandled
CHECK_DEADLOCK FALSE
