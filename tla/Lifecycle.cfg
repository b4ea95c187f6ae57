CONSTANTS
    Task = {t1, t2}
    Proc = {p1, p2}
    NoTask = NoTask
    NoProc = NoProc
    MaxDisconnects = 1
SPECIFICATION FairSpec
INVARIANTS
    TypeOK
    OneOperationAtATime
    SuspendedAtRest
    OneProcess
    NoStrayProcess
    PausedIsFrozen
    DestroyReleases
PROPERTIES
    OperationsSettle
    ImplementsVmButUndo
    WorkEnds
CHECK_DEADLOCK FALSE
