CONSTANTS
    Task = {t1, t2}
    Proc = {p1, p2}
    NoTask = NoTask
    NoProc = NoProc
    MaxDisconnects = 0
SPECIFICATION FairSpec
PROPERTY ImplementsVm
CHECK_DEADLOCK FALSE
