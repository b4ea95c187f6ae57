CONSTANTS
    Wl = {w1}
    Task = {t1, t2}
    Conn = {c1, c2}
    None = None
    ApiSuspends = TRUE
    Capacity = 2
    MaxCalls = 3
    MaxSuspends = 1
    MaxDrops = 1
SPECIFICATION FairSpec
INVARIANTS
    TypeOK
    FinishedMeansExited
    Resynced
PROPERTIES
    TerminalIsFinal
    ExitReported
CHECK_DEADLOCK FALSE
