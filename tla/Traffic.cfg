CONSTANTS
    Req = {r1}
    Exec = {e1}
    Port = {p1}
    None = None
    IdleTimeout = 1
    Capacity = 1
    GuestCheck = FALSE
    ApiOps = {"snap", "pause"}
    MaxDrops = 1
SPECIFICATION FairSpec
PROPERTIES
    CallersAnswered
    IdleIsSuspended
