CONSTANTS
    Req = {r1, r2}
    Exec = {}
    Port = {p1}
    None = None
    IdleTimeout = 1
    Capacity = 1
    GuestCheck = TRUE
    ApiOps = {"snap", "restore", "pause", "destroy"}
    MaxDrops = 1
SPECIFICATION Spec
SYMMETRY Symmetry
INVARIANTS
    TypeOK
    InFlightExact
    GateHolds
