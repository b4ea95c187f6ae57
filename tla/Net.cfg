CONSTANTS
    Vm = {v1, v2, v3}
    Project = {p1, p2}
    NoVm = NoVm
    SubnetCount = 2
    SubnetSize = 8
    Faults = {"create", "delete", "save"}
SPECIFICATION Spec
SYMMETRY Symmetry
INVARIANTS
    TypeOK
    AddressesUnique
    LiveIsWired
    LiveIsSaved
    NoLeftovers
