CONSTANTS
    Run = {r1, r2}
    Proc = {p1}
    Lock = {k1, k2}
    Api = Api
    None = None
    ApiOps = {"Suspending", "Restoring"}
    HasTimeout = TRUE
    MaxAbandons = 1
SPECIFICATION FairSpec
INVARIANTS
    NoOverlap
    RunsCleanUp
PROPERTY
    TimeoutEndsRun
CHECK_DEADLOCK FALSE
