SPECIFICATION Spec
CONSTANTS
    Cards = {c1, c2}
    Gated = {c1}
    Runs = {r1, r2}
    Pollers = {poller}
    Callers = {caller}
    NULL = NULL
    MaxReclaims = 2
    LongRuns = TRUE
    CrashAnywhere = FALSE
    MaxCrashes = 1
    MaxRequeues = 0
SYMMETRY Alike
INVARIANTS
    TypeOK
    ClaimsAreCovered
PROPERTIES
    ImplementsContract
CHECK_DEADLOCK FALSE
