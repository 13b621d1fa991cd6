SPECIFICATION FairSpec
CONSTANTS
    Cards = {c1}
    Gated = {c1}
    Runs = {r1, r2}
    Pollers = {poller}
    Callers = {}
    NULL = NULL
    MaxReclaims = 2
    LongRuns = TRUE
    CrashAnywhere = FALSE
    MaxCrashes = 1
    MaxRequeues = 2
PROPERTIES
    ClaimsSettle
CHECK_DEADLOCK FALSE
