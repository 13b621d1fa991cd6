CONSTANTS
    s1 = s1
    th1 = th1
    Tasks = {t1}
    Sessions = {s1}
    Threads = {th1}
    NULL = NULL
    SessionOf <- OneSession
    ThreadOf <- OneThread
    Attempts = {d1, d2}
    Forks = TRUE
    Drops = FALSE
    Failures = FALSE
    MaxRemovals = 0
    Prompt = TRUE
    MaxTurns <- ThreeTurns
SPECIFICATION FairSpec
PROPERTIES
    ResultsDelivered
CHECK_DEADLOCK FALSE
