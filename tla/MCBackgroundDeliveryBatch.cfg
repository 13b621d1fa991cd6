CONSTANTS
    s1 = s1
    th1 = th1
    Tasks = {t1, t2}
    Sessions = {s1}
    Threads = {th1}
    NULL = NULL
    SessionOf <- OneSession
    ThreadOf <- OneThread
    Attempts = {d1, d2}
    Forks = FALSE
    Drops = FALSE
    Failures = FALSE
    MaxRemovals = 0
    Prompt = TRUE
    MaxTurns <- OneTurn
SPECIFICATION FairSpec
PROPERTIES
    ResultsDelivered
CHECK_DEADLOCK FALSE
