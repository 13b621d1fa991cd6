CONSTANTS
    s1 = s1
    th1 = th1
    Tasks = {t1, t2}
    Sessions = {s1}
    Threads = {th1}
    NULL = NULL
    SessionOf <- OneSession
    ThreadOf <- OneThread
    Attempts = {d1, d2}
    Forks = FALSE
    Drops = TRUE
    Failures = TRUE
    MaxRemovals = 1
    Prompt = FALSE
    MaxTurns <- TwoTurns
SPECIFICATION Spec
SYMMETRY Alike
INVARIANTS
    TypeOK
    OneDeliveryPerSession
    NoResultLost
    DeliveredOnce
PROPERTIES
    ImplementsContract
CHECK_DEADLOCK FALSE
