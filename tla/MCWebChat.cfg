SPECIFICATION Spec
CONSTANTS
    Messages = {m1, m2, m3}
    Threads = {t1}
    Modes = {"interrupt", "followup", "parallel"}
    Stops = {s1}
    NULL = NULL
SYMMETRY Symmetry
INVARIANTS
    TypeOK
    RegisteredNotCancelled
PROPERTIES
    EvictionOwned
    CancelHasCause
    ImplementsContract
CHECK_DEADLOCK FALSE
