SPECIFICATION FairSpec
CONSTANTS
    Messages = {m1, m2}
    Threads = {t1}
    Modes = {"interrupt", "steer", "followup", "parallel"}
    Stops = {s1}
    NULL = NULL
PROPERTIES
    EveryTurnAnswered
    FollowupServed
    SteerHeeded
CHECK_DEADLOCK FALSE
