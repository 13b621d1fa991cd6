SPECIFICATION FairSpec
CONSTANTS
    NULL = NULL
    Requests = {r1, r2}
    Handlers = {h1}
    t1 = t1
    m1 = m1
    f1 = f1
    f2 = f2
    x1 = x1
    Threads = {t1}
    Meetings = {}
    Flows = {}
    Tools = {x1}
    Calls <- BoundedCalls
    Offered = {"approve_once", "deny"}
    StoreFaults = FALSE
    MaxEdits = 0
    MaxRestarts = 0
INVARIANTS
    OutcomeAgreesWithRow
    NoOpenRowBehind
    DecisionUnderway
PROPERTIES
    ParkResolves
    ApprovalDelivered
