SPECIFICATION Spec
CONSTANTS
    NULL = NULL
    Requests = {r1, r2}
    Handlers = {h1, h2}
    t1 = t1
    m1 = m1
    f1 = f1
    f2 = f2
    x1 = x1
    Threads = {t1}
    Meetings = {m1}
    Flows = {}
    Tools = {x1}
    Calls <- ChatCalls
    Offered = {"approve_once", "deny"}
    StoreFaults = TRUE
    MaxEdits = 0
    MaxRestarts = 1
SYMMETRY Symmetry
INVARIANTS
    TypeOK
    AllowNeedsApproval
    DeliveredIsDurable
    SenderNeverLost
    NoDeadRouting
PROPERTIES
    RouteOutlivesOthers
    ImplementsContract
