SPECIFICATION Spec
CONSTANTS
    NULL = NULL
    Requests = {r1, r2}
    Handlers = {h1}
    t1 = t1
    m1 = m1
    f1 = f1
    f2 = f2
    x1 = x1
    Threads = {t1}
    Meetings = {}
    Flows = {f1, f2}
    Tools = {x1}
    Calls <- ReviewCalls
    Offered = {"approve_always_for_tool", "approve_always_for_flow"}
    StoreFaults = FALSE
    MaxEdits = 1
    MaxRestarts = 0
SYMMETRY Symmetry
INVARIANTS
    TrustProvenance
PROPERTIES
    ReviewNeedsConsent
