SPECIFICATION Spec
CONSTANTS
    Runs = {r1}
    Resumes = {c1, c2}
    Cancels = {k1, k2}
    Graphs = {g1, g2}
    NULL = NULL
    Keep = 1
    StoreFaults = TRUE
    MaxGates = 2
    MaxEdits = 1
    MaxRestarts = 1
SYMMETRY Symmetry
INVARIANTS
    TypeOK
    OneExecutor
    ParkedIsResumable
    ApprovedGraphOnly
    StartIsProtected
PROPERTIES
    LifecycleHolds
