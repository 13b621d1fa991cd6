SPECIFICATION FairSpec
CONSTANTS
    Runs = {r1, r2}
    Resumes = {c1}
    Cancels = {}
    Graphs = {g1}
    NULL = NULL
    Keep = 1
    StoreFaults = FALSE
    MaxGates = 1
    MaxEdits = 0
    MaxRestarts = 1
INVARIANTS
    RunningIsAttended
PROPERTIES
    RunsSettle
