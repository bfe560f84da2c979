SPECIFICATION FairSpec
CONSTANTS
    Conductor = {c1, c2}
    Lines = 2
    Covers <- MCCovers
    MaxWorkers = 1
    MaxRequeues = 1
    MaxCrashes = 1
    MaxOthers = 1
    MaxLate = 1
INVARIANTS
    TypeOK
    DispatchedOnce
    WorkersWithinLimit
PROPERTIES
    TodoTakenUp
CHECK_DEADLOCK FALSE
