SPECIFICATION Spec
CONSTANTS
    Terminal = {j1, j2}
    Job = {j1, j2}
    None = None
    MaxDaemons = 2
SYMMETRY Interchangeable
INVARIANTS
    TypeOK
PROPERTIES
    SweepsSpareRunning
    LaunchTakesNewSession
CHECK_DEADLOCK FALSE
