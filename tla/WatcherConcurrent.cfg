SPECIFICATION Spec
CONSTANTS
    prompt = prompt
    output = output
    spinner = spinner
    NoScreen = NoScreen
    Screen = {prompt, spinner}
    Spinner = {spinner}
    Reply = {"ok", "error"}
    Goroutine = {g1, g2}
    IPCRevival = TRUE
    MaxQueued = 1
    IdlePolls = 1
    StallPolls = 1
    MaxRetries = 2
SYMMETRY GoroutineSymmetry
INVARIANTS
    IdleMeansPrompt
    LiveSessionHasRunner
    LostOnlyBehindOutage
PROPERTIES
    NotificationsChain
    StallIsSticky
    DeathNeedsEvidence
CHECK_DEADLOCK FALSE
