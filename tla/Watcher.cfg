SPECIFICATION FairSpec
CONSTANTS
    prompt = prompt
    output = output
    spinner = spinner
    NoScreen = NoScreen
    Screen = {prompt, spinner}
    Spinner = {spinner}
    Reply = {"ok", "busy", "no_tabs", "error"}
    Goroutine = {g1}
    IPCRevival = TRUE
    MaxQueued = 1
    IdlePolls = 2
    StallPolls = 3
    MaxRetries = 2
INVARIANTS
    TypeOK
PROPERTIES
    QuietBecomesIdle
    FrozenSpinnerStalls
    ExitedIsPrunedOrStalled
CHECK_DEADLOCK FALSE
