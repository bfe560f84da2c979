SPECIFICATION Spec
CONSTANTS
    prompt = prompt
    output = output
    spinner = spinner
    NoScreen = NoScreen
    Screen = {prompt}
    Spinner = {}
    Reply = {"ok", "busy", "no_tabs", "error"}
    Goroutine = {g1, g2}
    IPCRevival = TRUE
    MaxQueued = 1
    IdlePolls = 1
    StallPolls = 2
    MaxRetries = 2
INVARIANT OneGoroutinePerSession
CHECK_DEADLOCK FALSE
