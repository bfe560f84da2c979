SPECIFICATION Spec
CONSTANTS
    prompt = prompt
    output = output
    spinner = spinner
    NoScreen = NoScreen
    Screen = {prompt, output}
    Spinner = {}
    Reply = {"ok", "busy", "no_tabs", "error"}
    Goroutine = {g1}
    IPCRevival = FALSE
    MaxQueued = 1
    IdlePolls = 3
    StallPolls = 4
    MaxRetries = 3
INVARIANT CompletionAnnounced
CHECK_DEADLOCK FALSE
