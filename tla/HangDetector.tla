----------------------------- MODULE HangDetector ------------------------------
(***************************************************************************)
(* deckpilot hang-detect at one session: a loop that asks the daemon for   *)
(* the session's status and, unless the last action is too recent, runs    *)
(* the chain notify, snapshot, ctrl-c when it is "stalled".  The second    *)
(* criterion, little CPU and no output for a while, never holds as the     *)
(* command wires it.  An action only looks at the terminal: ctrl-c is      *)
(* given no daemon and fails.                                              *)
(***************************************************************************)
EXTENDS Naturals

CONSTANTS
    Cooldown,        \* in units of time that pass between two probes
    StallSeconds     \* --stall-seconds, in the same units

\* Validate wants StallSeconds > 0; NewHangDetector sets Cooldown to its double.
ASSUME HangAssumption == StallSeconds \in Nat \ {0} /\ Cooldown = 2 * StallSeconds

VARIABLES
    hung,      \* IsHungAppWindow
    stalled,   \* the watcher's status is "stalled"
    since,     \* time since lastDispatch, up to Cooldown; Cooldown at first
    action     \* the action of the chain that runs, or "none"

hangVars == <<hung, stalled, since, action>>

HangInit ==
    /\ hung = FALSE /\ stalled = FALSE
    /\ since = Cooldown
    /\ action = "none"

-----------------------------------------------------------------------------

WindowHangs ==
    /\ hung' = ~hung
    /\ UNCHANGED <<stalled, since, action>>

\* The watcher polls: stalled if the window hangs; still, if only the screen
\* does not move.
StatusFollows ==
    /\ stalled' \in {hung, TRUE} /\ stalled' # stalled
    /\ UNCHANGED <<hung, since, action>>

TimePasses ==
    /\ since < Cooldown
    /\ since' = since + 1
    /\ UNCHANGED <<hung, stalled, action>>

-----------------------------------------------------------------------------
(* probeOnce *)

\* Mutant: the cooldown is over only after it.
InCooldownStill == since <= Cooldown

\* lastDispatch is zero at first.
InCooldown == since < Cooldown

\* What the command passes as LastActOf answers the time of the call.
Stall == 0

\* The window hangs for the watcher; or, for some CPU load and some screen, the
\* CPU and stall criterion holds.
Hang == stalled \/ Stall >= StallSeconds

\* A probe that acts.  One whose LIST fails has no status, and finds no hang.
Probe ==
    /\ action = "none"
    /\ Hang
    /\ ~InCooldown
    /\ since' = 0
    /\ action' = "notify"
    /\ UNCHANGED <<hung, stalled>>

\* ChainActions: each in turn, whatever the one before it answered.
NextAction == [notify |-> "snapshot", snapshot |-> "ctrlC", ctrlC |-> "none"]

ActionEnds ==
    /\ action # "none"
    /\ action' = NextAction[action]
    /\ UNCHANGED <<hung, stalled, since>>

-----------------------------------------------------------------------------

HangTypeOK ==
    /\ hung \in BOOLEAN /\ stalled \in BOOLEAN
    /\ since \in 0..Cooldown
    /\ action \in {"none", "notify", "snapshot", "ctrlC"}

=============================================================================
