----------------------------- MODULE SubmitSend -----------------------------
(***************************************************************************)
(* SEND, from the pause of the session's Run loop to the answer: the text  *)
(* is typed with INPUT, Enter is pressed with RAW_INPUT, and ConfirmSubmit *)
(* decides from screen hashes whether the terminal accepted it.            *)
(*                                                                         *)
(* Several SENDs, and the goroutines of send and callback hooks, share one *)
(* terminal.  Its watcher has a Run loop, which a SEND pauses and a hook   *)
(* keeps busy; overlapping refreshes may start a second one beside it.  A  *)
(* request can fail before or after the terminal has queued it, and        *)
(* SendRecv repeats it once.  The terminal works off what it queued        *)
(* whenever it likes; the agent in it may redraw at any time, and may      *)
(* swallow an Enter.                                                       *)
(*                                                                         *)
(* A screen stands for its hash.  Time is not modelled: a sampling loop    *)
(* that runs out of time may do so at any point, because one TAIL may take *)
(* the whole window.                                                       *)
(***************************************************************************)
EXTENDS Naturals, Sequences, FiniteSets

CONSTANTS
    Sender,     \* SEND handlers and hook goroutines; each names its message too
    Frame,      \* bound: what the agent may draw besides prompt and turns
    MaxFaults,  \* bound: requests that go wrong, Enters that are swallowed and
                \* Run loops that join the first, together
    Blank       \* the sample of a TAIL that failed or was empty

ASSUME SendAssumption == MaxFaults \in Nat /\ IsFiniteSet(Sender)

VARIABLES
    at,         \* at[s]: where handleSend of s stands
    mode,       \* mode[s]: "paused", "unpaused", "direct" (a client of its own), or
                \* "hook" (Run types it)
    again,      \* senders repeating a request in SendRecv
    base,       \* base[s]: the screen before typing
    pre,        \* pre[s]: the screen ConfirmSubmit compares with
    repeats,    \* repeats[s]: samples equal to pre[s] so far
    result,     \* result[s]: what SEND answers
    lane,       \* input the terminal queued and has not worked off
    echo,       \* does the screen show what is typed?  (not in an alt screen)
    prompt,     \* the texts typed and not submitted
    submitted,  \* the prompts the agent was given
    frame,      \* what the agent draws
    pollers,    \* Run loops, and revivals in a SEND or SHOW, that have polled the session
    announced,  \* turns whose completion a poll has announced
    callback,   \* callback[s]: "none", or registered "in time" or "late"
    quiet,      \* history: pre[s] shows the text of s, and only an Enter can
                \* have changed the screen since
    faults      \* history: requests and Enters that went wrong

sends    == <<at, again, result>>
samples  == <<base, pre, repeats>>
terminal == <<lane, echo, prompt, submitted, frame>>
vars == <<sends, samples, mode, terminal, pollers, announced, callback, quiet, faults>>

Screen == [text |-> IF echo THEN prompt ELSE <<>>, turns |-> Len(submitted), frame |-> frame]

Texts(q) == {q[i] : i \in DOMAIN q}

\* The turns that contain the text of s.
Turns(s) == {i \in DOMAIN submitted : s \in Texts(submitted[i])}

Goto(s, l) == at' = [at EXCEPT ![s] = l]

Trouble == faults + pollers <= MaxFaults

Fault == Trouble /\ faults' = faults + 1

-----------------------------------------------------------------------------
(* Before anything is typed. *)

\* Each has a Run loop to itself: Run waits for its resumeCh, or is busy with it.
Occupying == {s \in Sender : mode[s] \in {"paused", "hook"} /\ at[s] # "done"}

\* A Run loop that is neither paused nor busy with a hook.
LoopFree == Cardinality(Occupying) < pollers

\* Mutant: a buffered pauseCh takes the request of a loop that is paused.
MayPauseAlways == TRUE

\* pauseCh is unbuffered: a pause is taken only by a Run loop that is free.
MayPause == LoopFree

\* Pause a Run loop of the session; or find it busy for 2 s and go on unpaused; or
\* find no watcher, or a dead one that could not be revived.  An empty message
\* is an Enter and nothing else.
PausePolling(s) ==
    /\ at[s] = "new"
    /\ \/ MayPause /\ mode' = [mode EXCEPT ![s] = "paused"]
       \/ \E m \in {"unpaused", "direct"} : mode' = [mode EXCEPT ![s] = m]
    /\ \E l \in {"base", "only enter"} : Goto(s, l)
    /\ UNCHANGED <<again, result, samples, terminal, pollers, announced, callback, quiet, faults>>

\* A free Run loop takes the request that a hook has queued.  Watcher.Send compares
\* no screens, and registers nothing.
ServeHook(s) ==
    /\ at[s] = "new"
    /\ LoopFree
    /\ mode' = [mode EXCEPT ![s] = "hook"]
    /\ Goto(s, "type")
    /\ UNCHANGED <<again, result, samples, terminal, pollers, announced, callback, quiet, faults>>

\* TAIL gets the screen as it is, or nothing.
Baseline(s) ==
    /\ at[s] = "base"
    /\ \E b \in {Screen, Blank} : base' = [base EXCEPT ![s] = b]
    /\ Goto(s, "type")
    /\ UNCHANGED <<again, result, pre, repeats, mode, terminal, pollers, announced, callback,
                   quiet, faults>>

-----------------------------------------------------------------------------
(* SendRecv: at most two attempts.  Attempts of the watcher's own client   *)
(* hold its mutex from the first to the last.                              *)

ClientFree(s) ==
    mode[s] = "direct" \/ \A o \in again \ {s} : mode[o] = "direct"

\* What s has to send at each of its requests, and where the reply leads it.
Input(s) == [key |-> IF at[s] = "type" THEN "text" ELSE "enter", from |-> s]

Replied(s) ==
    CASE at[s] = "type" -> IF mode[s] = "hook" THEN "enter" ELSE "echo"
      [] at[s] = "only enter" -> "answer"
      [] at[s] = "enter" -> IF mode[s] = "hook" THEN "answer" ELSE "confirm"
      [] at[s] = "second" -> "hook"

\* SEND fails; the second Enter of a slash command fails silently.
Failed(s) ==
    IF at[s] = "second"
    THEN Goto(s, "hook") /\ UNCHANGED result
    ELSE Goto(s, "answer") /\ result' = [result EXCEPT ![s] = "error"]

Requests(s) == at[s] \in {"type", "enter", "only enter", "second"} /\ ClientFree(s)

\* Queued by the terminal, and the reply came.
Deliver(s) ==
    /\ Requests(s)
    /\ lane' = Append(lane, Input(s))
    /\ again' = again \ {s}
    /\ Goto(s, Replied(s))
    /\ result' = IF Replied(s) = "answer" THEN [result EXCEPT ![s] = "enter"] ELSE result
    /\ UNCHANGED <<samples, mode, echo, prompt, submitted, frame, pollers, announced, callback,
                   quiet, faults>>

\* Nobody answered: repeat the request, or fail if this was the repetition.
Repeat(s) ==
    IF s \in again
    THEN again' = again \ {s} /\ Failed(s)
    ELSE again' = again \cup {s} /\ UNCHANGED <<at, result>>

\* Queued by the terminal, and the reply was lost.
ReplyLost(s) ==
    /\ Requests(s)
    /\ lane' = Append(lane, Input(s))
    /\ Repeat(s)
    /\ Fault
    /\ UNCHANGED <<samples, mode, echo, prompt, submitted, frame, pollers, announced, callback,
                   quiet>>

\* The write failed; or, for good, the dial did or the terminal refused; or it
\* knows no RAW_INPUT, and SendRaw sends the Enter anew, with INPUT.
NotDelivered(s) ==
    /\ Requests(s)
    /\ \/ Repeat(s)
       \/ again' = again \ {s} /\ Failed(s)
       \/ at[s] # "type" /\ again' = again \ {s} /\ UNCHANGED <<at, result>>
    /\ Fault
    /\ UNCHANGED <<samples, mode, terminal, pollers, announced, callback, quiet>>

SendRecv(s) == Deliver(s) \/ ReplyLost(s) \/ NotDelivered(s)

-----------------------------------------------------------------------------
(* Has the text landed, and was it submitted?  Samples are forgotten after *)
(* they are last read.                                                     *)

\* Mutant: compare with the screen before typing.
ReferenceBase(s, b) == base[s]

\* What the samples after Enter are compared with.
Reference(s, b) == b

\* Phase 1.5: the screen diverged from the baseline, or 20 samples did not.
Echoed(s) ==
    /\ at[s] = "echo"
    /\ \E b \in {Screen, base[s]} :
        /\ pre' = [pre EXCEPT ![s] = Reference(s, b)]
        /\ quiet' = [quiet EXCEPT ![s] = echo /\ b = Screen /\ s \in Texts(prompt)]
    /\ base' = [base EXCEPT ![s] = Blank]
    /\ Goto(s, "enter")
    /\ UNCHANGED <<again, result, repeats, mode, terminal, pollers, announced, callback, faults>>

\* A slash command needs a second Enter; no other message does.
Decide(s, r) ==
    /\ result' = [result EXCEPT ![s] = r]
    /\ pre' = [pre EXCEPT ![s] = Blank]
    /\ repeats' = [repeats EXCEPT ![s] = 0]
    /\ \E l \in {"second", "hook"} : Goto(s, l)

StuckAfter == 3

\* A TAIL that fails counts for nothing.
ConfirmSubmit(s) ==
    /\ at[s] = "confirm"
    /\ \/ Screen # pre[s] /\ Decide(s, "ok")
       \/ Screen = pre[s] /\ repeats[s] + 1 = StuckAfter /\ Decide(s, "stuck")
       \/ /\ Screen = pre[s] /\ repeats[s] + 1 < StuckAfter
          /\ repeats' = [repeats EXCEPT ![s] = @ + 1]
          /\ UNCHANGED <<at, result, pre>>
       \/ Decide(s, "unconfirmed")
    /\ UNCHANGED <<again, base, mode, terminal, pollers, announced, callback, quiet, faults>>

\* The caller's callback, after a confirmed submission only, and only where
\* the policy wants one.
RegisterCallback(s) ==
    /\ at[s] = "hook"
    /\ \/ /\ result[s] = "ok"
          /\ callback' = [callback EXCEPT
                ![s] = IF \E i \in Turns(s) : i <= announced THEN "late" ELSE "in time"]
       \/ UNCHANGED callback
    /\ Goto(s, "answer")
    /\ UNCHANGED <<again, result, samples, mode, terminal, pollers, announced, quiet, faults>>

\* The deferred close(resumeCh); or the result of a hook's request.
Return(s) ==
    /\ at[s] = "answer"
    /\ Goto(s, "done")
    /\ base' = [base EXCEPT ![s] = Blank]
    /\ pre' = [pre EXCEPT ![s] = Blank]
    /\ quiet' = [quiet EXCEPT ![s] = FALSE]
    /\ UNCHANGED <<again, result, repeats, mode, terminal, pollers, announced, callback, faults>>

-----------------------------------------------------------------------------
(* The terminal, the agent in it, and the session's Run loop. *)

Disturb == quiet' = [s \in Sender |-> FALSE]

\* The terminal types the next text ...
AbsorbText ==
    /\ lane # <<>>
    /\ Head(lane).key = "text"
    /\ lane' = Tail(lane)
    /\ prompt' = Append(prompt, Head(lane).from)
    /\ Disturb
    /\ UNCHANGED <<sends, samples, mode, echo, submitted, frame, pollers, announced, callback,
                   faults>>

\* ... or presses the next Enter, and the agent takes the prompt, if any ...
AbsorbEnter ==
    /\ lane # <<>>
    /\ Head(lane).key = "enter"
    /\ lane' = Tail(lane)
    /\ submitted' = IF prompt = <<>> THEN submitted ELSE Append(submitted, prompt)
    /\ prompt' = <<>>
    /\ UNCHANGED <<sends, samples, mode, echo, frame, pollers, announced, callback, quiet, faults>>

\* ... or something in its way swallows the key.
SwallowEnter ==
    /\ lane # <<>>
    /\ Head(lane).key = "enter"
    /\ lane' = Tail(lane)
    /\ Fault
    /\ UNCHANGED <<sends, samples, mode, echo, prompt, submitted, frame, pollers, announced,
                   callback, quiet>>

\* A spinner turns, an answer is printed.
Redraw ==
    /\ \E f \in Frame \ {frame} : frame' = f
    /\ Disturb
    /\ UNCHANGED <<sends, samples, mode, lane, echo, prompt, submitted, pollers, announced,
                   callback, faults>>

\* Mutant: a paused loop that polls on.
PollsAlways == TRUE

\* Run polls only while it is free.
Polls == LoopFree

\* Two refreshes that find the same session dead both start a Run loop; and a
\* handler that found it dead before it was revived polls in a Revive of its own.
Join ==
    /\ Trouble
    /\ pollers' = pollers + 1
    /\ UNCHANGED <<sends, samples, mode, terminal, announced, callback, quiet, faults>>

\* Its poll finds the agent idle again, and fires the callbacks.
AnnounceIdle ==
    /\ Polls
    /\ announced < Len(submitted)
    /\ announced' = Len(submitted)
    /\ UNCHANGED <<sends, samples, mode, terminal, pollers, callback, quiet, faults>>

-----------------------------------------------------------------------------
Init ==
    /\ at = [s \in Sender |-> "new"]
    /\ mode = [s \in Sender |-> "none"]
    /\ again = {}
    /\ base = [s \in Sender |-> Blank]
    /\ pre = [s \in Sender |-> Blank]
    /\ repeats = [s \in Sender |-> 0]
    /\ result = [s \in Sender |-> "none"]
    /\ lane = <<>> /\ prompt = <<>> /\ submitted = <<>>
    /\ echo \in BOOLEAN
    /\ frame \in Frame
    /\ pollers = 1
    /\ announced = 0
    /\ callback = [s \in Sender |-> "none"]
    /\ quiet = [s \in Sender |-> FALSE]
    /\ faults = 0

Send(s) ==
    \/ PausePolling(s) \/ ServeHook(s) \/ Baseline(s) \/ SendRecv(s) \/ Echoed(s)
    \/ ConfirmSubmit(s) \/ RegisterCallback(s) \/ Return(s)

Next ==
    \/ \E s \in Sender : Send(s)
    \/ AbsorbText \/ AbsorbEnter \/ SwallowEnter \/ Redraw \/ Join \/ AnnounceIdle

Spec == Init /\ [][Next]_vars

-----------------------------------------------------------------------------
Place == {"new", "base", "type", "echo", "enter", "only enter", "confirm", "second",
          "hook", "answer", "done"}

Key == [key : {"text", "enter"}, from : Sender]

Sample == {Blank} \cup [text : Seq(Sender), turns : Nat, frame : Frame]

\* A SEND that has answered, or only Enter left to press, has its result.
SendsOK ==
    /\ at \in [Sender -> Place]
    /\ mode \in [Sender -> {"none", "paused", "unpaused", "direct", "hook"}]
    /\ again \subseteq {s \in Sender : at[s] \in {"type", "enter", "only enter", "second"}}
    /\ repeats \in [Sender -> 0 .. (StuckAfter - 1)]
    /\ result \in [Sender -> {"none", "error", "enter", "ok", "stuck", "unconfirmed"}]
    /\ \A s \in Sender : (at[s] \in {"second", "hook", "answer", "done"}) <=> (result[s] # "none")
    /\ callback \in [Sender -> {"none", "in time", "late"}]
    /\ quiet \in [Sender -> BOOLEAN]

TerminalOK ==
    /\ lane \in Seq(Key)
    /\ echo \in BOOLEAN
    /\ prompt \in Seq(Sender)
    /\ submitted \in Seq(Seq(Sender))
    /\ frame \in Frame
    /\ announced \in 0 .. Len(submitted)

\* No Run loop is paused by two SENDs, or by one and busy for a hook.
LoopEach == Cardinality(Occupying) <= pollers

TypeOK ==
    /\ SendsOK
    /\ base \in [Sender -> Sample] /\ pre \in [Sender -> Sample]
    /\ TerminalOK
    /\ pollers \in Nat \ {0} /\ faults \in Nat /\ faults + pollers <= MaxFaults + 1
    /\ LoopEach

\* "Any divergence from preEnterHash proves Enter was accepted": it does, if
\* preEnterHash was taken of a screen that shows the text, and neither the agent
\* nor another text has changed the screen since.
QuietOkProvesEnter ==
    \A s \in Sender : result[s] = "ok" /\ quiet[s] => Turns(s) # {}

\* The agent is given every message once and by itself, whatever SENDs and hooks
\* overlap, unless a SEND went on unpaused, a request failed, an Enter was swallowed
\* or the session had a second Run loop: two loops are paused by two SENDs at once.
SubmittedWhole ==
    faults = 0 /\ pollers = 1 /\ (\A s \in Sender : mode[s] \in {"none", "paused", "hook"}) =>
        /\ \A i \in DOMAIN submitted : Len(submitted[i]) = 1
        /\ \A i, j \in DOMAIN submitted : submitted[i] = submitted[j] => i = j

\* The callback of a SEND that has the Run loop paused is registered before a
\* poll can announce the turn it is for, whatever other SENDs and hooks do
\* meanwhile, unless a second loop, or a Revive, polled the session beside it.
CallbackInTime ==
    \A s \in Sender : callback[s] = "late" /\ mode[s] = "paused" => pollers > 1
=============================================================================
