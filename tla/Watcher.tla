------------------------------ MODULE Watcher ------------------------------
(***************************************************************************)
(* One session's Watcher: the status machine that poll, updateContent and  *)
(* Revive run on the fields guarded by w.mu, and the goroutines that run   *)
(* it.  A goroutine is either a Run loop (polling on its ticker, serving   *)
(* SEND and SHOW requests), or a caller of Revive: refreshSessions, which  *)
(* starts a Run loop when Revive returns true, and, when IPCRevival holds, *)
(* handleSend or handleShow, which do not.                                 *)
(*                                                                         *)
(* A critical section of w.mu is one step; poll is several, so goroutines  *)
(* interleave inside it.  updateContent holds w.mu throughout, its         *)
(* notification included, and is one step.                                 *)
(*                                                                         *)
(* The screen is a value of Screen, its SHA-256 the value itself; Spinner  *)
(* is the set of screens LooksActivelyThinking accepts.                    *)
(***************************************************************************)
EXTENDS Naturals

CONSTANTS
    Screen,       \* what Tail can return
    Spinner,      \* the screens that show a progress spinner
    NoScreen,     \* lastHash before the first successful poll
    Reply,        \* how a live session's pipe may answer TAIL
    Goroutine,    \* bound: goroutines inside Run or Revive at once
    IPCRevival,   \* do SEND and SHOW reach a dead session
    MaxQueued,    \* bound: requests in reqCh (16 in the code)
    IdlePolls,    \* 3: unchanged polls before idle
    StallPolls,   \* stalledSpinnerPolls, 20: the same with a spinner on screen
    MaxRetries    \* 3: failed polls before dead

ASSUME WatcherAssumption ==
    /\ Spinner \subseteq Screen
    /\ NoScreen \notin Screen
    /\ Reply \subseteq {"ok", "busy", "no_tabs", "error"}
    /\ IPCRevival \in BOOLEAN
    /\ MaxQueued \in Nat
    /\ IdlePolls \in Nat \ {0}
    /\ StallPolls \in Nat
    /\ IdlePolls <= StallPolls
    /\ MaxRetries \in Nat \ {0}

VARIABLES
    w,        \* [status, last, seen, stable, retries]: status, lastStatus,
              \* lastHash, stableCount and deadRetries
    queued,   \* the number of requests in reqCh
    tracked,  \* the session is in d.watchers
    pc,       \* pc[g]: where goroutine g stands, "free" when there is none
    why,      \* why[g]: what made g poll
    was,      \* was[g]: prevStatus, as poll's hang check read it
    shot      \* shot[g]: the content Tail returned to g

\* The terminal.
VARIABLES
    screen,   \* the text on screen
    hung,     \* IsHungAppWindow of its window
    pipe,     \* how its pipe answers TAIL now
    alive     \* its process exists

\* History, read by the properties only.
VARIABLES
    note,     \* the last StatusChanged notification: [from, to]
    owed,     \* the screen changed since a completion or stall was announced
    streak,   \* error replies since the last good one, saturating
    crossed,  \* goroutines crossed in a hung notification (below)
    adopted   \* a SEND or SHOW revived the session

watcher  == <<w, queued, tracked>>
goVars   == <<pc, why, was, shot>>
terminal == <<screen, hung, pipe, alive>>
history  == <<note, owed, streak, crossed, adopted>>
vars == <<watcher, goVars, terminal, history>>

Statuses == {"active", "idle", "stalled", "busy", "dead"}
Reasons  == {"tick", "send", "show", "refresh", "ipc"}

\* The counters are compared with their thresholds and nothing else.
BumpStable(n) == IF n < StallPolls THEN n + 1 ELSE n
BumpRetries(n) == IF n < MaxRetries THEN n + 1 ELSE n

Goto(g, l) == pc' = [pc EXCEPT ![g] = l]

-----------------------------------------------------------------------------
(* Notifications.  The callback of addSession fires the hooks on these two *)
(* transitions.                                                            *)

HooksFire(from, to) == (from = "active" /\ to = "idle") \/ to = "stalled"

\* updateContent notifies on every poll; the callback acts when status moved.
Announce(from, to) == note' = IF from # to THEN [from |-> from, to |-> to] ELSE note

\* A hung notification is not one critical section: lastStatus is read, the
\* callback called and lastStatus written with w.mu released in between.  The
\* history variable crossed is TRUE from the step of another goroutine that
\* fell into it until a notification nobody crosses leaves nothing owed.
Others(g) == \E h \in Goroutine \ {g} : pc[h] \in {"announce", "settle"}

-----------------------------------------------------------------------------
(* poll *)

\* First, the OS-level hang check: it overrides any status, dead included.
CheckHung(g) ==
    /\ pc[g] = "probe"
    /\ IF hung
       THEN /\ w' = [w EXCEPT !.status = "stalled"]
            /\ IF w.last = "stalled"
               THEN Goto(g, "tail") /\ UNCHANGED <<was, crossed>>
               ELSE /\ Goto(g, "announce")
                    /\ was' = [was EXCEPT ![g] = w.last]
                    /\ crossed' = (crossed \/ Others(g))
       ELSE Goto(g, "tail") /\ UNCHANGED <<w, was, crossed>>
    /\ UNCHANGED <<queued, tracked, why, shot, terminal, note, owed, streak, adopted>>

\* The notification goes out with w.mu released, and lastStatus follows it.
AnnounceHung(g) ==
    /\ pc[g] = "announce"
    /\ Announce(was[g], "stalled")
    /\ owed' = FALSE
    /\ crossed' = Others(g)
    /\ Goto(g, "settle")
    /\ UNCHANGED <<watcher, why, was, shot, terminal, streak, adopted>>

SettleHung(g) ==
    /\ pc[g] = "settle"
    /\ w' = [w EXCEPT !.last = "stalled"]
    /\ was' = [was EXCEPT ![g] = "unknown"]
    /\ Goto(g, "tail")
    /\ UNCHANGED <<queued, tracked, why, shot, terminal, history>>

\* The pipe of a process that is gone answers nothing.
Answers(r) == IF alive THEN pipe = r ELSE r = "error"

TailOK(g) ==
    /\ pc[g] = "tail"
    /\ Answers("ok")
    /\ shot' = [shot EXCEPT ![g] = screen]
    /\ w' = [w EXCEPT !.retries = 0]
    /\ streak' = 0
    /\ Goto(g, "update")
    /\ UNCHANGED <<queued, tracked, why, was, terminal, note, owed, crossed, adopted>>

\* A stalled session stays stalled whatever its pipe says.
Condemned == IF w.status = "stalled" THEN w ELSE [w EXCEPT !.status = "dead"]

\* Mutants: no retry budget; errors are not counted; the reply is stored as
\* the status.
FailedHasty(r) == IF r = "busy" THEN w ELSE Condemned
FailedPatient(r) == IF r = "no_tabs" THEN Condemned ELSE w
FailedRaw(r) == [w EXCEPT !.status = r]

\* What classifyTailError and poll make of a failed Tail.
Failed(r) ==
    CASE r = "no_tabs" -> Condemned
      [] r = "busy" -> IF w.status \in {"stalled", "dead"} THEN w
                       ELSE [w EXCEPT !.status = "busy"]
      [] r = "error" -> [w EXCEPT !.retries = BumpRetries(@)]

TailFails(g) ==
    /\ pc[g] = "tail"
    /\ \E r \in {"busy", "no_tabs", "error"} :
        /\ Answers(r)
        /\ w' = Failed(r)
        /\ streak' = IF r = "error" THEN BumpRetries(streak) ELSE streak
        /\ Goto(g, IF r = "error" /\ w'.retries >= MaxRetries THEN "condemn" ELSE "done")
    /\ UNCHANGED <<queued, tracked, why, was, shot, terminal, note, owed, crossed, adopted>>

\* The count is taken in one critical section and acted on in the next.
Condemn(g) ==
    /\ pc[g] = "condemn"
    /\ w' = Condemned
    /\ Goto(g, "done")
    /\ UNCHANGED <<queued, tracked, why, was, shot, terminal, history>>

-----------------------------------------------------------------------------
(* updateContent *)

\* Mutant: the spinner is not looked at.
StatusBlind(s, stable) ==
    CASE s # w.seen -> "active"
      [] s = w.seen /\ w.status = "stalled" -> IF hung THEN "stalled" ELSE "idle"
      [] OTHER -> IF stable >= IdlePolls THEN "idle" ELSE w.status

\* The status after Tail returned s, stable being the new stableCount.
StatusOn(s, stable) ==
    CASE s # w.seen -> "active"
      [] s = w.seen /\ w.status = "stalled" ->
           IF ~hung /\ s \notin Spinner THEN "idle" ELSE "stalled"
      [] s = w.seen /\ w.status # "stalled" /\ s \in Spinner ->
           IF stable >= StallPolls THEN "stalled" ELSE w.status
      [] OTHER ->
           IF stable >= IdlePolls THEN "idle" ELSE w.status

\* Mutant: notifications that leave lastStatus behind.
LastForgotten(to) == w.last

\* lastStatus after a notification of the status to.
LastOn(to) == to

Update(g) ==
    /\ pc[g] = "update"
    /\ LET s == shot[g]
           stable == CASE s # w.seen -> 0
                       [] s = w.seen /\ w.status = "stalled" -> w.stable
                       [] OTHER -> BumpStable(w.stable)
           to == StatusOn(s, stable)
       IN  /\ w' = [w EXCEPT !.status = to, !.last = LastOn(to), !.seen = s,
                             !.stable = stable]
           /\ Announce(w.last, to)
           /\ owed' = IF w.last # to /\ HooksFire(w.last, to) THEN FALSE
                      ELSE owed \/ s # w.seen
           /\ crossed' = IF w.last # to /\ ~Others(g) THEN crossed /\ owed'
                         ELSE crossed \/ Others(g)
    /\ shot' = [shot EXCEPT ![g] = NoScreen]
    /\ Goto(g, "done")
    /\ UNCHANGED <<queued, tracked, why, was, terminal, streak, adopted>>

-----------------------------------------------------------------------------
(* Run *)

Tick(g) ==
    /\ pc[g] = "loop"
    /\ why' = [why EXCEPT ![g] = "tick"]
    /\ Goto(g, "probe")
    /\ UNCHANGED <<watcher, was, shot, terminal, history>>

\* Send, FreshTail and FreshHistory enqueue unless the session is dead.
Enqueue ==
    /\ w.status # "dead"
    /\ queued < MaxQueued
    /\ queued' = queued + 1
    /\ UNCHANGED <<w, tracked, goVars, terminal, history>>

\* handleRequest, dead or not by now: a delivered SEND is followed by a poll;
\* a SHOW reads the buffer without poll's hang check and error handling; what
\* fails, and SHOW history, leave the watcher alone.
Serve(g) ==
    /\ pc[g] = "loop"
    /\ queued > 0
    /\ queued' = queued - 1
    /\ \/ /\ why' = [why EXCEPT ![g] = "send"]
          /\ Goto(g, "probe")
          /\ UNCHANGED shot
       \/ /\ Answers("ok")
          /\ why' = [why EXCEPT ![g] = "show"]
          /\ shot' = [shot EXCEPT ![g] = screen]
          /\ Goto(g, "update")
       \/ UNCHANGED <<pc, why, shot>>
    /\ UNCHANGED <<w, tracked, was, terminal, history>>

\* Mutant: a revived watcher is left without a Run loop.
AfterPollNoRun(reason) ==
    IF \/ reason \in {"send", "show"}
       \/ reason = "tick" /\ w.status # "dead"
    THEN "loop" ELSE "free"

\* Where a goroutine goes when its poll is done.  A ticker poll that finds the
\* session dead ends Run; a successful Revive makes refreshSessions start Run.
AfterPoll(reason) ==
    IF \/ reason \in {"send", "show"}
       \/ reason \in {"tick", "refresh"} /\ w.status # "dead"
    THEN "loop" ELSE "free"

PollDone(g) ==
    /\ pc[g] = "done"
    /\ Goto(g, AfterPoll(why[g]))
    /\ why' = [why EXCEPT ![g] = "tick"]
    /\ UNCHANGED <<watcher, was, shot, terminal, history>>

-----------------------------------------------------------------------------
(* refreshSessions and Revive *)

\* d.mu held: a dead watcher is pruned when its process is gone ...
Prune ==
    /\ tracked
    /\ w.status = "dead"
    /\ ~alive
    /\ tracked' = FALSE
    /\ UNCHANGED <<w, queued, goVars, terminal, history>>

\* ... and collected for revival otherwise.
Collect(g) ==
    /\ pc[g] = "free"
    /\ tracked
    /\ w.status = "dead"
    /\ alive
    /\ why' = [why EXCEPT ![g] = "refresh"]
    /\ Goto(g, "revive")
    /\ UNCHANGED <<watcher, was, shot, terminal, history>>

\* handleSend and handleShow find a dead watcher and revive it themselves.
CollectIPC(g) ==
    /\ IPCRevival
    /\ pc[g] = "free"
    /\ tracked
    /\ w.status = "dead"
    /\ why' = [why EXCEPT ![g] = "ipc"]
    /\ Goto(g, "revive")
    /\ UNCHANGED <<watcher, was, shot, terminal, history>>

\* Revive returns true at once for a watcher that is no longer dead, and its
\* caller goes on as if it had revived it.
ReviveCheck(g) ==
    /\ pc[g] = "revive"
    /\ Goto(g, CASE ~tracked /\ why[g] = "refresh" -> "free"
                 [] w.status = "dead" -> "ping"
                 [] OTHER -> AfterPoll(why[g]))
    /\ why' = [why EXCEPT ![g] = IF pc'[g] = "ping" THEN @ ELSE "tick"]
    /\ UNCHANGED <<watcher, was, shot, terminal, history>>

\* The pipe server answers PING whatever it would say to TAIL.
Ping(g) ==
    /\ pc[g] = "ping"
    /\ Goto(g, IF alive /\ pipe # "error" THEN "reset" ELSE "free")
    /\ why' = [why EXCEPT ![g] = IF pc'[g] = "reset" THEN @ ELSE "tick"]
    /\ UNCHANGED <<watcher, was, shot, terminal, history>>

\* deadRetries is not reset here.
ReviveReset(g) ==
    /\ pc[g] = "reset"
    /\ w' = [w EXCEPT !.status = "active", !.stable = 0]
    /\ adopted' = (adopted \/ why[g] = "ipc")
    /\ Goto(g, "probe")
    /\ UNCHANGED <<queued, tracked, why, was, shot, terminal, note, owed, streak, crossed>>

-----------------------------------------------------------------------------
(* The terminal, on its own. *)

Repaint ==
    /\ alive
    /\ \E s \in Screen \ {screen} : screen' = s
    /\ UNCHANGED <<watcher, goVars, hung, pipe, alive, history>>

HangOrRecover ==
    /\ alive
    /\ hung' = ~hung
    /\ UNCHANGED <<watcher, goVars, screen, pipe, alive, history>>

PipeTurns ==
    /\ alive
    /\ \E r \in Reply \ {pipe} : pipe' = r
    /\ UNCHANGED <<watcher, goVars, screen, hung, alive, history>>

ProcessExits ==
    /\ alive
    /\ alive' = FALSE
    /\ hung' = FALSE
    /\ UNCHANGED <<watcher, goVars, screen, pipe, history>>

-----------------------------------------------------------------------------
\* addSession: NewWatcher, and one Run loop.
Init ==
    /\ w = [status |-> "active", last |-> "unknown", seen |-> NoScreen,
            stable |-> 0, retries |-> 0]
    /\ queued = 0
    /\ tracked = TRUE
    /\ \E first \in Goroutine :
        pc = [g \in Goroutine |-> IF g = first THEN "loop" ELSE "free"]
    /\ why = [g \in Goroutine |-> "tick"]
    /\ was = [g \in Goroutine |-> "unknown"]
    /\ shot = [g \in Goroutine |-> NoScreen]
    /\ screen \in Screen
    /\ hung = FALSE
    /\ pipe \in Reply
    /\ alive = TRUE
    /\ note = [from |-> "none", to |-> "unknown"]
    /\ owed = FALSE
    /\ streak = 0
    /\ crossed = FALSE
    /\ adopted = FALSE

Poll(g) ==
    \/ CheckHung(g) \/ AnnounceHung(g) \/ SettleHung(g)
    \/ TailOK(g) \/ TailFails(g) \/ Condemn(g) \/ Update(g) \/ PollDone(g)

Run(g) == Tick(g) \/ Serve(g)

Revive(g) ==
    \/ Collect(g) \/ CollectIPC(g)
    \/ ReviveCheck(g) \/ Ping(g) \/ ReviveReset(g)

Terminal == Repaint \/ HangOrRecover \/ PipeTurns \/ ProcessExits

Next ==
    \/ \E g \in Goroutine : Poll(g) \/ Run(g) \/ Revive(g)
    \/ Enqueue
    \/ Prune
    \/ Terminal

Spec == Init /\ [][Next]_vars

\* A goroutine inside poll or Revive keeps going (pipe calls have deadlines).
\* The ticker is strongly fair: requests are served first, but the queue is
\* finite and select takes the ready ticker eventually.  The discovery loop
\* calls refreshSessions every 10 s.
Fairness ==
    /\ \A g \in Goroutine :
        /\ WF_vars(Poll(g))
        /\ SF_vars(Tick(g))
        /\ WF_vars(Collect(g))
        /\ WF_vars(ReviveCheck(g) \/ Ping(g) \/ ReviveReset(g))
    /\ WF_vars(Prune)

FairSpec == Spec /\ Fairness

-----------------------------------------------------------------------------
\* Every variable keeps its type.
TypeOK ==
    /\ w \in [status : Statuses, last : Statuses \cup {"unknown"},
              seen : Screen \cup {NoScreen}, stable : 0..StallPolls,
              retries : 0..MaxRetries]
    /\ queued \in 0..MaxQueued
    /\ tracked \in BOOLEAN
    /\ pc \in [Goroutine -> {"free", "loop", "probe", "announce", "settle", "tail",
                            "condemn", "update", "done", "revive", "ping", "reset"}]
    /\ why \in [Goroutine -> Reasons]
    /\ was \in [Goroutine -> Statuses \cup {"unknown"}]
    /\ shot \in [Goroutine -> Screen \cup {NoScreen}]
    /\ \A g \in Goroutine : pc[g] = "update" => shot[g] \in Screen
    /\ screen \in Screen
    /\ hung \in BOOLEAN
    /\ pipe \in Reply
    /\ alive \in BOOLEAN
    /\ note.to \in Statuses \cup {"unknown"}
    /\ owed \in BOOLEAN
    /\ streak \in 0..MaxRetries
    /\ crossed \in BOOLEAN
    /\ adopted \in BOOLEAN

\* A worker whose progress spinner is on screen is never reported idle: a
\* silent stop mid-task must not look like "done" (watcher.go, updateContent).
IdleMeansPrompt == w.status = "idle" => w.seen \notin Spinner

\* A goroutine that will poll again, or will leave only a dead session behind.
Carries(g) ==
    /\ pc[g] \in {"loop", "probe", "announce", "settle", "tail", "condemn", "update", "done"}
    /\ why[g] # "ipc"

\* A session that is not dead has a goroutine that polls it: dying, reviving
\* and the end of Run never leave it live and unattended, unless a SEND or SHOW
\* revived it.
LiveSessionHasRunner ==
    tracked /\ w.status # "dead" /\ ~adopted => \E g \in Goroutine : Carries(g)

\* Status notifications tell one connected story: each starts from the status
\* the one before it ended in, unless two goroutines crossed in a hung
\* notification.  The hooks rely on it to see active -> idle.
NotificationsChain ==
    [][note' # note => note'.from = note.to \/ crossed \/ crossed']_vars

\* A revival of a session that was dead when Revive looked writes active.
Resurrected == \E g \in Goroutine : pc[g] = "reset" /\ pc'[g] = "probe"

\* A stall clears on real progress: new text on screen, or a window that
\* answers and no spinner left (watcher.go, "Recover only on real progress").
\* The exception is a Revive that had found the session dead before it stalled.
StallIsSticky ==
    [][w.status = "stalled" /\ w'.status # "stalled" =>
          w'.seen # w.seen \/ (~hung /\ w'.seen \notin Spinner) \/ Resurrected]_vars

\* A session is declared dead on NO_TABS, or by a goroutine that counted
\* MaxRetries transport errors with no good answer between them, whatever
\* another goroutine hears before that one acts; BUSY never counts.
DeathNeedsEvidence ==
    [][/\ w.status # "dead" /\ w'.status = "dead" =>
             (alive /\ pipe = "no_tabs") \/ \E g \in Goroutine : pc[g] = "condemn"
       /\ \A g \in Goroutine :
             pc[g] # "condemn" /\ pc'[g] = "condemn" => streak' >= MaxRetries]_vars

\* The end of work is announced, with two exceptions: a session that went idle
\* after its screen changed has fired the completion (or stall) hooks since,
\* unless the status last notified was busy or dead, or goroutines crossed.
LostOnlyBehindOutage ==
    w.status = "idle" /\ owed => note.from \in {"busy", "dead"} \/ crossed

Healthy == alive /\ ~hung /\ pipe = "ok"

\* Nothing polls the session, now or at any later tick.  LiveSessionHasRunner
\* says of a session that is not dead when this can be: after a SEND or SHOW
\* revived it.
Unattended == ~\E g \in Goroutine : Carries(g)

\* A session whose screen has come to rest at a prompt ends up idle, whatever
\* happened before (hangs, transport errors, deaths, revivals by a refresh),
\* unless a SEND or SHOW revived it and left it without a Run loop: then its
\* status stays what it is, which is not what the screen shows.
QuietBecomesIdle ==
    \A s \in Screen \ Spinner :
        <>[](Healthy /\ screen = s) => <>[](w.status = "idle") \/ <>[](adopted /\ Unattended)

\* A session whose screen froze with the spinner on it ends up stalled, with
\* the same exception.
FrozenSpinnerStalls ==
    \A s \in Spinner :
        <>[](Healthy /\ screen = s) => <>[](w.status = "stalled") \/ <>[](adopted /\ Unattended)

\* A session whose process exited is pruned, unless it is stalled, or a SEND or
\* SHOW revived it: without a Run loop it is never found dead, and is listed
\* for as long as the daemon runs.
ExitedIsPrunedOrStalled ==
    ~alive ~> \/ ~tracked
              \/ w.status = "stalled"
              \/ adopted /\ Unattended

-----------------------------------------------------------------------------
(* What the README says, and the code does not do. *)

\* "Print to stdout when the session goes idle." (README.md:259): a session that
\* went idle after its screen changed has fired its hooks since the change.
CompletionAnnounced == w.status = "idle" => ~owed

\* "1 goroutine per session. Serializes all pipe I/O" (README): a session that
\* is listed and not dead has a goroutine that polls it.
OneGoroutinePerSession ==
    tracked /\ w.status # "dead" => \E g \in Goroutine : Carries(g)
=============================================================================
