-------------------------------- MODULE Conduct --------------------------------
(***************************************************************************)
(* deckpilot conduct: a loop that dispatches the unchecked lines of a      *)
(* checklist file, one per tick.  A tick counts the sessions, reads the    *)
(* file, picks the first "- [ ]" line, marks it "[>]" and launches an      *)
(* agent; if the launch fails it writes the file it read before the        *)
(* launch back, with the line marked "[!]", and ends.  The agents tick     *)
(* their lines and users edit the file meanwhile, and nothing locks it.    *)
(* A conductor that ended stays ended unless a user starts it again.       *)
(*                                                                         *)
(* A line is its mark; lines are not added or moved.  A session is known   *)
(* by the line its launch record names, 0 when it has no record: a user's  *)
(* window, or one whose launch gave it up.  Which window a launch takes    *)
(* for its own is the subject of module Launch, not of this one.           *)
(***************************************************************************)
EXTENDS Naturals, FiniteSets, FiniteSetsExt

CONSTANTS
    Conductor,     \* the conduct processes working on one file
    Lines,         \* how many checkboxes it has
    Covers,        \* Covers[i]: the lines whose prompt starts with line i
    MaxWorkers,    \* --max-workers
    MaxRequeues,   \* bound: failed lines users reset, each once
    MaxCrashes,    \* bound: times a conductor is killed or cannot use the file
    MaxOthers,     \* bound: sessions without a record
    MaxLate        \* bound: windows on their way at once

Line == 1..Lines

ASSUME ConductAssumption ==
    /\ Lines \in Nat /\ MaxWorkers \in Nat \ {0} /\ MaxRequeues \in Nat
    /\ MaxCrashes \in Nat /\ MaxOthers \in Nat /\ MaxLate \in Nat
    /\ Covers \in [Line -> SUBSET Line]
    /\ \A i \in Line : i \in Covers[i]

Mark == {" ", ">", "x", "!"}

\* What a session's record names.
Owner == 0..Lines

VARIABLES
    file,      \* file[i]: the mark of line i
    pc,        \* pc[c]: where the tick of conductor c stands
    body,      \* body[c]: the file as its tick read it
    open,      \* open[i]: sessions LIST names whose record is of line i, or,
               \* when i = 0, of no line
    late,      \* windows on their way that the launch stopped waiting for
    launched,  \* history: launched[i]: how often line i was dispatched
    requeued,  \* history: the lines a user has reset
    crashes,   \* how often a conductor was killed
    rivals,    \* history: ticks of two conductors overlapped, which ends the
               \* history of the others
    blind      \* history: since a tick last counted, one went on for want of a
               \* LIST, or a late window or a user's came up

marks   == <<file, requeued>>
windows == <<open, late>>
ticks   == <<pc, body, crashes>>
history == <<launched, rivals, blind>>
vars == <<marks, windows, ticks, history>>

Unread == [i \in Line |-> " "]

Nowhere == [i \in Owner |-> 0]

Never == [i \in Line |-> 0]

Goto(c, l) == pc' = [pc EXCEPT ![c] = l]

\* The tick of c is over, and what it read forgotten: c sleeps ("idle"), or has
\* ended ("ended").
End(c, l) ==
    /\ Goto(c, l)
    /\ body' = [body EXCEPT ![c] = Unread]

Ticking == {c \in Conductor : pc[c] \notin {"idle", "ended"}}

\* The sessions LIST names, each with what its record says.
Sessions == UNION {{i} \X (1..open[i]) : i \in Owner}

\* countActiveSessions
Workers == Cardinality(Sessions)

-----------------------------------------------------------------------------
(* conductTick *)

\* Mutant: the count is of the other sessions.
BelowLimitPlusOne == Workers <= MaxWorkers

BelowLimit == Workers < MaxWorkers

\* Mutants: the last line is not parsed; a failed line is a line to do.
TodosButLast(f) == {i \in 1..Lines - 1 : f[i] = " "}

TodosFailedToo(f) == {i \in Line : f[i] \in {" ", "!"}}

Todos(f) == {i \in Line : f[i] = " "}

\* countActiveSessions and ReadFile: there is nothing to do unless ParseChecklist
\* and PickNextTodo find a line.  The limit does not bind if LIST fails.
Pick(c) ==
    /\ pc[c] = "idle" /\ Todos(file) # {}
    /\ body' = [body EXCEPT ![c] = file]
    /\ Goto(c, "picked")
    /\ IF rivals \/ Ticking # {}
       THEN rivals' = TRUE /\ launched' = Never /\ blind' = FALSE
       ELSE blind' = ~BelowLimit /\ UNCHANGED <<rivals, launched>>
    /\ UNCHANGED <<marks, windows, crashes>>

\* The line the tick of c picked.
Todo(c) == Min(Todos(body[c]))

\* A listed session was launched with a prompt that starts with line i.
AlreadyRunning(i) == \E k \in Covers[i] : open[k] > 0

\* isTaskAlreadyRunning: the tick is over.
Skip(c) ==
    /\ pc[c] = "picked"
    /\ AlreadyRunning(Todo(c))
    /\ End(c, "idle")
    /\ UNCHANGED <<marks, windows, crashes, history>>

\* Mutant: the mark waits for the launch to succeed.
MarkedLater(f, i) == f

\* MarkDispatched
Marked(f, i) == [f EXCEPT ![i] = ">"]

\* It is not running, or LIST fails.  The mark is written before the launch begins.
Dispatch(c) ==
    /\ pc[c] = "picked"
    /\ file' = Marked(body[c], Todo(c))
    /\ launched' = IF rivals THEN launched ELSE [launched EXCEPT ![Todo(c)] = @ + 1]
    /\ Goto(c, "launching")
    /\ UNCHANGED <<requeued, windows, body, crashes, rivals, blind>>

\* LaunchWithError finds its session and types the prompt into it.
LaunchSucceeds(c) ==
    /\ pc[c] = "launching"
    /\ open' = [open EXCEPT ![Todo(c)] = @ + 1]
    /\ End(c, "idle")
    /\ UNCHANGED <<marks, late, crashes, history>>

\* A launch stops: the window it asked for is up and has its record, is on its
\* way, or will never be.
Stops(c) ==
    /\ pc[c] = "launching"
    /\ \/ UNCHANGED windows
       \/ open' = [open EXCEPT ![Todo(c)] = @ + 1] /\ UNCHANGED late
       \/ late < MaxLate /\ late' = late + 1 /\ UNCHANGED open

LaunchFails(c) ==
    /\ Stops(c)
    /\ Goto(c, "failed")
    /\ UNCHANGED <<marks, body, crashes, history>>

\* MarkFailed of the file as read, and conductLoop returns the error: the process
\* ends.  Whether the write succeeds is not looked at.
WriteFailed(c) ==
    /\ pc[c] = "failed"
    /\ file' \in {file, [body[c] EXCEPT ![Todo(c)] = "!"]}
    /\ End(c, "ended")
    /\ UNCHANGED <<requeued, windows, crashes, history>>

\* A conductor is killed; or ends because ReadFile or WriteFile failed.
Crash(c) ==
    /\ crashes < MaxCrashes
    /\ crashes' = crashes + 1
    /\ \/ Stops(c)
       \/ pc[c] \in {"idle", "picked", "failed"} /\ UNCHANGED windows
    /\ End(c, "ended")
    /\ UNCHANGED <<marks, history>>

\* A user starts it again.
Start(c) ==
    /\ pc[c] = "ended"
    /\ Goto(c, "idle")
    /\ UNCHANGED <<marks, windows, body, crashes, history>>

-----------------------------------------------------------------------------
(* Windows, agents and users. *)

\* Nobody writes a record for it any more.
LateWindow ==
    /\ late > 0 /\ open[0] < MaxOthers
    /\ late' = late - 1
    /\ open' = [open EXCEPT ![0] = @ + 1]
    /\ blind' = ~rivals
    /\ UNCHANGED <<marks, ticks, launched, rivals>>

UserOpens ==
    /\ open[0] < MaxOthers
    /\ open' = [open EXCEPT ![0] = @ + 1]
    /\ blind' = ~rivals
    /\ UNCHANGED <<marks, late, ticks, launched, rivals>>

WindowCloses(i) ==
    /\ open[i] > 0
    /\ open' = [open EXCEPT ![i] = @ - 1]
    /\ UNCHANGED <<marks, late, ticks, history>>

\* The agent edits its line, as its prompt asks.
AgentMarks(i) ==
    /\ open[i] > 0
    /\ file[i] = ">"
    /\ \E m \in {"x", "!"} : file' = [file EXCEPT ![i] = m]
    /\ UNCHANGED <<requeued, windows, ticks, history>>

\* A user ticks a line done by hand, or resets one that failed.
UserMarks(i) ==
    /\ \/ /\ file[i] = " "
          /\ file' = [file EXCEPT ![i] = "x"]
          /\ UNCHANGED requeued
       \/ /\ file[i] = "!"
          /\ Cardinality(requeued) < MaxRequeues /\ i \notin requeued
          /\ file' = [file EXCEPT ![i] = " "]
          /\ requeued' = requeued \cup {i}
    /\ UNCHANGED <<windows, ticks, history>>

-----------------------------------------------------------------------------

Init ==
    /\ file = Unread
    /\ pc = [c \in Conductor |-> "idle"]
    /\ body = [c \in Conductor |-> Unread]
    /\ open = Nowhere
    /\ late = 0
    /\ launched = Never
    /\ requeued = {}
    /\ crashes = 0
    /\ rivals = FALSE
    /\ blind = FALSE

Tick(c) ==
    \/ Pick(c) \/ Skip(c) \/ Dispatch(c)
    \/ LaunchSucceeds(c) \/ LaunchFails(c) \/ WriteFailed(c)

Next ==
    \/ \E c \in Conductor : Tick(c) \/ Crash(c) \/ Start(c)
    \/ \E i \in Owner : WindowCloses(i)
    \/ \E i \in Line : AgentMarks(i) \/ UserMarks(i)
    \/ LateWindow
    \/ UserOpens

Spec == Init /\ [][Next]_vars

\* A conductor that runs goes on; nobody has to start it, to close a window or
\* to edit the file.  Nothing makes a LIST fail: a tick that cannot go on while
\* the limit is reached need not happen.
FairSpec ==
    /\ Spec
    /\ \A c \in Conductor : WF_vars(Tick(c) /\ (pc[c] = "idle" => BelowLimit))

-----------------------------------------------------------------------------

TypeOK ==
    /\ file \in [Line -> Mark]
    /\ pc \in [Conductor -> {"idle", "picked", "launching", "failed", "ended"}]
    /\ body \in [Conductor -> [Line -> Mark]]
    /\ open \in [Owner -> Nat]
    /\ late \in Nat
    /\ launched \in [Line -> Nat]
    /\ requeued \subseteq Line
    /\ crashes \in 0..MaxCrashes
    /\ rivals \in BOOLEAN
    /\ blind \in BOOLEAN
    /\ \A c \in Ticking : body[c][Todo(c)] = " "

\* As long as no ticks overlap, a line is dispatched once, and once more if a user
\* resets it, over crashes, failed launches and the stale file they write back.
DispatchedOnce ==
    \A i \in Line : launched[i] <= IF i \in requeued THEN 2 ELSE 1

\* One conductor keeps the sessions within --max-workers, users' windows
\* included, unless since it last counted it went on without a LIST, a user
\* opened a window, or that of a launch it had given up on came up.
WorkersWithinLimit == Workers > MaxWorkers => rivals \/ blind

\* What may keep a running conductor from the next line: every conductor has
\* ended, the limit is reached, or the line is running already.
Held ==
    \/ \A c \in Conductor : pc[c] = "ended"
    \/ ~BelowLimit
    \/ Todos(file) # {} /\ AlreadyRunning(Min(Todos(file)))

\* As long as conductors are not held for ever or again and again, no unchecked
\* line stays unchecked: it is dispatched, or ticked by a user.
TodoTakenUp == \A i \in Line : <>[]~Held => []<>(file[i] # " ")

=============================================================================
