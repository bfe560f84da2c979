------------------------------- MODULE Singleton -------------------------------
(***************************************************************************)
(* At most one daemon: the processes EnsureRunning starts (Daemon.Run), of *)
(* which one serves, and what ends them.                                   *)
(*                                                                         *)
(* The named mutex exists while any process has a handle to it open; the   *)
(* pipe is bound by one process at a time.  A process that ends gives both *)
(* up, in either order.  A ghost is a daemon of an older build that has    *)
(* bound the pipe and knows of no mutex.                                   *)
(***************************************************************************)

CONSTANTS
    Process,     \* bound: daemon processes, each started once
    Ghost,       \* the one of an older build
    None         \* no process

ASSUME SingletonAssumption == None \notin Process /\ Ghost \in Process

VARIABLES
    pc,         \* pc[p]: where Run stands in process p
    handle,     \* the processes with a handle to the mutex
    pipe,       \* the process that has bound the pipe, or None
    told,       \* the daemons with a SHUTDOWN to handle
    hung,       \* the daemons that answer nothing
    disturbed,  \* history: a start told a daemon that had the mutex to shut down
    owed        \* history: a process started with nothing in its way, and since then
                \* none has ended that could be the daemon

vars == <<pc, handle, pipe, told, hung, disturbed, owed>>

Starting == {"mutex", "refused", "dial", "wait", "listen"}

Init ==
    /\ pipe \in {Ghost, None}
    /\ pc = [p \in Process |-> IF p = pipe THEN "serve"
                               ELSE IF p = Ghost THEN "gone" ELSE "off"]
    /\ handle = {} /\ told = {} /\ hung = {}
    /\ disturbed = FALSE /\ owed = FALSE

Goto(p, l) == pc' = [pc EXCEPT ![p] = l]

\* A return of Run, os.Exit or a crash.
Exit(p) ==
    /\ Goto(p, "exit")
    /\ told' = told \ {p} /\ hung' = hung \ {p}

\* SHUTDOWN, to whoever has bound the pipe.
Shutdown == told' = told \cup {p \in Process : p = pipe /\ pc[p] = "serve"}

-----------------------------------------------------------------------------

\* EnsureRunning, whose PING no daemon answered, or none in time; or deckpilot
\* daemon by hand.
Start(p) ==
    /\ pc[p] = "off"
    /\ Goto(p, "mutex")
    /\ owed' = (owed \/ (handle = {} /\ pipe = None))
    /\ UNCHANGED <<handle, pipe, told, hung, disturbed>>

\* Mutant: a handle to the mutex is taken for the mutex.
NeverExists == FALSE

\* ERROR_ALREADY_EXISTS
MutexExists == handle # {}

\* SINGLETON MUTEX FIRST: the handle is open either way.
AcquireMutex(p) ==
    /\ pc[p] = "mutex"
    /\ Goto(p, IF MutexExists THEN "refused" ELSE "dial")
    /\ handle' = handle \cup {p}
    /\ UNCHANGED <<pipe, told, hung, disturbed, owed>>

\* Another instance is running.
Refused(p) ==
    /\ pc[p] = "refused"
    /\ handle' = handle \ {p}
    /\ Goto(p, "gone")
    /\ UNCHANGED <<pipe, told, hung, disturbed, owed>>

\* GHOST CLEANUP
Dial(p) ==
    /\ pc[p] = "dial"
    /\ Goto(p, IF pipe = None THEN "listen" ELSE "wait")
    /\ Shutdown
    /\ disturbed' = (disturbed \/ \E q \in handle : q = pipe /\ pc[q] = "serve")
    /\ UNCHANGED <<handle, pipe, hung, owed>>

\* The pipe is released, or three seconds are over.
Waited(p) ==
    /\ pc[p] = "wait"
    /\ Goto(p, "listen")
    /\ UNCHANGED <<handle, pipe, told, hung, disturbed, owed>>

Listen(p) ==
    /\ pc[p] = "listen" /\ pipe = None
    /\ pipe' = p
    /\ Goto(p, "serve")
    /\ UNCHANGED <<handle, told, hung, disturbed, owed>>

\* The pipe is bound: ListenPipe fails.
ListenFails(p) ==
    /\ pc[p] = "listen" /\ pipe # None
    /\ Exit(p)
    /\ owed' = FALSE
    /\ UNCHANGED <<handle, pipe, disturbed>>

-----------------------------------------------------------------------------

\* deckpilot shutdown.
UserShutdown ==
    /\ pipe # None
    /\ Shutdown
    /\ UNCHANGED <<pc, handle, pipe, hung, disturbed, owed>>

\* 100 ms after handleShutdown.
ShutsDown(p) ==
    /\ p \in told \ hung
    /\ Exit(p)
    /\ owed' = FALSE
    /\ UNCHANGED <<handle, pipe, disturbed>>

Hangs(p) ==
    /\ pc[p] = "serve" /\ p \notin hung
    /\ hung' = hung \cup {p}
    /\ UNCHANGED <<pc, handle, pipe, told, disturbed, owed>>

\* selfWatchdog, or a crash anywhere.  Who was refused has a peer.
Ends(p) ==
    /\ pc[p] \in Starting \cup {"serve"}
    /\ Exit(p)
    /\ owed' = (owed /\ pc[p] = "refused")
    /\ UNCHANGED <<handle, pipe, disturbed>>

\* The system closes what the process had open.
Closes(p) ==
    /\ pc[p] = "exit"
    /\ \/ p \in handle /\ handle' = handle \ {p} /\ UNCHANGED <<pipe, pc>>
       \/ p = pipe /\ pipe' = None /\ UNCHANGED <<handle, pc>>
       \/ p \notin handle \cup {pipe} /\ Goto(p, "gone") /\ UNCHANGED <<handle, pipe>>
    /\ UNCHANGED <<told, hung, disturbed, owed>>

Daemon(p) ==
    \/ Start(p) \/ AcquireMutex(p) \/ Refused(p)
    \/ Dial(p) \/ Waited(p) \/ Listen(p) \/ ListenFails(p)
    \/ ShutsDown(p) \/ Hangs(p) \/ Ends(p) \/ Closes(p)

Next == UserShutdown \/ \E p \in Process : Daemon(p)

Spec == Init /\ [][Next]_vars

-----------------------------------------------------------------------------

TypeOK ==
    /\ pc \in [Process -> Starting \cup {"off", "serve", "exit", "gone"}]
    /\ handle \subseteq Process
    /\ pipe \in Process \cup {None}
    /\ told \subseteq Process /\ hung \subseteq Process
    /\ disturbed \in BOOLEAN /\ owed \in BOOLEAN

Quiet == \A p \in Process : pc[p] \notin Starting \cup {"exit"}

\* "First instance wins" (Run): however many processes are started at once, none of
\* them shuts down one that has the mutex, one at most serves with it, and
\* when all have come to rest there is a daemon, unless one has ended since or there
\* was a ghost, a daemon that was ending or another that started when they were started.
FirstInstanceWins ==
    /\ ~disturbed
    /\ \A p, q \in handle : pc[p] = "serve" /\ pc[q] = "serve" => p = q
    /\ Quiet /\ owed => \E p \in handle : pc[p] = "serve"

=============================================================================
