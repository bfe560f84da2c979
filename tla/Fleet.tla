--------------------------------- MODULE Fleet ---------------------------------
(***************************************************************************)
(* Launches, a cleanup, the terminals and a daemon that may be replaced,   *)
(* at once.  They share no lock: what keeps them apart is the order in     *)
(* which each reads the sessions and the directories.                      *)
(***************************************************************************)
EXTENDS Cleanup

vars == <<discoveryVars, launchVars, cleanupVars>>

Init ==
    /\ proc \in [Terminal -> {"unborn", "running"}]
    /\ \A j \in Job : proc[j] = "unborn"
    /\ epoch = 1
    /\ session = Nowhere
    /\ found = {}
    /\ pc = [j \in Job |-> "idle"]
    /\ known = [j \in Job |-> {}]
    /\ claim = [j \in Job |-> None]
    /\ home = [j \in Job |-> None]
    /\ trees = {}
    /\ meta = [t \in Terminal |-> None]
    /\ taken = [j \in Job |-> {}]
    /\ lost = {}
    /\ phase = "idle"
    /\ doomed = None
    /\ files = {}
    /\ dirs = {}
    /\ unsure = {}
    /\ fresh = {}

\* The daemon's own steps, and a new daemon, which has listed nothing.
DaemonStep ==
    \/ /\ \/ Discover \/ AddSessions \/ Refresh
          \/ \E t \in Terminal : WatcherDies(t)
       /\ UNCHANGED <<launchVars, cleanupVars>>
    \/ /\ Restart
       /\ taken' = [j \in Job |-> {}]
       /\ lost' = lost \cup Claimed
       /\ UNCHANGED <<pc, known, claim, home, trees, meta, cleanupVars>>

TerminalStep(t) ==
    /\ \/ WindowOpens(t)
       \/ Exits(t) /\ UNCHANGED launchVars
    /\ UNCHANGED cleanupVars

\* A record written while a cleanup sweeps is noted.
JobStep(j) ==
    /\ LaunchStep(j)
    /\ fresh' = IF phase # "orphans" THEN fresh
                ELSE fresh \cup {t \in Terminal : meta'[t] # meta[t]}
    /\ UNCHANGED <<phase, doomed, files, dirs, unsure>>

Next ==
    \/ DaemonStep
    \/ \E t \in Terminal : TerminalStep(t)
    \/ \E j \in Job : JobStep(j)
    \/ Sweep

Spec == Init /\ [][Next]_vars

-----------------------------------------------------------------------------

TypeOK ==
    /\ proc \in [Terminal -> {"unborn", "running", "gone"}]
    /\ epoch \in 1..MaxDaemons
    /\ session \in [Terminal -> {"none", "watched", "dead"}]
    /\ found \subseteq Terminal
    /\ pc \in [Job -> {"idle", "listed", "waiting", "claimed", "recorded"}]
    /\ known \in [Job -> SUBSET Terminal]
    /\ claim \in [Job -> Terminal \cup {None}]
    /\ home \in [Job -> Job \cup {None}]
    /\ trees \subseteq Job
    /\ meta \in [Terminal -> Job \cup {None}]
    /\ phase \in {"idle", "records", "sweeping", "dirs", "orphans"}
    /\ doomed \in Terminal \cup {None}
    /\ files \subseteq Terminal
    /\ dirs \subseteq Job
    /\ lost \subseteq Terminal
    /\ unsure \subseteq lost

\* The record of a running session is deleted only if a launch had found it
\* through a daemon that was replaced before the cleanup asked: the new one had
\* not discovered it yet.
RecordSpared ==
    \A t \in Running :
        meta[t] # None /\ meta'[t] = None => t \in unsure

\* The worktree a running session's record names is removed only in that case,
\* or through the record of a dead session launched into the same worktrees, or
\* because the record was written after the cleanup had collected the records.
TreeSpared ==
    \A t \in Running :
        LET w == TreeOf(t) IN
        w \in trees \ trees' =>
            \/ t \in unsure
            \/ phase = "sweeping" /\ meta'[t] = meta[t]
            \/ phase = "orphans" /\ t \in fresh

\* No sweep takes the record or the worktree of a session that is running,
\* save in the cases named above.
SweepsSpareRunning == [][RecordSpared /\ TreeSpared]_vars

\* A launch never takes a running session that another had taken from the same
\* daemon before the first one listed the sessions: launches that do not overlap
\* are kept apart, unless the daemon was replaced or did not answer.
LaunchTakesNewSession ==
    [][\A j \in Job :
          claim'[j] # claim[j] => claim'[j] \notin taken[j] \cap Running]_vars

=============================================================================
