------------------------------- MODULE Cleanup --------------------------------
(***************************************************************************)
(* deckpilot cleanup: the sweep of launch records by liveness, and with    *)
(* --worktrees the sweep of worktrees no live session's record names.      *)
(* Both read their directory first, then ask the daemon for the sessions,  *)
(* and stop without touching anything if it does not answer.               *)
(***************************************************************************)
EXTENDS Launch

VARIABLES
    phase,     \* where the cleanup stands
    doomed,    \* the record whose worktree it has removed, and which is next
    files,     \* the records it read the names of; after LIST, those of
               \* sessions not listed, less the settled ones
    dirs,      \* the worktrees it read the names of; after LIST, those no
               \* listed session's record names, less the settled ones
    unsure,    \* history: the lost sessions, when it asked for LIST
    fresh      \* history: the records written since the one for worktrees

cleanupVars == <<phase, doomed, files, dirs, unsure, fresh>>

Recorded == {t \in Terminal : meta[t] # None}

\* The worktree the record of t names: managedWorktreeRootForPath of its cwd.
TreeOf(t) == IF meta[t] = None THEN None ELSE home[meta[t]]

\* removeManagedWorktree: the worktree is gone already, git removes it, or git
\* refuses (it is dirty, locked, or some process stands in it).
Removed(w) == trees' = trees \ {w}
Refused(w) == w \in trees /\ UNCHANGED trees

-----------------------------------------------------------------------------
(* sweepLaunchMetaByLiveness *)

ReadRecords ==
    /\ phase = "idle"
    /\ files' = Recorded
    /\ phase' = "records"
    /\ UNCHANGED <<discoveryVars, launchVars, doomed, dirs, unsure, fresh>>

\* The records whose session LIST did not name.
DeadRecords(listed) == files \ listed

ListForRecords ==
    /\ phase = "records"
    /\ \E listed \in SUBSET Terminal :
          List(listed) /\ files' = DeadRecords(listed)
    /\ phase' = "sweeping"
    /\ unsure' = lost
    /\ UNCHANGED <<pc, known, claim, home, trees, meta, taken, lost,
                   doomed, dirs, fresh>>

\* The worktree a dead record names is removed, if there is one; a refusal keeps
\* the record too.
SweepTree(t) ==
    /\ phase = "sweeping"
    /\ doomed = None
    /\ t \in files
    /\ \/ Removed(TreeOf(t)) /\ doomed' = t /\ UNCHANGED files
       \/ Refused(TreeOf(t)) /\ files' = files \ {t} /\ UNCHANGED doomed
    /\ UNCHANGED <<discoveryVars, pc, known, claim, home, meta, taken, lost,
                   phase, dirs, unsure, fresh>>

\* Only then is the record: what it says by now, and if os.Remove can.
SweepRecord ==
    /\ phase = "sweeping"
    /\ doomed # None
    /\ \/ meta' = [meta EXCEPT ![doomed] = None]
       \/ UNCHANGED meta
    /\ files' = files \ {doomed}
    /\ doomed' = None
    /\ UNCHANGED <<discoveryVars, pc, known, claim, home, trees, taken, lost,
                   phase, dirs, unsure, fresh>>

\* Swept, or aborted because LIST failed: that is all, or with --worktrees
\* sweepOrphanWorktrees reads its directory.
RecordsSwept ==
    /\ \/ phase = "records"
       \/ phase = "sweeping" /\ files = {}
    /\ \/ phase' = "idle" /\ dirs' = {}
       \/ phase' = "dirs" /\ dirs' = trees
    /\ files' = {}
    /\ unsure' = {}
    /\ UNCHANGED <<discoveryVars, launchVars, doomed, fresh>>

-----------------------------------------------------------------------------
(* sweepOrphanWorktrees *)

\* What liveWorktreeRoots does not keep.
Orphans(listed) == dirs \ {TreeOf(t) : t \in listed}

ListForWorktrees ==
    /\ phase = "dirs"
    /\ \E listed \in SUBSET Terminal :
          List(listed) /\ dirs' = Orphans(listed)
    /\ phase' = "orphans"
    /\ unsure' = lost
    /\ fresh' = {}
    /\ UNCHANGED <<pc, known, claim, home, trees, meta, taken, lost,
                   doomed, files>>

SweepOrphan(w) ==
    /\ phase = "orphans"
    /\ w \in dirs
    /\ Removed(w) \/ Refused(w)
    /\ dirs' = dirs \ {w}
    /\ UNCHANGED <<discoveryVars, pc, known, claim, home, meta, taken,
                   lost, phase, doomed, files, unsure, fresh>>

WorktreesSwept ==
    /\ \/ phase = "dirs"
       \/ phase = "orphans" /\ dirs = {}
    /\ phase' = "idle"
    /\ dirs' = {}
    /\ unsure' = {}
    /\ fresh' = {}
    /\ UNCHANGED <<discoveryVars, launchVars, doomed, files>>

\* The process may be killed anywhere, between a worktree and its record too.
Killed ==
    /\ phase # "idle"
    /\ phase' = "idle"
    /\ doomed' = None
    /\ files' = {} /\ dirs' = {} /\ unsure' = {} /\ fresh' = {}
    /\ UNCHANGED <<discoveryVars, launchVars>>

Sweep ==
    \/ ReadRecords \/ ListForRecords \/ SweepRecord \/ RecordsSwept
    \/ \E t \in Terminal : SweepTree(t)
    \/ ListForWorktrees \/ WorktreesSwept \/ Killed
    \/ \E w \in Job : SweepOrphan(w)

=============================================================================
