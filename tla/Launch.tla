-------------------------------- MODULE Launch --------------------------------
(***************************************************************************)
(* deckpilot launch: list the sessions, make a worktree, open a window,    *)
(* wait until LIST names a session that was not there before, and record   *)
(* the launch under that name; all it types then goes to that session.     *)
(* The window is started through explorer.exe, so the launch never learns  *)
(* its process id: the new name is all it goes by.                         *)
(*                                                                         *)
(* The window a launch opens and the worktree it makes bear its name.  A   *)
(* launch that fails or times out undoes nothing: it takes no further step. *)
(***************************************************************************)
EXTENDS Discovery

CONSTANTS
    Job,       \* the launches, each also the name of its window and worktree
    None       \* no launch, no session, no managed worktree

ASSUME LaunchAssumption == Job \subseteq Terminal /\ None \notin Terminal

VARIABLES
    pc,        \* pc[j]: where launch j stands
    known,     \* known[j]: the sessions it listed first, until it has claimed one
    claim,     \* claim[j]: the session it took for its own, or None
    home,      \* home[j]: the managed worktree its cwd lies in, or None
    trees,     \* the managed worktrees there are
    meta,      \* meta[t]: the launch recorded in the file of t, or None
    taken,     \* history: taken[j]: the sessions other launches had claimed,
               \* from the same daemon, when j listed
    lost       \* history: sessions claimed through a daemon since replaced

launchVars == <<pc, known, claim, home, trees, meta, taken, lost>>

Goto(j, l) == pc' = [pc EXCEPT ![j] = l]

\* A LIST some client reads.
List(listed) == \E back \in SUBSET Running : Reply(listed, back)

Claimed == {claim[j] : j \in Job} \ {None}

\* EnsureRunning got its PONG; listSessionNames answers nil when LIST fails.
ListKnown(j) ==
    /\ pc[j] = "idle"
    /\ \/ \E listed \in SUBSET Terminal :
             /\ List(listed)
             /\ known' = [known EXCEPT ![j] = listed]
             /\ taken' = [taken EXCEPT ![j] = Claimed \ lost]
       \/ /\ UNCHANGED <<discoveryVars, known, taken>>
    /\ Goto(j, "listed")
    /\ UNCHANGED <<claim, home, trees, meta, lost>>

\* maybeCreateLaunchWorktree: a worktree of its own; none (--shared-cwd, or no
\* repository); or, launched from inside a managed one, that one.  Then
\* explorer.exe is told to open the window, which comes up when it does.
OpenWindow(j) ==
    /\ pc[j] = "listed"
    /\ \/ /\ trees' = trees \cup {j}
          /\ home' = [home EXCEPT ![j] = j]
       \/ UNCHANGED <<trees, home>>
       \/ /\ \E w \in trees : home' = [home EXCEPT ![j] = w]
          /\ UNCHANGED trees
    /\ Goto(j, "waiting")
    /\ UNCHANGED <<discoveryVars, known, claim, meta, taken, lost>>

\* Mutant: any name listed.
AnyName(j, listed) == listed

\* waitForNewSession: any listed name that was not known before.
NewNames(j, listed) == listed \ known[j]

Claim(j) ==
    /\ pc[j] = "waiting"
    /\ \E listed \in SUBSET Terminal :
          /\ List(listed)
          /\ \E t \in NewNames(j, listed) : claim' = [claim EXCEPT ![j] = t]
    /\ known' = [known EXCEPT ![j] = {}]
    /\ taken' = [taken EXCEPT ![j] = {}]
    /\ Goto(j, "claimed")
    /\ UNCHANGED <<home, trees, meta, lost>>

\* WriteLaunchMeta; a failure is only reported.
WriteMeta(j) ==
    /\ pc[j] = "claimed"
    /\ meta' \in {meta, [meta EXCEPT ![claim[j]] = j]}
    /\ Goto(j, "recorded")
    /\ UNCHANGED <<discoveryVars, known, claim, home, trees,
                   taken, lost>>

\* Windows: a launch's own, or one a user opens.
WindowOpens(t) ==
    /\ StartsUp(t)
    /\ t \in Job => pc[t] \notin {"idle", "listed"}
    /\ UNCHANGED launchVars

LaunchStep(j) ==
    ListKnown(j) \/ OpenWindow(j) \/ Claim(j) \/ WriteMeta(j)

=============================================================================
