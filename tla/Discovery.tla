------------------------------- MODULE Discovery -------------------------------
(***************************************************************************)
(* The daemon's session map and what feeds it: pipe.Discover (the process  *)
(* scan, or the session files when no process answers), the channel        *)
(* between the discovery loop and the goroutine that adds sessions, and    *)
(* refreshSessions, which the loop and every LIST call.  The map lives in  *)
(* memory only: a new daemon starts from an empty one.                     *)
(*                                                                         *)
(* A session is its terminal: the name carries the process id, and ids are *)
(* not reused here.  Pings that fail are a free choice, and while no daemon *)
(* runs none of its steps is taken.                                        *)
(***************************************************************************)
EXTENDS Naturals, FiniteSets

CONSTANTS
    Terminal,     \* the Ghostty windows, those users open among them
    MaxDaemons    \* bound: daemons that run one after the other

ASSUME DiscoveryAssumption == MaxDaemons \in Nat \ {0}

VARIABLES
    proc,      \* proc[t]: "unborn", "running" or "gone"
    epoch,     \* how many daemons have started
    session,   \* session[t]: "none", or the state of its watcher
    found      \* what Discover sent and is not added yet

daemon == <<epoch, session, found>>
discoveryVars == <<proc, daemon>>

Running == {t \in Terminal : proc[t] = "running"}
Gone == {t \in Terminal : proc[t] = "gone"}
Nowhere == [t \in Terminal |-> "none"]

-----------------------------------------------------------------------------
(* Terminals. *)

StartsUp(t) ==
    /\ proc[t] = "unborn"
    /\ proc' = [proc EXCEPT ![t] = "running"]
    /\ UNCHANGED daemon

Exits(t) ==
    /\ t \in Running
    /\ proc' = [proc EXCEPT ![t] = "gone"]
    /\ UNCHANGED daemon

-----------------------------------------------------------------------------
(* The daemon. *)

\* The processes that answer their ping; only if none does, the session files:
\* those of the last 10 s unasked, even if their terminal is gone again, the
\* others if it answers now.
Discover ==
    /\ found = {}
    /\ \/ found' \in (SUBSET Running) \ {{}}
       \/ \E recent \in (SUBSET Gone) \ {{}}, answering \in SUBSET Running :
             found' = recent \cup answering
    /\ UNCHANGED <<proc, epoch, session>>

\* addSession for each of them: a name in the map is left alone.
AddSessions ==
    /\ found # {}
    /\ session' = [t \in Terminal |->
                     IF t \in found /\ session[t] = "none" THEN "watched"
                     ELSE session[t]]
    /\ found' = {}
    /\ UNCHANGED <<proc, epoch>>

\* Enough failed polls: the window is gone, or its pipe is silent for a while.
WatcherDies(t) ==
    /\ session[t] = "watched"
    /\ session' = [session EXCEPT ![t] = "dead"]
    /\ UNCHANGED <<proc, epoch, found>>

\* Mutant: a dead watcher is enough.
PrunableDead(t) == t \in Terminal

\* Whether refreshSessions prunes the dead session t.
Prunable(t) == t \in Gone

\* Mutant: a pruned session stays in the map as what became of its process.
RefreshedInPlace(back) ==
    [t \in Terminal |->
       IF session[t] = "dead" /\ t \in Gone THEN proc[t]
       ELSE IF session[t] = "dead" /\ t \in back THEN "watched" ELSE session[t]]

\* refreshSessions, when the dead sessions in "back" answer again.
Refreshed(back) ==
    [t \in Terminal |->
       IF session[t] # "dead" THEN session[t]
       ELSE IF Prunable(t) THEN "none"
       ELSE IF t \in back THEN "watched" ELSE "dead"]

\* LIST: refreshSessions, then every name in the map.
Reply(listed, back) ==
    /\ session' = Refreshed(back)
    /\ listed = {t \in Terminal : Refreshed(back)[t] # "none"}
    /\ UNCHANGED <<proc, epoch, found>>

Refresh ==
    /\ \E back \in SUBSET Running, listed \in SUBSET Terminal :
          Reply(listed, back)

\* Shut down, killed, or ended by its watchdog; EnsureRunning of some command
\* starts the next one.
Restart ==
    /\ epoch < MaxDaemons
    /\ epoch' = epoch + 1
    /\ session' = Nowhere
    /\ found' = {}
    /\ UNCHANGED proc

=============================================================================
