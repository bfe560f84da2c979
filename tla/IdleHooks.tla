------------------------------ MODULE IdleHooks ------------------------------
(***************************************************************************)
(* The daemon's idle hooks: the slice d.idleHooks guarded by d.mu, and its *)
(* mirror on disk, one JSON file per hook under ~/.deckpilot/idle-hooks/.  *)
(* Three operations touch both, and each of them takes d.mu only for its   *)
(* memory half; the file half runs after the unlock, so calls interleave   *)
(* between the two:                                                        *)
(*                                                                         *)
(*   AddIdleHook         append under d.mu          ; write one file       *)
(*   executeStatusHooks  collect + prune under d.mu ; unlink ; dispatch    *)
(*   RemoveIdleHooks     clear under d.mu           ; list dir ; unlink    *)
(*                                                                         *)
(* A restart (crash, watchdog exit, SHUTDOWN) kills whatever is in flight  *)
(* and New() reloads memory from the files it can parse.                   *)
(*                                                                         *)
(* A hook is its ID.  generateHookID never repeats one, so a hook is added *)
(* at most once in a behaviour.  What executing a hook does (stdout, HTTP, *)
(* SEND, callback) is not modelled here: dispatching it is "firing" it.    *)
(***************************************************************************)
EXTENDS Naturals, FiniteSets

CONSTANTS
    Hook,         \* hook IDs
    OneTime,      \* the hooks registered with one_time = true
    Session,      \* session names
    AnySession,   \* the empty session_filter
    Filter,       \* Filter[h]: the session_filter of h
    Notifier,     \* goroutines that may be inside executeStatusHooks
    Remover,      \* IPC handlers that may be inside RemoveIdleHooks
    MaxRestarts   \* bound: restarts in a behaviour

ASSUME HookAssumption ==
    /\ OneTime \subseteq Hook
    /\ AnySession \notin Session
    /\ Filter \in [Hook -> Session \cup {AnySession}]
    /\ MaxRestarts \in Nat

VARIABLES
    idleHooks,  \* d.idleHooks, as a set: the order is not observable
    file,       \* file[h]: "none", "torn" (created, body incomplete) or "whole"
    adding,     \* adding[h]: where the AddIdleHook call of h stands
    toFire,     \* toFire[n]: hooks n collected and has still to dispatch
    unlinks,    \* unlinks[n]: one-time hooks n pruned, file not yet removed
    sweep,      \* sweep[r]: where the RemoveIdleHooks call of r stands
    doomed,     \* doomed[r]: files the directory listing of r still holds
    restarts

\* History, read by the properties only.
VARIABLES
    shots,      \* shots[h]: dispatches since the daemon started, saturating
    allShots,   \* allShots[h]: dispatches ever, saturating
    removed,    \* hooks some RemoveIdleHooks call has cleared from memory
    blame       \* blame[h]: why memory and disk may disagree about h

daemonVars  == <<idleHooks, adding, toFire, unlinks, sweep, doomed>>
historyVars == <<shots, allShots, removed, blame>>
vars == <<daemonVars, file, restarts, historyVars>>

-----------------------------------------------------------------------------
MaxShots == 2            \* bound: two dispatches are as bad as any number
Once(n) == IF n < MaxShots THEN n + 1 ELSE n

InFlight == {h \in Hook : adding[h] \in {"appended", "writing"}}

\* os.WriteFile holds the file open without FILE_SHARE_DELETE, so on Windows
\* deleting it meanwhile fails.
OpenForWrite(h) == adding[h] = "writing"

OnDisk == {h \in Hook : file[h] # "none"}
Loadable == {h \in Hook : file[h] = "whole"}   \* loadIdleHooks skips the rest

Blame(H, why) == [h \in Hook |-> IF h \in H THEN blame[h] \cup {why} ELSE blame[h]]

\* Mutant: a prune that leaves the file in place.
RemoveNothing(h) == UNCHANGED <<file, blame>>

\* The effect of one os.Remove, and of its failure, which is only logged.
RemoveFile(h) ==
    IF OpenForWrite(h)
    THEN UNCHANGED <<file, blame>>
    ELSE \/ /\ file' = [file EXCEPT ![h] = "none"]
            /\ blame' = Blame({h} \cap idleHooks, "race")
         \/ /\ file[h] # "none"
            /\ blame' = Blame({h}, "io")
            /\ UNCHANGED file

-----------------------------------------------------------------------------
(* AddIdleHook *)

\* d.mu held: append.  A hook ID is fresh, so nothing else refers to h yet.
Append(h) ==
    /\ adding[h] = "new"
    /\ adding' = [adding EXCEPT ![h] = "appended"]
    /\ idleHooks' = idleHooks \cup {h}
    /\ UNCHANGED <<file, toFire, unlinks, sweep, doomed, restarts, historyVars>>

\* writeIdleHookFile: os.WriteFile creates the file, then fills it.
CreateFile(h) ==
    /\ adding[h] = "appended"
    /\ adding' = [adding EXCEPT ![h] = "writing"]
    /\ file' = [file EXCEPT ![h] = "torn"]
    /\ UNCHANGED <<idleHooks, toFire, unlinks, sweep, doomed, restarts, historyVars>>

FillFile(h) ==
    /\ adding[h] = "writing"
    /\ adding' = [adding EXCEPT ![h] = "returned"]
    /\ file' = [file EXCEPT ![h] = "whole"]
    /\ UNCHANGED <<idleHooks, toFire, unlinks, sweep, doomed, restarts, historyVars>>

\* mkdir, create or write failed: a warning, and the hook stays in memory.
WriteFails(h) ==
    /\ h \in InFlight
    /\ adding' = [adding EXCEPT ![h] = "returned"]
    /\ blame' = Blame({h}, "io")
    /\ UNCHANGED <<idleHooks, file, toFire, unlinks, sweep, doomed, restarts,
                   shots, allShots, removed>>

-----------------------------------------------------------------------------
(* executeStatusHooks *)

Matching(s) == {h \in idleHooks : Filter[h] \in {AnySession, s}}

\* Mutants: no hook, or every hook, is consumed by the notification it fires on.
PrunedLater(s) == {}
PrunedAlways(s) == Matching(s)

\* The hooks a notification consumes as it collects them.
Pruned(s) == Matching(s) \cap OneTime

\* d.mu held once: collect what matches and drop the one-time hooks among it.
CollectAndPrune(n, s) ==
    /\ toFire[n] = {}
    /\ Matching(s) # {}
    /\ toFire' = [toFire EXCEPT ![n] = Matching(s)]
    /\ unlinks' = [unlinks EXCEPT ![n] = Pruned(s)]
    /\ idleHooks' = idleHooks \ Pruned(s)
    /\ blame' = Blame(Pruned(s) \cap InFlight, "race")
    /\ UNCHANGED <<file, adding, sweep, doomed, restarts, shots, allShots, removed>>

\* removeIdleHookFile for one pruned hook, d.mu not held.
Unlink(n, h) ==
    /\ h \in unlinks[n]
    /\ unlinks' = [unlinks EXCEPT ![n] = @ \ {h}]
    /\ RemoveFile(h)
    /\ UNCHANGED <<idleHooks, adding, toFire, sweep, doomed, restarts,
                   shots, allShots, removed>>

\* Every file is dealt with: start one goroutine per collected hook.
Dispatch(n) ==
    /\ toFire[n] # {}
    /\ unlinks[n] = {}
    /\ shots' = [h \in Hook |-> IF h \in toFire[n] THEN Once(shots[h]) ELSE shots[h]]
    /\ allShots' = [h \in Hook |-> IF h \in toFire[n] THEN Once(allShots[h]) ELSE allShots[h]]
    /\ toFire' = [toFire EXCEPT ![n] = {}]
    /\ UNCHANGED <<idleHooks, file, adding, unlinks, sweep, doomed, restarts,
                   removed, blame>>

-----------------------------------------------------------------------------
(* RemoveIdleHooks *)

\* d.mu held: the memory half.
Clear(r) ==
    /\ sweep[r] = "off"
    /\ sweep' = [sweep EXCEPT ![r] = "cleared"]
    /\ idleHooks' = {}
    /\ removed' = removed \cup idleHooks
    /\ blame' = Blame(idleHooks \cap InFlight, "race")
    /\ UNCHANGED <<file, adding, toFire, unlinks, doomed, restarts, shots, allShots>>

\* removeAllIdleHookFiles: os.ReadDir takes a snapshot of the directory.
ListDir(r) ==
    /\ sweep[r] = "cleared"
    /\ sweep' = [sweep EXCEPT ![r] = "sweeping"]
    /\ doomed' = [doomed EXCEPT ![r] = OnDisk]
    /\ UNCHANGED <<idleHooks, file, adding, toFire, unlinks, restarts, historyVars>>

ListDirFails(r) ==
    /\ sweep[r] = "cleared"
    /\ sweep' = [sweep EXCEPT ![r] = "off"]
    /\ blame' = Blame(OnDisk \cup removed, "io")
    /\ UNCHANGED <<idleHooks, file, adding, toFire, unlinks, doomed, restarts,
                   shots, allShots, removed>>

SweepFile(r, h) ==
    /\ h \in doomed[r]
    /\ doomed' = [doomed EXCEPT ![r] = @ \ {h}]
    /\ RemoveFile(h)
    /\ UNCHANGED <<idleHooks, adding, toFire, unlinks, sweep, restarts,
                   shots, allShots, removed>>

SweepDone(r) ==
    /\ sweep[r] = "sweeping"
    /\ doomed[r] = {}
    /\ sweep' = [sweep EXCEPT ![r] = "off"]
    /\ UNCHANGED <<idleHooks, file, adding, toFire, unlinks, doomed, restarts, historyVars>>

-----------------------------------------------------------------------------
(* Restart *)

\* Hooks a dying daemon had still to write, dispatch, unlink or sweep.
Interrupted ==
    InFlight \cup UNION {toFire[n] : n \in Notifier}
             \cup {h \in OnDisk : \E r \in Remover : sweep[r] # "off"}

\* The process ends anywhere; the next one loads memory from disk in New().
Restart ==
    /\ restarts < MaxRestarts
    /\ restarts' = restarts + 1
    /\ idleHooks' = Loadable
    /\ adding' = [h \in Hook |-> IF h \in InFlight THEN "returned" ELSE adding[h]]
    /\ toFire' = [n \in Notifier |-> {}]
    /\ unlinks' = [n \in Notifier |-> {}]
    /\ sweep' = [r \in Remover |-> "off"]
    /\ doomed' = [r \in Remover |-> {}]
    /\ shots' = [h \in Hook |-> 0]
    /\ blame' = Blame(Interrupted, "crash")
    /\ UNCHANGED <<file, allShots, removed>>

-----------------------------------------------------------------------------
Init ==
    /\ idleHooks = {}
    /\ file = [h \in Hook |-> "none"]
    /\ adding = [h \in Hook |-> "new"]
    /\ toFire = [n \in Notifier |-> {}]
    /\ unlinks = [n \in Notifier |-> {}]
    /\ sweep = [r \in Remover |-> "off"]
    /\ doomed = [r \in Remover |-> {}]
    /\ restarts = 0
    /\ shots = [h \in Hook |-> 0]
    /\ allShots = [h \in Hook |-> 0]
    /\ removed = {}
    /\ blame = [h \in Hook |-> {}]

Add(h) == Append(h) \/ CreateFile(h) \/ FillFile(h) \/ WriteFails(h)

Fire(n) ==
    \/ \E s \in Session : CollectAndPrune(n, s)
    \/ \E h \in Hook : Unlink(n, h)
    \/ Dispatch(n)

Remove(r) ==
    \/ Clear(r) \/ ListDir(r) \/ ListDirFails(r) \/ SweepDone(r)
    \/ \E h \in Hook : SweepFile(r, h)

Next ==
    \/ \E h \in Hook : Add(h)
    \/ \E n \in Notifier : Fire(n)
    \/ \E r \in Remover : Remove(r)
    \/ Restart

Spec == Init /\ [][Next]_vars

-----------------------------------------------------------------------------
\* Every variable keeps its type; what is to be unlinked is to be dispatched.
TypeOK ==
    /\ idleHooks \in SUBSET Hook
    /\ file \in [Hook -> {"none", "torn", "whole"}]
    /\ adding \in [Hook -> {"new", "appended", "writing", "returned"}]
    /\ toFire \in [Notifier -> SUBSET Hook]
    /\ unlinks \in [Notifier -> SUBSET OneTime]
    /\ \A n \in Notifier : unlinks[n] \subseteq toFire[n]
    /\ sweep \in [Remover -> {"off", "cleared", "sweeping"}]
    /\ doomed \in [Remover -> SUBSET Hook]
    /\ restarts \in 0..MaxRestarts
    /\ shots \in [Hook -> 0..MaxShots]
    /\ allShots \in [Hook -> 0..MaxShots]
    /\ removed \in SUBSET Hook
    /\ blame \in [Hook -> SUBSET {"io", "race", "crash"}]

\* A one-time hook fires at most once in the life of a daemon, however many
\* status notifications arrive at once: the prune in executeStatusHooks shares
\* the critical section of the collection.
OneTimeFiresOnce == \A h \in OneTime : shots[h] <= 1

\* Why OneTimeFiresOnce is inductive.  A hook not added yet has left no trace
\* anywhere, so adding it arms it once; an armed one-time hook has not been
\* collected in this life; and at most one notifier holds it.
NotAddedYet ==
    \A h \in Hook : adding[h] = "new" =>
        /\ h \notin idleHooks
        /\ file[h] = "none"
        /\ shots[h] = 0
        /\ \A n \in Notifier : h \notin toFire[n]

FiringInv ==
    /\ NotAddedYet
    /\ \A h \in OneTime :
        /\ shots[h] <= 1
        /\ h \in idleHooks => shots[h] = 0 /\ \A n \in Notifier : h \notin toFire[n]
        /\ \A n \in Notifier : h \in toFire[n] => shots[h] = 0
        /\ \A n, m \in Notifier : h \in toFire[n] /\ h \in toFire[m] => n = m

\* Across restarts a one-time hook fires a second time only if an I/O error, a
\* restart in the middle of its own bookkeeping, or an overlap of two
\* operations on it left its file behind.
SecondShotExplained == \A h \in OneTime : allShots[h] > 1 => blame[h] # {}

Quiet ==
    /\ InFlight = {}
    /\ \A n \in Notifier : toFire[n] = {}
    /\ \A r \in Remover : sweep[r] = "off"

\* When no operation is under way, memory and disk hold the same hooks, except
\* for a hook hit by an I/O error or by two overlapping operations.
QuietMemoryMatchesDisk ==
    Quiet => \A h \in Hook : \/ h \in idleHooks <=> h \in Loadable
                            \/ blame[h] \cap {"io", "race"} # {}

\* A hook whose registration returned stays registered, and on disk, through
\* every restart, until it is removed or (one-time) collected for firing,
\* unless its own bookkeeping was hit as above.
RegisteredHookSurvives ==
    \A h \in Hook :
        \/ adding[h] # "returned"
        \/ h \in removed
        \/ blame[h] # {}
        \/ h \in OneTime /\ (allShots[h] > 0 \/ \E n \in Notifier : h \in toFire[n])
        \/ h \in idleHooks /\ h \in Loadable

\* The firings a hook will have had once every notifier has dispatched.
Charged ==
    [h \in Hook |->
        LET n == shots[h] + Cardinality({k \in Notifier : h \in toFire[k]})
        IN  IF n < MaxShots THEN n ELSE MaxShots]

Registry == INSTANCE HookRegistry WITH armed <- idleHooks, shots <- Charged

\* The split of a firing into collect, unlink and dispatch, and the file
\* mirror, are invisible: the hooks behave as if each notification charged
\* every matching hook and disarmed the one-time ones in a single step.
RegistrySpec == Registry!Spec

-----------------------------------------------------------------------------
(* What a test promises, and overlapping calls break. *)

\* "otherwise the next daemon restart will resurrect the already-spent hook
\* and re-fire it": a spent one-time hook never fires again, disk errors and
\* restarts inside an operation aside.
SpentHookStaysSpent ==
    \A h \in OneTime : allShots[h] > 1 => blame[h] \cap {"io", "crash"} # {}
=============================================================================
