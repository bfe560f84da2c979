------------------------------ MODULE FleetProofs ------------------------------
(***************************************************************************)
(* Proofs about Fleet, for any number of windows, launches and daemons.    *)
(*                                                                         *)
(* Both results rest on one fact about the daemon's map: as long as the    *)
(* daemon a session was claimed through runs, the session stays in it until *)
(* its process is gone, so that every LIST names it.                       *)
(***************************************************************************)
EXTENDS Fleet, TLAPS

\* The history a launch keeps is of sessions.
HistoryTypes == taken \in [Job -> SUBSET Terminal]

\* A window that has not come up is known to nobody.
Unheard(t) ==
    /\ session[t] = "none"
    /\ t \notin found
    /\ t \notin Claimed
    /\ \A j \in Job : t \notin taken[j]

Born == \A t \in Terminal : proc[t] = "unborn" => Unheard(t)

\* The daemon a session was claimed through has it in its map while it runs.
Mapped == \A t \in (Claimed \ lost) \cap Running : session[t] # "none"

\* A launch knows of the sessions taken before it listed.
Remembered == \A j \in Job : taken[j] \cap Running \subseteq known[j]

\* A launch claims once, and a record is the one of its session's launch.
ClaimsOnce ==
    \A j \in Job : pc[j] \in {"idle", "listed", "waiting"} => claim[j] = None

RecordsMatch ==
    \A t \in Terminal :
        meta[t] # None => pc[meta[t]] = "recorded" /\ claim[meta[t]] = t

\* What a cleanup is about to delete.
RecordsDoomed ==
    /\ files \subseteq Claimed
    /\ phase = "sweeping" => files \cap Running \subseteq unsure
    /\ doomed # None => phase = "sweeping" /\ doomed \in files

TreesDoomed ==
    phase = "orphans" =>
        \A t \in Running : TreeOf(t) \in dirs => t \in unsure \cup fresh

\* The inductive invariant.
IInv ==
    /\ TypeOK /\ HistoryTypes
    /\ Born /\ Mapped /\ Remembered
    /\ ClaimsOnce /\ RecordsMatch
    /\ RecordsDoomed /\ TreesDoomed

-----------------------------------------------------------------------------
(* The daemon's map. *)

\* A LIST names what the map holds after the refresh; a refresh neither adds a
\* session nor removes one whose process runs.
LEMMA ReplyKeeps ==
    ASSUME TypeOK, NEW listed, NEW back, Reply(listed, back)
    PROVE  /\ session' \in [Terminal -> {"none", "watched", "dead"}]
           /\ listed = {t \in Terminal : session'[t] # "none"}
           /\ \A t \in Terminal : session[t] = "none" => session'[t] = "none"
           /\ \A t \in Running : session[t] # "none" => session'[t] # "none"
           /\ UNCHANGED <<proc, epoch, found>>
BY DEF TypeOK, Reply, Refreshed, Prunable, Running, Gone

LEMMA ListKeeps ==
    ASSUME TypeOK, NEW listed, List(listed)
    PROVE  /\ session' \in [Terminal -> {"none", "watched", "dead"}]
           /\ listed = {t \in Terminal : session'[t] # "none"}
           /\ \A t \in Terminal : session[t] = "none" => session'[t] = "none"
           /\ \A t \in Running : session[t] # "none" => session'[t] # "none"
           /\ UNCHANGED <<proc, epoch, found>>
BY ReplyKeeps DEF List

\* What a step does to the daemon and the windows.
DiscoveryTypes ==
    /\ proc \in [Terminal -> {"unborn", "running", "gone"}]
    /\ epoch \in 1..MaxDaemons
    /\ session \in [Terminal -> {"none", "watched", "dead"}]
    /\ found \subseteq Terminal

LEMMA DiscoveryTypesKept ==
    ASSUME TypeOK, [Next]_vars
    PROVE  DiscoveryTypes'
<1> USE DEF TypeOK, DiscoveryTypes
<1>1. CASE UNCHANGED vars
  BY <1>1 DEF vars, discoveryVars, daemon
<1>2. CASE Discover
  BY <1>2 DEF Discover, Running, Gone
<1>3. CASE AddSessions
  BY <1>3 DEF AddSessions
<1>4. CASE Refresh
  BY <1>4, ReplyKeeps DEF Refresh
<1>5. ASSUME NEW t \in Terminal, WatcherDies(t) PROVE DiscoveryTypes'
  BY <1>5 DEF WatcherDies
<1>6. CASE Restart
  BY <1>6, DiscoveryAssumption DEF Restart, Nowhere
<1>7. ASSUME NEW t \in Terminal, WindowOpens(t) \/ Exits(t)
      PROVE  DiscoveryTypes'
  BY <1>7 DEF WindowOpens, StartsUp, Exits, daemon
<1>8. ASSUME NEW listed, List(listed) PROVE DiscoveryTypes'
  BY <1>8, ListKeeps
<1>9. ASSUME NEW j \in Job, LaunchStep(j) PROVE DiscoveryTypes'
  BY <1>8, <1>9 DEF LaunchStep, ListKnown, OpenWindow, Claim, WriteMeta,
                    discoveryVars, daemon
<1>10. CASE Sweep
  BY <1>8, <1>10 DEF Sweep, ReadRecords, ListForRecords, SweepRecord,
       SweepTree, RecordsSwept, ListForWorktrees, SweepOrphan, WorktreesSwept, Killed,
       discoveryVars, daemon
<1> QED
  BY <1>1, <1>2, <1>3, <1>4, <1>5, <1>6, <1>7, <1>9, <1>10
  DEF Next, DaemonStep, TerminalStep, JobStep

-----------------------------------------------------------------------------
(* Types of what launches and cleanups keep. *)

LaunchTypes ==
    /\ pc \in [Job -> {"idle", "listed", "waiting", "claimed", "recorded"}]
    /\ known \in [Job -> SUBSET Terminal]
    /\ claim \in [Job -> Terminal \cup {None}]
    /\ home \in [Job -> Job \cup {None}]
    /\ trees \subseteq Job
    /\ meta \in [Terminal -> Job \cup {None}]
    /\ lost \subseteq Terminal

CleanupTypes ==
    /\ phase \in {"idle", "records", "sweeping", "dirs", "orphans"}
    /\ doomed \in Terminal \cup {None}
    /\ files \subseteq Terminal
    /\ dirs \subseteq Job
    /\ unsure \subseteq lost

LEMMA ClaimsAreSessions ==
    ASSUME TypeOK
    PROVE  /\ Claimed \subseteq Terminal
           /\ \A j \in Job : claim[j] \in Claimed \cup {None}
BY DEF TypeOK, Claimed

LEMMA LaunchTypesKept ==
    ASSUME TypeOK, HistoryTypes, [Next]_vars
    PROVE  LaunchTypes' /\ HistoryTypes'
<1> USE DEF TypeOK, HistoryTypes, LaunchTypes
<1>1. CASE UNCHANGED launchVars
  BY <1>1 DEF launchVars
<1>2. CASE Restart /\ taken' = [j \in Job |-> {}] /\ lost' = lost \cup Claimed
           /\ UNCHANGED <<pc, known, claim, home, trees, meta>>
  BY <1>2, ClaimsAreSessions
<1>3. ASSUME NEW j \in Job, ListKnown(j) PROVE LaunchTypes' /\ HistoryTypes'
  BY <1>3, ClaimsAreSessions DEF ListKnown, Goto
<1>4. ASSUME NEW j \in Job, OpenWindow(j) PROVE LaunchTypes' /\ HistoryTypes'
  BY <1>4 DEF OpenWindow, Goto
<1>5. ASSUME NEW j \in Job, Claim(j) PROVE LaunchTypes' /\ HistoryTypes'
  BY <1>5 DEF Claim, NewNames, Goto
<1>6. ASSUME NEW j \in Job, WriteMeta(j) PROVE LaunchTypes' /\ HistoryTypes'
  BY <1>6 DEF WriteMeta, Goto
<1>7. ASSUME SweepRecord \/ \E t \in Terminal : SweepTree(t)
      PROVE  LaunchTypes' /\ HistoryTypes'
  BY <1>7 DEF SweepRecord, SweepTree, Removed, Refused
<1>8. ASSUME NEW w \in Job, SweepOrphan(w) PROVE LaunchTypes' /\ HistoryTypes'
  BY <1>8 DEF SweepOrphan, Removed, Refused
<1>9. ReadRecords \/ ListForRecords \/ RecordsSwept \/ ListForWorktrees
        \/ WorktreesSwept \/ Killed => UNCHANGED launchVars
  BY DEF ReadRecords, ListForRecords, RecordsSwept, ListForWorktrees,
         WorktreesSwept, Killed, launchVars
<1> QED
  BY <1>1, <1>2, <1>3, <1>4, <1>5, <1>6, <1>7, <1>8, <1>9
  DEF Next, DaemonStep, TerminalStep, WindowOpens, JobStep, LaunchStep, Sweep,
      vars, cleanupVars

LEMMA CleanupTypesKept ==
    ASSUME TypeOK, [Next]_vars
    PROVE  CleanupTypes'
<1> USE DEF TypeOK, CleanupTypes
<1>1. CASE UNCHANGED <<phase, doomed, files, dirs, unsure>>
           /\ (UNCHANGED lost \/ lost' = lost \cup Claimed)
  BY <1>1
<1>2. CASE ReadRecords
  BY <1>2 DEF ReadRecords, Recorded, launchVars
<1>3. CASE ListForRecords
  BY <1>3 DEF ListForRecords, DeadRecords
<1>4. ASSUME SweepRecord \/ \E t \in Terminal : SweepTree(t) PROVE CleanupTypes'
  BY <1>4 DEF SweepRecord, SweepTree
<1>5. CASE RecordsSwept
  BY <1>5 DEF RecordsSwept, launchVars
<1>6. CASE ListForWorktrees
  BY <1>6 DEF ListForWorktrees, Orphans
<1>7. ASSUME NEW w \in Job, SweepOrphan(w) PROVE CleanupTypes'
  BY <1>7 DEF SweepOrphan
<1>8. CASE WorktreesSwept \/ Killed
  BY <1>8 DEF WorktreesSwept, Killed, launchVars
<1>9. ASSUME NEW j \in Job, LaunchStep(j) PROVE UNCHANGED lost
  BY <1>9 DEF LaunchStep, ListKnown, OpenWindow, Claim, WriteMeta
<1> QED
  BY <1>1, <1>2, <1>3, <1>4, <1>5, <1>6, <1>7, <1>8, <1>9
  DEF Next, DaemonStep, TerminalStep, WindowOpens, JobStep, Sweep,
      vars, launchVars, cleanupVars

LEMMA TypesKept ==
    ASSUME TypeOK, HistoryTypes, [Next]_vars
    PROVE  TypeOK' /\ HistoryTypes'
BY DiscoveryTypesKept, LaunchTypesKept, CleanupTypesKept
DEF TypeOK, DiscoveryTypes, LaunchTypes, CleanupTypes

-----------------------------------------------------------------------------
(* Whom the daemon and the launches know. *)

\* Only a claim adds to the claimed sessions, and the one it adds is in the map.
LEMMA ClaimKeeps ==
    ASSUME TypeOK, NEW j \in Job, Claim(j)
    PROVE  \E t \in Terminal :
             /\ session'[t] # "none"
             /\ t \notin known[j]
             /\ claim' = [claim EXCEPT ![j] = t]
             /\ Claimed' \subseteq Claimed \cup {t}
<1>1. PICK listed \in SUBSET Terminal :
         List(listed) /\ \E t \in NewNames(j, listed) :
                            claim' = [claim EXCEPT ![j] = t]
  BY DEF Claim
<1>2. PICK t \in NewNames(j, listed) : claim' = [claim EXCEPT ![j] = t]
  BY <1>1
<1>3. /\ t \in Terminal /\ session'[t] # "none" /\ t \notin known[j]
  BY <1>1, <1>2, ListKeeps DEF NewNames
<1>4. Claimed' \subseteq Claimed \cup {t}
  BY <1>2 DEF Claimed, TypeOK
<1> QED
  BY <1>2, <1>3, <1>4

\* The steps that leave the claims alone.
LEMMA ClaimsKept ==
    ASSUME [Next]_vars, ~ \E j \in Job : Claim(j)
    PROVE  UNCHANGED claim
BY DEF Next, DaemonStep, TerminalStep, JobStep, LaunchStep, Sweep, WindowOpens,
       ListKnown, OpenWindow, WriteMeta, ReadRecords, ListForRecords,
       SweepRecord, SweepTree, RecordsSwept, ListForWorktrees, SweepOrphan, WorktreesSwept, Killed,
       launchVars, vars

\* The history of a launch only takes in claimed sessions.
LEMMA TakenKept ==
    ASSUME HistoryTypes, TypeOK, [Next]_vars, NEW j \in Job
    PROVE  \/ taken'[j] = taken[j] /\ known'[j] = known[j]
           \/ taken'[j] = {}
           \/ /\ taken'[j] = Claimed \ lost
              /\ List(known'[j])
              /\ UNCHANGED <<claim, lost>>
<1> USE DEF TypeOK, HistoryTypes
<1>1. ASSUME NEW i \in Job, ListKnown(i)
      PROVE  \/ taken'[j] = taken[j] /\ known'[j] = known[j]
             \/ /\ taken'[j] = Claimed \ lost
                /\ List(known'[j])
                /\ UNCHANGED <<claim, lost>>
  BY <1>1 DEF ListKnown
<1>2. ASSUME NEW i \in Job, Claim(i)
      PROVE  taken'[j] = {} \/ (taken'[j] = taken[j] /\ known'[j] = known[j])
  BY <1>2 DEF Claim
<1>3. CASE UNCHANGED <<taken, known>>
  BY <1>3
<1> QED
  BY <1>1, <1>2, <1>3
  DEF Next, DaemonStep, TerminalStep, JobStep, LaunchStep, Sweep, WindowOpens,
      OpenWindow, WriteMeta, ReadRecords, ListForRecords,
      SweepRecord, SweepTree, RecordsSwept, ListForWorktrees, SweepOrphan, WorktreesSwept, Killed,
      launchVars, vars

\* The map only takes in sessions that were found, and found are those whose
\* process has run.
LEMMA MapKept ==
    ASSUME TypeOK, [Next]_vars, NEW t \in Terminal
    PROVE  /\ proc[t] = "unborn" /\ t \notin found /\ session[t] = "none"
                => (t \notin found' /\ session'[t] = "none")
           /\ t \in Running /\ session[t] # "none"
                => \/ session'[t] # "none"
                   \/ lost' = lost \cup Claimed /\ UNCHANGED claim
<1> USE DEF TypeOK
<1>1. CASE UNCHANGED daemon
  BY <1>1 DEF daemon
<1>2. CASE Discover
  BY <1>2 DEF Discover, Running, Gone
<1>3. CASE AddSessions
  BY <1>3 DEF AddSessions
<1>4. CASE Refresh
  BY <1>4, ReplyKeeps DEF Refresh
<1>5. ASSUME NEW u \in Terminal, WatcherDies(u)
      PROVE  /\ UNCHANGED found /\ (session[t] = "none" <=> session'[t] = "none")
  BY <1>5 DEF WatcherDies
<1>6. CASE Restart /\ lost' = lost \cup Claimed /\ UNCHANGED claim
  BY <1>6 DEF Restart, Nowhere
<1>7. ASSUME NEW listed, List(listed)
      PROVE  /\ UNCHANGED found
             /\ session[t] = "none" => session'[t] = "none"
             /\ t \in Running /\ session[t] # "none" => session'[t] # "none"
  BY <1>7, ListKeeps
<1> QED
  BY <1>1, <1>2, <1>3, <1>4, <1>5, <1>6, <1>7
  DEF Next, DaemonStep, TerminalStep, JobStep, LaunchStep, Sweep, WindowOpens,
      StartsUp, Exits, ListKnown, Claim, OpenWindow, WriteMeta, ReadRecords,
      ListForRecords, SweepRecord, SweepTree, RecordsSwept, ListForWorktrees, SweepOrphan,
      WorktreesSwept, Killed, discoveryVars, daemon, vars

\* A process comes up once.
LEMMA ProcKept ==
    ASSUME TypeOK, [Next]_vars, NEW t \in Terminal
    PROVE  /\ proc'[t] = "unborn" => proc[t] = "unborn"
           /\ t \in Running' => t \in Running \/ proc[t] = "unborn"
<1> USE DEF TypeOK, Running
<1>1. CASE UNCHANGED proc
  BY <1>1
<1>2. ASSUME NEW u \in Terminal, StartsUp(u) \/ Exits(u)
      PROVE  /\ proc'[t] = "unborn" => proc[t] = "unborn"
             /\ t \in Running' => t \in Running \/ proc[t] = "unborn"
  BY <1>2 DEF StartsUp, Exits
<1>3. ASSUME NEW listed, List(listed) PROVE UNCHANGED proc
  BY <1>3, ListKeeps
<1>4. Refresh => UNCHANGED proc
  BY DEF Refresh, Reply
<1> QED
  BY <1>1, <1>2, <1>3, <1>4
  DEF Next, DaemonStep, TerminalStep, JobStep, LaunchStep, Sweep, WindowOpens,
      Discover, AddSessions, WatcherDies, Restart,
      ListKnown, Claim, OpenWindow, WriteMeta, ReadRecords,
      ListForRecords, SweepRecord, SweepTree, RecordsSwept, ListForWorktrees, SweepOrphan,
      WorktreesSwept, Killed, discoveryVars, vars

Acquaintance == Born /\ Mapped /\ Remembered

LEMMA BornKept ==
    ASSUME TypeOK, HistoryTypes, Born, [Next]_vars
    PROVE  Born'
<1> SUFFICES ASSUME NEW t \in Terminal, proc'[t] = "unborn"
             PROVE  Unheard(t)'
  BY DEF Born
<1>1. proc[t] = "unborn" /\ Unheard(t)
  BY ProcKept DEF Born
<1>2. session'[t] = "none" /\ t \notin found'
  BY <1>1, MapKept DEF Unheard
<1>3. t \notin Claimed'
  <2>1. CASE \E j \in Job : Claim(j)
    BY <2>1, <1>1, <1>2, ClaimKeeps DEF Unheard
  <2>2. CASE ~ \E j \in Job : Claim(j)
    BY <2>2, <1>1, ClaimsKept DEF Unheard, Claimed
  <2> QED
    BY <2>1, <2>2
<1>4. ASSUME NEW j \in Job PROVE t \notin taken'[j]
  BY <1>1, TakenKept DEF Unheard
<1> QED
  BY <1>2, <1>3, <1>4 DEF Unheard

LEMMA MappedKept ==
    ASSUME TypeOK, Born, Mapped, [Next]_vars
    PROVE  Mapped'
<1> SUFFICES ASSUME NEW t \in Terminal, t \in Claimed', t \notin lost',
                    t \in Running'
             PROVE  session'[t] # "none"
  BY DEF Mapped, Running
<1>1. lost' = lost \/ lost' = lost \cup Claimed
  BY DEF Next, DaemonStep, TerminalStep, JobStep, LaunchStep, Sweep,
         WindowOpens, ListKnown, OpenWindow, Claim, WriteMeta, ReadRecords,
         ListForRecords, SweepRecord, SweepTree, RecordsSwept, ListForWorktrees,
         SweepOrphan, WorktreesSwept, Killed, launchVars, vars
<1>2. CASE t \in Claimed
  <2>1. t \in Running
    BY <1>2, ProcKept DEF Born, Unheard
  <2>2. session[t] # "none"
    BY <1>1, <1>2, <2>1 DEF Mapped
  <2> QED
    BY <1>2, <2>1, <2>2, MapKept
<1>3. CASE t \notin Claimed
  <2>1. PICK j \in Job : Claim(j)
    BY <1>3, ClaimsKept DEF Claimed
  <2> QED
    BY <1>3, <2>1, ClaimKeeps
<1> QED
  BY <1>2, <1>3

LEMMA RememberedKept ==
    ASSUME TypeOK, HistoryTypes, Born, Mapped, Remembered, [Next]_vars
    PROVE  Remembered'
<1> SUFFICES ASSUME NEW j \in Job, NEW t \in Terminal,
                    t \in taken'[j], t \in Running'
             PROVE  t \in known'[j]
  BY DEF Remembered, Running
<1>1. CASE taken'[j] = taken[j] /\ known'[j] = known[j]
  BY <1>1, ProcKept DEF Born, Unheard, Remembered
<1>2. CASE /\ taken'[j] = Claimed \ lost
           /\ List(known'[j])
           /\ UNCHANGED <<claim, lost>>
  <2>1. t \in Running
    BY <1>2, ProcKept DEF Born, Unheard
  <2>2. session[t] # "none"
    BY <1>2, <2>1 DEF Mapped
  <2> QED
    BY <1>2, <2>1, <2>2, ListKeeps
<1> QED
  BY <1>1, <1>2, TakenKept

LEMMA AcquaintanceKept ==
    ASSUME TypeOK, HistoryTypes, Acquaintance, [Next]_vars
    PROVE  Acquaintance'
BY BornKept, MappedKept, RememberedKept DEF Acquaintance

\* A claim takes a session its launch did not know.
LEMMA NewSessionStep ==
    ASSUME TypeOK, Remembered, [Next]_vars
    PROVE  \A j \in Job :
             claim'[j] # claim[j] => claim'[j] \notin taken[j] \cap Running
<1> SUFFICES ASSUME NEW j \in Job, claim'[j] # claim[j]
             PROVE  claim'[j] \notin taken[j] \cap Running
  OBVIOUS
<1>1. PICK i \in Job : Claim(i)
  BY ClaimsKept
<1>2. PICK t \in Terminal : /\ t \notin known[i]
                            /\ claim' = [claim EXCEPT ![i] = t]
  BY <1>1, ClaimKeeps
<1>3. i = j /\ claim'[j] = t
  BY <1>2 DEF TypeOK
<1> QED
  BY <1>2, <1>3 DEF Remembered

-----------------------------------------------------------------------------
(* Records. *)

LEMMA ClaimsOnceKept ==
    ASSUME TypeOK, ClaimsOnce, [Next]_vars
    PROVE  ClaimsOnce'
<1> USE DEF TypeOK, ClaimsOnce, Goto
<1>1. CASE UNCHANGED <<pc, claim>>
  BY <1>1
<1>2. ASSUME NEW j \in Job, ListKnown(j) PROVE ClaimsOnce'
  BY <1>2 DEF ListKnown
<1>3. ASSUME NEW j \in Job, OpenWindow(j) PROVE ClaimsOnce'
  BY <1>3 DEF OpenWindow
<1>4. ASSUME NEW j \in Job, Claim(j) PROVE ClaimsOnce'
  BY <1>4 DEF Claim
<1>5. ASSUME NEW j \in Job, WriteMeta(j) PROVE ClaimsOnce'
  BY <1>5 DEF WriteMeta
<1> QED
  BY <1>1, <1>2, <1>3, <1>4, <1>5
  DEF Next, DaemonStep, TerminalStep, JobStep, LaunchStep, Sweep, WindowOpens,
      ReadRecords, ListForRecords, SweepRecord, SweepTree, RecordsSwept,
      ListForWorktrees, SweepOrphan, WorktreesSwept, Killed, launchVars, vars

LEMMA RecordsMatchKept ==
    ASSUME TypeOK, ClaimsOnce, RecordsMatch, [Next]_vars
    PROVE  RecordsMatch'
<1> USE DEF TypeOK, RecordsMatch, Goto
<1>1. CASE UNCHANGED <<pc, claim, meta>>
  BY <1>1
<1>2. ASSUME NEW j \in Job, ListKnown(j) PROVE RecordsMatch'
  BY <1>2 DEF ListKnown
<1>3. ASSUME NEW j \in Job, OpenWindow(j) PROVE RecordsMatch'
  BY <1>3 DEF OpenWindow
<1>4. ASSUME NEW j \in Job, Claim(j) PROVE RecordsMatch'
  BY <1>4 DEF Claim
<1>5. ASSUME NEW j \in Job, WriteMeta(j) PROVE RecordsMatch'
  BY <1>5 DEF WriteMeta
<1>6. CASE SweepRecord
  BY <1>6 DEF SweepRecord
<1> QED
  BY <1>1, <1>2, <1>3, <1>4, <1>5, <1>6
  DEF Next, DaemonStep, TerminalStep, JobStep, LaunchStep, Sweep, WindowOpens,
      ReadRecords, ListForRecords, SweepTree, RecordsSwept,
      ListForWorktrees, SweepOrphan, WorktreesSwept, Killed, launchVars, vars

-----------------------------------------------------------------------------
(* What a cleanup is about to delete. *)

\* A claim is never given up, and every recorded session is claimed.
LEMMA ClaimsGrow ==
    ASSUME TypeOK, ClaimsOnce, [Next]_vars
    PROVE  Claimed \subseteq Claimed'
<1>1. ASSUME NEW j \in Job, Claim(j) PROVE Claimed \subseteq Claimed'
  <2>1. claim[j] = None
    BY <1>1 DEF Claim, ClaimsOnce
  <2>2. \A i \in Job : claim[i] # None => claim'[i] = claim[i]
    BY <1>1, <2>1, ClaimKeeps DEF TypeOK
  <2> QED
    BY <2>2 DEF Claimed
<1>2. UNCHANGED claim => Claimed \subseteq Claimed'
  BY DEF Claimed
<1> QED
  BY <1>1, <1>2, ClaimsKept

LEMMA RecordedAreClaimed ==
    ASSUME TypeOK, RecordsMatch
    PROVE  Recorded \subseteq Claimed
BY LaunchAssumption DEF TypeOK, RecordsMatch, Recorded, Claimed

\* A claimed session that runs and that a LIST does not name was lost.
LEMMA UnlistedAreLost ==
    ASSUME TypeOK, Mapped, NEW listed, List(listed), NEW t \in Running \ listed,
           t \in Claimed
    PROVE  t \in lost
BY ListKeeps DEF Mapped, Running

LEMMA RecordsDoomedKept ==
    ASSUME TypeOK, Born, Mapped, ClaimsOnce, RecordsMatch, RecordsDoomed,
           [Next]_vars
    PROVE  RecordsDoomed'
<1> USE DEF RecordsDoomed
<1>1. \A t \in Terminal : t \in Running' /\ t \in Claimed => t \in Running
  BY ProcKept DEF Born, Unheard
<1>2. Running' \subseteq Terminal
  BY DEF Running
<1>3. CASE UNCHANGED <<phase, doomed, files, unsure>>
  BY <1>1, <1>2, <1>3, ClaimsGrow
<1>4. CASE ReadRecords
  BY <1>4, RecordedAreClaimed, ClaimsGrow DEF ReadRecords
<1>5. CASE ListForRecords
  <2>1. PICK listed \in SUBSET Terminal :
          List(listed) /\ files' = DeadRecords(listed)
    BY <1>5 DEF ListForRecords
  <2>2. UNCHANGED <<proc, claim, lost>> /\ unsure' = lost
    BY <1>5, <2>1, ListKeeps DEF ListForRecords
  <2>3. files' \subseteq Claimed'
    BY <2>1, ClaimsGrow DEF DeadRecords
  <2>4. ASSUME NEW t \in files', t \in Running' PROVE t \in unsure'
    BY <2>1, <2>2, <2>4, UnlistedAreLost DEF DeadRecords, Running
  <2>5. doomed' = None
    BY <1>5 DEF ListForRecords
  <2> QED
    BY <2>3, <2>4, <2>5
<1>6. ASSUME SweepRecord \/ \E t \in Terminal : SweepTree(t) PROVE RecordsDoomed'
  BY <1>1, <1>2, <1>6, ClaimsGrow DEF SweepRecord, SweepTree
<1>7. CASE RecordsSwept
  BY <1>7 DEF RecordsSwept
<1>8. CASE ListForWorktrees
  BY <1>8, ClaimsGrow DEF ListForWorktrees
<1>9. CASE WorktreesSwept \/ Killed
  BY <1>9, ClaimsGrow DEF WorktreesSwept, Killed
<1> QED
  BY <1>3, <1>4, <1>5, <1>6, <1>7, <1>8, <1>9
  DEF Next, DaemonStep, TerminalStep, JobStep, LaunchStep, Sweep, WindowOpens,
      SweepOrphan, cleanupVars, vars

\* The tree of a record changes with the record only.
LEMMA TreesKept ==
    ASSUME TypeOK, RecordsMatch, [Next]_vars, NEW t \in Terminal,
           meta'[t] = meta[t]
    PROVE  TreeOf(t)' = TreeOf(t)
<1>1. ASSUME NEW j \in Job, OpenWindow(j), meta[t] # None
      PROVE  home'[meta[t]] = home[meta[t]]
  <2>1. meta[t] # j
    BY <1>1 DEF OpenWindow, RecordsMatch
  <2> QED
    BY <1>1, <2>1 DEF OpenWindow, TypeOK
<1>2. UNCHANGED home \/ \E j \in Job : OpenWindow(j)
  BY DEF Next, DaemonStep, TerminalStep, JobStep, LaunchStep, Sweep,
         WindowOpens, ListKnown, Claim, WriteMeta, ReadRecords,
         ListForRecords, RecordsSwept, SweepRecord, SweepTree, ListForWorktrees,
         SweepOrphan, WorktreesSwept, Killed, launchVars, vars
<1> QED
  BY <1>1, <1>2 DEF TreeOf

LEMMA TreesDoomedKept ==
    ASSUME TypeOK, Born, Mapped, RecordsMatch, TreesDoomed, [Next]_vars
    PROVE  TreesDoomed'
<1> SUFFICES ASSUME phase' = "orphans", NEW t \in Terminal, t \in Running',
                    TreeOf(t)' \in dirs'
             PROVE  t \in unsure' \cup fresh'
  BY DEF TreesDoomed, Running
<1> USE DEF TypeOK
<1>1. meta[t] # None => t \in Claimed /\ t \in Running
  BY RecordedAreClaimed, ProcKept DEF Recorded, Born, Unheard
<1>2. CASE UNCHANGED meta /\ phase = "orphans" /\ dirs' \subseteq dirs
           /\ unsure \cup fresh \subseteq unsure' \cup fresh'
  <2>1. TreeOf(t) \in dirs
    BY <1>2, TreesKept
  <2>2. meta[t] # None
    BY <2>1, LaunchAssumption DEF TreeOf
  <2> QED
    BY <1>1, <1>2, <2>1, <2>2 DEF TreesDoomed
<1>3. ASSUME NEW j \in Job, JobStep(j) PROVE t \in unsure' \cup fresh'
  <2>1. phase = "orphans" /\ UNCHANGED <<dirs, unsure>> /\ fresh \subseteq fresh'
    BY <1>3 DEF JobStep
  <2>2. CASE meta'[t] = meta[t]
    <3>1. TreeOf(t) \in dirs
      BY <2>1, <2>2, TreesKept
    <3>2. meta[t] # None
      BY <3>1, LaunchAssumption DEF TreeOf
    <3> QED
      BY <1>1, <2>1, <3>1, <3>2 DEF TreesDoomed
  <2>3. CASE meta'[t] # meta[t]
    BY <1>3, <2>1, <2>3 DEF JobStep
  <2> QED
    BY <2>2, <2>3
<1>4. CASE ListForWorktrees
  <2>1. PICK listed \in SUBSET Terminal :
          List(listed) /\ dirs' = Orphans(listed)
    BY <1>4 DEF ListForWorktrees
  <2>2. UNCHANGED meta /\ unsure' = lost
    BY <1>4 DEF ListForWorktrees
  <2>3. TreeOf(t) \in dirs /\ t \notin listed
    BY <2>1, <2>2, TreesKept DEF Orphans
  <2>4. t \in Claimed /\ t \in Running
    BY <1>1, <2>3, LaunchAssumption DEF TreeOf
  <2> QED
    BY <2>1, <2>2, <2>3, <2>4, UnlistedAreLost
<1> QED
  BY <1>2, <1>3, <1>4
  DEF Next, DaemonStep, TerminalStep, Sweep, WindowOpens, ReadRecords,
      ListForRecords, RecordsSwept, SweepRecord, SweepTree, SweepOrphan, WorktreesSwept, Killed,
      launchVars, cleanupVars, vars

LEMMA RecordSparedStep ==
    ASSUME TypeOK, RecordsDoomed, [Next]_vars
    PROVE  RecordSpared
<1> SUFFICES ASSUME NEW t \in Running, meta[t] # None, meta'[t] = None
             PROVE  t \in unsure
  BY DEF RecordSpared
<1> USE DEF TypeOK, Running
<1>1. \A j \in Job : ~ WriteMeta(j)
  BY LaunchAssumption DEF WriteMeta
<1>2. SweepRecord
  BY <1>1
  DEF Next, DaemonStep, TerminalStep, JobStep, LaunchStep, Sweep, WindowOpens,
      ListKnown, Claim, OpenWindow, ReadRecords, ListForRecords, SweepTree, RecordsSwept,
      ListForWorktrees, SweepOrphan, WorktreesSwept, Killed, launchVars, vars
<1>3. doomed = t
  BY <1>2 DEF SweepRecord
<1> QED
  BY <1>2, <1>3 DEF SweepRecord, RecordsDoomed

LEMMA TreeSparedStep ==
    ASSUME TypeOK, RecordsDoomed, TreesDoomed, [Next]_vars
    PROVE  TreeSpared
<1> SUFFICES ASSUME NEW t \in Running, TreeOf(t) \in trees \ trees'
             PROVE  \/ t \in unsure
                    \/ phase = "sweeping" /\ meta'[t] = meta[t]
                    \/ phase = "orphans" /\ t \in fresh
  BY DEF TreeSpared
<1> USE DEF TypeOK, Running
<1>1. ASSUME NEW u \in Terminal, SweepTree(u)
      PROVE  phase = "sweeping" /\ meta'[t] = meta[t]
  BY <1>1 DEF SweepTree
<1>2. ASSUME NEW w \in Job, SweepOrphan(w)
      PROVE  phase = "orphans" /\ t \in unsure \cup fresh
  BY <1>2 DEF SweepOrphan, Removed, Refused, TreesDoomed
<1> QED
  BY <1>1, <1>2
  DEF Next, DaemonStep, TerminalStep, JobStep, LaunchStep, Sweep, WindowOpens,
      ListKnown, Claim, OpenWindow, WriteMeta, ReadRecords, ListForRecords,
      SweepRecord, SweepTree, RecordsSwept, ListForWorktrees, WorktreesSwept, Killed, launchVars, vars

-----------------------------------------------------------------------------

LEMMA InitIInv ==
    ASSUME Init
    PROVE  IInv
<1>1. TypeOK /\ HistoryTypes
  BY LaunchAssumption, DiscoveryAssumption
  DEF Init, TypeOK, HistoryTypes, Nowhere
<1>2. Claimed = {}
  BY DEF Init, Claimed
<1>3. Born /\ Mapped /\ Remembered
  BY <1>2 DEF Init, Born, Unheard, Mapped, Remembered, Nowhere
<1>4. ClaimsOnce /\ RecordsMatch /\ RecordsDoomed /\ TreesDoomed
  BY DEF Init, ClaimsOnce, RecordsMatch, RecordsDoomed, TreesDoomed
<1> QED
  BY <1>1, <1>3, <1>4 DEF IInv

LEMMA IInvKept ==
    ASSUME IInv, [Next]_vars
    PROVE  IInv'
BY TypesKept, AcquaintanceKept, ClaimsOnceKept, RecordsMatchKept,
   RecordsDoomedKept, TreesDoomedKept
DEF IInv, Acquaintance

LEMMA Invariance == Spec => []IInv
BY InitIInv, IInvKept, PTL DEF Spec

\* The daemon, the launches and the cleanup are well typed, for any number of
\* windows, launches and daemons.
THEOREM TypeCorrect == Spec => []TypeOK
<1>1. IInv => TypeOK
  BY DEF IInv
<1> QED
  BY <1>1, Invariance, PTL

\* waitForNewSession never takes a running session that another launch had
\* taken, from the same daemon, before this one listed the sessions.
THEOREM ClaimSafety == Spec => LaunchTakesNewSession
<1>1. IInv /\ [Next]_vars =>
        [\A j \in Job :
            claim'[j] # claim[j] => claim'[j] \notin taken[j] \cap Running]_vars
  BY NewSessionStep DEF IInv
<1> QED
  BY <1>1, Invariance, PTL DEF Spec, LaunchTakesNewSession

\* sweepLaunchMetaByLiveness and sweepOrphanWorktrees spare the sessions that
\* run, save in the cases the property names.
THEOREM SweepSafety == Spec => SweepsSpareRunning
<1>1. IInv /\ [Next]_vars => [RecordSpared /\ TreeSpared]_vars
  BY RecordSparedStep, TreeSparedStep DEF IInv
<1> QED
  BY <1>1, Invariance, PTL DEF Spec, SweepsSpareRunning

=============================================================================
