--------------------------- MODULE IdleHooksProofs ---------------------------
(***************************************************************************)
(* Proofs about IdleHooks, for any sets of hooks, sessions, notifiers and  *)
(* removers and any number of restarts.                                    *)
(***************************************************************************)
EXTENDS IdleHooks, FiniteSetTheorems, TLAPS

\* blame is only ever extended, with one of its three reasons.
LEMMA BlameType ==
    ASSUME NEW H, NEW why \in {"io", "race", "crash"},
           blame \in [Hook -> SUBSET {"io", "race", "crash"}]
    PROVE  Blame(H, why) \in [Hook -> SUBSET {"io", "race", "crash"}]
  BY DEF Blame

\* Removing a file keeps the types of the two variables it may change.
LEMMA RemoveFileType ==
    ASSUME TypeOK, NEW h \in Hook, RemoveFile(h)
    PROVE  /\ file' \in [Hook -> {"none", "torn", "whole"}]
           /\ blame' \in [Hook -> SUBSET {"io", "race", "crash"}]
<1>1. CASE OpenForWrite(h)
  BY <1>1 DEF RemoveFile, TypeOK
<1>2. CASE ~OpenForWrite(h)
  <2>1. blame' = Blame({h} \cap idleHooks, "race") \/ blame' = Blame({h}, "io")
    BY <1>2 DEF RemoveFile
  <2>2. blame' \in [Hook -> SUBSET {"io", "race", "crash"}]
    BY <2>1, BlameType DEF TypeOK
  <2>3. file' \in [Hook -> {"none", "torn", "whole"}]
    BY <1>2 DEF RemoveFile, TypeOK
  <2>. QED BY <2>2, <2>3
<1>. QED BY <1>1, <1>2

\* Every reachable state is well typed.
THEOREM TypeCorrect == Spec => []TypeOK
<1>. USE HookAssumption
<1>1. Init => TypeOK
  BY DEF Init, TypeOK, MaxShots
<1>2. TypeOK /\ [Next]_vars => TypeOK'
  <2>. SUFFICES ASSUME TypeOK, [Next]_vars PROVE TypeOK'
    OBVIOUS
  <2>1. ASSUME NEW h \in Hook, Add(h) PROVE TypeOK'
    <3>1. CASE Append(h) \/ CreateFile(h) \/ FillFile(h)
      BY <3>1 DEF TypeOK, Append, CreateFile, FillFile, historyVars
    <3>2. CASE WriteFails(h)
      BY <3>2, BlameType DEF TypeOK, WriteFails, InFlight
    <3>. QED BY <2>1, <3>1, <3>2 DEF Add
  <2>2. ASSUME NEW n \in Notifier, NEW s \in Session, CollectAndPrune(n, s) PROVE TypeOK'
    BY <2>2, BlameType DEF TypeOK, CollectAndPrune, Matching, Pruned
  <2>3. ASSUME NEW n \in Notifier, NEW h \in Hook, Unlink(n, h) PROVE TypeOK'
    BY <2>3, RemoveFileType DEF TypeOK, Unlink
  <2>4. ASSUME NEW n \in Notifier, Dispatch(n) PROVE TypeOK'
    BY <2>4 DEF TypeOK, Dispatch, Once, MaxShots
  <2>5. ASSUME NEW r \in Remover, Clear(r) \/ ListDir(r) \/ ListDirFails(r) \/ SweepDone(r)
        PROVE TypeOK'
    <3>1. CASE Clear(r)
      BY <3>1, BlameType DEF TypeOK, Clear
    <3>2. CASE ListDirFails(r)
      BY <3>2, BlameType DEF TypeOK, ListDirFails
    <3>3. CASE ListDir(r) \/ SweepDone(r)
      BY <3>3 DEF TypeOK, ListDir, SweepDone, OnDisk, historyVars
    <3>. QED BY <2>5, <3>1, <3>2, <3>3
  <2>6. ASSUME NEW r \in Remover, NEW h \in Hook, SweepFile(r, h) PROVE TypeOK'
    BY <2>6, RemoveFileType DEF TypeOK, SweepFile
  <2>7. ASSUME Restart PROVE TypeOK'
    BY <2>7, BlameType DEF TypeOK, Restart, Loadable, MaxShots
  <2>8. CASE UNCHANGED vars
    BY <2>8 DEF TypeOK, vars, daemonVars, historyVars
  <2>. QED
    BY <2>1, <2>2, <2>3, <2>4, <2>5, <2>6, <2>7, <2>8 DEF Next, Fire, Remove
<1>. QED BY <1>1, <1>2, PTL DEF Spec

\* The step half of the inductive invariant.
LEMMA FiringStep == TypeOK /\ FiringInv /\ [Next]_vars => FiringInv'
<1>. SUFFICES ASSUME TypeOK, FiringInv, [Next]_vars PROVE FiringInv'
  OBVIOUS
<1>. USE HookAssumption DEF FiringInv, NotAddedYet
<1>1. ASSUME NEW h \in Hook, Add(h) PROVE FiringInv'
  BY <1>1 DEF TypeOK, Add, Append, CreateFile, FillFile, WriteFails, InFlight, historyVars
<1>2. ASSUME NEW n \in Notifier, NEW s \in Session, CollectAndPrune(n, s) PROVE FiringInv'
  BY <1>2 DEF TypeOK, CollectAndPrune, Matching, Pruned
<1>3. ASSUME NEW n \in Notifier, NEW h \in Hook, Unlink(n, h) PROVE FiringInv'
  <2>1. h \in OneTime
    BY <1>3 DEF TypeOK, Unlink
  <2>2. h \in toFire[n]
    BY <1>3 DEF TypeOK, Unlink
  <2>3. \A k \in Hook : adding[k] = "new" => file'[k] = "none"
    BY <1>3, <2>2 DEF TypeOK, Unlink, RemoveFile
  <2>. QED BY <1>3, <2>3 DEF TypeOK, Unlink
<1>4. ASSUME NEW n \in Notifier, Dispatch(n) PROVE FiringInv'
  BY <1>4 DEF TypeOK, Dispatch, Once, MaxShots
<1>5. ASSUME NEW r \in Remover, Clear(r) \/ ListDir(r) \/ ListDirFails(r) \/ SweepDone(r)
      PROVE FiringInv'
  BY <1>5 DEF TypeOK, Clear, ListDir, ListDirFails, SweepDone, historyVars
<1>6. ASSUME NEW r \in Remover, NEW h \in Hook, SweepFile(r, h) PROVE FiringInv'
  <2>1. \A k \in Hook : adding[k] = "new" => file'[k] = "none"
    BY <1>6 DEF TypeOK, SweepFile, RemoveFile
  <2>. QED BY <1>6, <2>1 DEF TypeOK, SweepFile
<1>7. ASSUME Restart PROVE FiringInv'
  BY <1>7 DEF TypeOK, Restart, Loadable, InFlight
<1>8. CASE UNCHANGED vars
  BY <1>8 DEF vars, daemonVars, historyVars
<1>. QED
  BY <1>1, <1>2, <1>3, <1>4, <1>5, <1>6, <1>7, <1>8 DEF Next, Fire, Remove

\* However many notifications, registrations, removals and restarts interleave,
\* no one-time hook is dispatched twice by one daemon.
THEOREM OneTimeSafety == Spec => []OneTimeFiresOnce
<1>1. Init => FiringInv
  BY HookAssumption DEF Init, FiringInv, NotAddedYet
<1>2. FiringInv => OneTimeFiresOnce
  BY DEF FiringInv, OneTimeFiresOnce
<1>. QED BY <1>1, <1>2, FiringStep, TypeCorrect, PTL DEF Spec

\* The invariant under it holds as well, and is what the other proofs use.
THEOREM FiringSafety == Spec => []FiringInv
<1>1. Init => FiringInv
  BY HookAssumption DEF Init, FiringInv, NotAddedYet
<1>. QED BY <1>1, FiringStep, TypeCorrect, PTL DEF Spec

-----------------------------------------------------------------------------
(* Memory and disk.                                                        *)

\* Some call has still to remove the file of h, or to list the directory.
Doomed(h) ==
    \/ \E n \in Notifier : h \in unlinks[n]
    \/ \E r \in Remover : \/ sweep[r] = "cleared"
                          \/ sweep[r] = "sweeping" /\ h \in doomed[r]

Unhit(h) == "io" \notin blame[h] /\ "race" \notin blame[h]

\* A hook that no I/O error and no overlap has hit is in memory while it is being
\* written; after that it is in both places or in neither, or its file is doomed.
Mirrored(h) ==
    Unhit(h) =>
        /\ h \in InFlight => h \in idleHooks
        /\ adding[h] = "returned" =>
              \/ h \in idleHooks /\ file[h] = "whole"
              \/ h \notin idleHooks /\ (file[h] # "whole" \/ Doomed(h))

\* A registered hook nothing has hit leaves memory by a removal or by firing.
Leaves(h) ==
    blame[h] = {} /\ adding[h] = "returned" /\ h \notin removed /\ h \notin idleHooks =>
        h \in OneTime /\ (allShots[h] > 0 \/ \E n \in Notifier : h \in toFire[n])

\* A one-time hook nothing has hit is collected before it was ever dispatched, its
\* file is gone before it is dispatched, and then it is gone from memory too.
Spent(h) ==
    blame[h] = {} =>
        /\ h \in idleHooks => allShots[h] = 0
        /\ \A n \in Notifier : h \in toFire[n] =>
              allShots[h] = 0 /\ (h \notin unlinks[n] => file[h] # "whole")
        /\ allShots[h] > 0 =>
              /\ allShots[h] = 1 /\ adding[h] = "returned"
              /\ h \notin idleHooks /\ file[h] # "whole"

DiskInv ==
    /\ \A h \in Hook : Mirrored(h) /\ Leaves(h)
    /\ \A h \in OneTime : Spent(h)

\* Blame is never taken back, and given to all it is meant for.
LEMMA BlameGiven ==
    ASSUME TypeOK, NEW H, NEW why, blame' = Blame(H, why), NEW k \in Hook
    PROVE  blame[k] \subseteq blame'[k] /\ (k \in H => why \in blame'[k])
  BY DEF Blame, TypeOK

\* What os.Remove of the file of h does to a hook k, as far as nothing is blamed.
LEMMA RemoveFileEffect ==
    ASSUME TypeOK, NEW h \in Hook, RemoveFile(h), NEW k \in Hook
    PROVE  /\ blame[k] \subseteq blame'[k]
           /\ file'[k] \in {file[k], "none"}
           /\ k # h => file'[k] = file[k]
           /\ \/ OpenForWrite(h)
              \/ "io" \in blame'[h]
              \/ "race" \in blame'[h]
              \/ h \notin idleHooks /\ file'[h] = "none"
           /\ "race" \in blame'[k] \/ file'[k] = file[k] \/ k \notin idleHooks
<1>1. CASE OpenForWrite(h)
  BY <1>1 DEF RemoveFile
<1>2. CASE ~OpenForWrite(h) /\ file' = [file EXCEPT ![h] = "none"]
                            /\ blame' = Blame({h} \cap idleHooks, "race")
  <2>1. /\ blame[k] \subseteq blame'[k] /\ (k \in {h} \cap idleHooks => "race" \in blame'[k])
        /\ h \in {h} \cap idleHooks => "race" \in blame'[h]
    BY <1>2, BlameGiven
  <2>2. file'[h] = "none" /\ (k # h => file'[k] = file[k])
    BY <1>2 DEF TypeOK
  <2>. QED BY <2>1, <2>2
<1>3. CASE ~OpenForWrite(h) /\ blame' = Blame({h}, "io") /\ UNCHANGED file
  <2>1. blame[k] \subseteq blame'[k] /\ (h \in {h} => "io" \in blame'[h])
    BY <1>3, BlameGiven
  <2>. QED BY <1>3, <2>1
<1>. QED BY <1>1, <1>2, <1>3 DEF RemoveFile

\* The step half of the invariant that ties memory to disk.
LEMMA DiskStep == TypeOK /\ FiringInv /\ DiskInv /\ [Next]_vars => DiskInv'
<1>. SUFFICES ASSUME TypeOK, FiringInv, DiskInv, [Next]_vars, NEW k \in Hook
              PROVE  /\ Mirrored(k)' /\ Leaves(k)'
                     /\ k \in OneTime => Spent(k)'
  BY HookAssumption DEF DiskInv
<1>. USE HookAssumption
<1>0. /\ Mirrored(k) /\ Leaves(k)
      /\ k \in OneTime => Spent(k)
  BY DEF DiskInv
<1>1. ASSUME NEW h \in Hook, Append(h) \/ CreateFile(h) \/ FillFile(h)
      PROVE  Mirrored(k)' /\ Leaves(k)' /\ (k \in OneTime => Spent(k)')
  BY <1>0, <1>1 DEF TypeOK, FiringInv, NotAddedYet, Append, CreateFile, FillFile,
    historyVars, InFlight, Mirrored, Leaves, Spent, Unhit, Doomed
<1>2. ASSUME NEW h \in Hook, WriteFails(h)
      PROVE  Mirrored(k)' /\ Leaves(k)' /\ (k \in OneTime => Spent(k)')
  <2>1. blame[k] \subseteq blame'[k] /\ (k \in {h} => "io" \in blame'[k])
    BY <1>2, BlameGiven DEF WriteFails
  <2>. QED
  BY <1>0, <1>2, <2>1 DEF TypeOK, WriteFails, InFlight, Mirrored, Leaves, Spent, Unhit, Doomed
<1>3. ASSUME NEW n \in Notifier, NEW s \in Session, CollectAndPrune(n, s)
      PROVE  Mirrored(k)' /\ Leaves(k)' /\ (k \in OneTime => Spent(k)')
  <2>1. /\ blame[k] \subseteq blame'[k]
        /\ k \in Pruned(s) \cap InFlight => "race" \in blame'[k]
    BY <1>3, BlameGiven DEF CollectAndPrune
  <2>2. Mirrored(k)'
    <3>1. unlinks[n] = {} /\ unlinks'[n] = Pruned(s)
      BY <1>3 DEF TypeOK, CollectAndPrune
    <3>2. Doomed(k) \/ k \in Pruned(s) => Doomed(k)'
      BY <1>3, <3>1 DEF TypeOK, CollectAndPrune, Doomed
    <3>3. k \in Pruned(s) => k \in idleHooks /\ adding[k] # "new"
      BY DEF Pruned, Matching, FiringInv, NotAddedYet
    <3>4. /\ adding' = adding /\ file' = file
          /\ idleHooks' = idleHooks \ Pruned(s)
      BY <1>3 DEF CollectAndPrune
    <3>. QED BY <1>0, <2>1, <3>2, <3>3, <3>4 DEF TypeOK, InFlight, Mirrored, Unhit
  <2>3. Leaves(k)'
    BY <1>0, <1>3, <2>1 DEF TypeOK, CollectAndPrune, Matching, Pruned, Leaves
  <2>4. k \in OneTime => Spent(k)'
    BY <1>0, <1>3, <2>1 DEF TypeOK, CollectAndPrune, Matching, Pruned, Spent
  <2>. QED BY <2>2, <2>3, <2>4
<1>4. ASSUME NEW n \in Notifier, NEW h \in Hook, Unlink(n, h)
      PROVE  Mirrored(k)' /\ Leaves(k)' /\ (k \in OneTime => Spent(k)')
  <2>1. /\ h \in OneTime /\ h \in toFire[n] /\ h \notin idleHooks /\ adding[h] # "new"
    BY <1>4 DEF TypeOK, FiringInv, NotAddedYet, Unlink
  <2>2. RemoveFile(h)
    BY <1>4 DEF Unlink
  <2>3. /\ blame[k] \subseteq blame'[k]
        /\ file'[k] \in {file[k], "none"}
        /\ k # h => file'[k] = file[k]
        /\ \/ OpenForWrite(h)
           \/ "io" \in blame'[h]
           \/ "race" \in blame'[h]
           \/ h \notin idleHooks /\ file'[h] = "none"
        /\ "race" \in blame'[k] \/ file'[k] = file[k] \/ k \notin idleHooks
    BY <2>2, RemoveFileEffect
  <2>4. CASE k # h
    <3>1. Doomed(k) => Doomed(k)'
      BY <1>4, <2>4 DEF TypeOK, Unlink, Doomed
    <3>2. /\ idleHooks' = idleHooks /\ adding' = adding /\ toFire' = toFire
          /\ removed' = removed /\ allShots' = allShots
          /\ \A m \in Notifier : k \in unlinks[m] <=> k \in unlinks'[m]
      BY <1>4, <2>4 DEF TypeOK, Unlink
    <3>. QED BY <1>0, <2>3, <2>4, <3>1, <3>2 DEF InFlight, Mirrored, Leaves, Spent, Unhit
  <2>5. CASE k = h
    <3>1. OpenForWrite(h) => ~Unhit(h)
      BY <1>0, <2>1, <2>5 DEF OpenForWrite, Mirrored, InFlight
    <3>2. Unhit(h)' => file'[h] = "none" /\ Unhit(h) /\ adding[h] = "returned"
      BY <1>0, <2>1, <2>3, <2>5, <3>1 DEF TypeOK, Unhit, Mirrored, InFlight
    <3>3. blame'[h] = {} => Unhit(h)' /\ blame[h] = {}
      BY <2>3, <2>5 DEF Unhit
    <3>. QED
      BY <1>0, <1>4, <2>1, <2>5, <3>2, <3>3 DEF Unlink, InFlight, Mirrored, Leaves, Spent
  <2>. QED BY <2>4, <2>5
<1>5. ASSUME NEW n \in Notifier, Dispatch(n)
      PROVE  Mirrored(k)' /\ Leaves(k)' /\ (k \in OneTime => Spent(k)')
  <2>1. /\ blame' = blame /\ file' = file /\ adding' = adding /\ idleHooks' = idleHooks
        /\ unlinks' = unlinks /\ sweep' = sweep /\ doomed' = doomed /\ removed' = removed
        /\ unlinks[n] = {}
        /\ toFire' = [toFire EXCEPT ![n] = {}]
        /\ allShots'[k] = IF k \in toFire[n] THEN Once(allShots[k]) ELSE allShots[k]
    BY <1>5 DEF Dispatch
  <2>2. Mirrored(k)'
    BY <1>0, <2>1 DEF Mirrored, InFlight, Unhit, Doomed
  <2>3. CASE k \notin toFire[n]
    BY <1>0, <2>1, <2>2, <2>3 DEF TypeOK, Leaves, Spent
  <2>4. CASE k \in toFire[n]
    <3>1. allShots'[k] > 0 /\ (allShots[k] = 0 => allShots'[k] = 1)
      BY <2>1, <2>4 DEF TypeOK, Once, MaxShots
    <3>2. adding[k] # "new"
      BY <2>4 DEF FiringInv, NotAddedYet
    <3>3. k \in OneTime => k \notin idleHooks /\ (\A m \in Notifier : k \in toFire[m] => m = n)
      BY <2>4 DEF FiringInv
    <3>4. k \in OneTime /\ blame[k] = {} => adding[k] = "returned"
      BY <1>0, <3>2, <3>3 DEF TypeOK, Mirrored, Unhit, InFlight
    <3>5. Leaves(k)'
      BY <1>0, <2>1, <2>4, <3>1 DEF Leaves
    <3>6. k \in OneTime => Spent(k)'
      BY <1>0, <2>1, <2>4, <3>1, <3>3, <3>4 DEF TypeOK, Spent
    <3>. QED BY <2>2, <3>5, <3>6
  <2>. QED BY <2>3, <2>4
<1>6. ASSUME NEW r \in Remover, Clear(r)
      PROVE  Mirrored(k)' /\ Leaves(k)' /\ (k \in OneTime => Spent(k)')
  <2>1. /\ blame[k] \subseteq blame'[k]
        /\ k \in idleHooks \cap InFlight => "race" \in blame'[k]
    BY <1>6, BlameGiven DEF Clear
  <2>. QED
  BY <1>0, <1>6, <2>1 DEF TypeOK, Clear, InFlight, Mirrored, Leaves, Spent, Unhit, Doomed
<1>7. ASSUME NEW r \in Remover, ListDir(r) \/ SweepDone(r)
      PROVE  Mirrored(k)' /\ Leaves(k)' /\ (k \in OneTime => Spent(k)')
  BY <1>0, <1>7 DEF TypeOK, ListDir, SweepDone, OnDisk, historyVars, InFlight,
    Mirrored, Leaves, Spent, Unhit, Doomed
<1>8. ASSUME NEW r \in Remover, ListDirFails(r)
      PROVE  Mirrored(k)' /\ Leaves(k)' /\ (k \in OneTime => Spent(k)')
  <2>1. /\ blame[k] \subseteq blame'[k]
        /\ k \in OnDisk \cup removed => "io" \in blame'[k]
    BY <1>8, BlameGiven DEF ListDirFails
  <2>. QED
  BY <1>0, <1>8, <2>1 DEF TypeOK, ListDirFails, OnDisk, InFlight, Mirrored, Leaves, Spent,
    Unhit, Doomed
<1>9. ASSUME NEW r \in Remover, NEW h \in Hook, SweepFile(r, h)
      PROVE  Mirrored(k)' /\ Leaves(k)' /\ (k \in OneTime => Spent(k)')
  <2>1. RemoveFile(h)
    BY <1>9 DEF SweepFile
  <2>2. /\ blame[k] \subseteq blame'[k]
        /\ file'[k] \in {file[k], "none"}
        /\ k # h => file'[k] = file[k]
        /\ \/ OpenForWrite(h)
           \/ "io" \in blame'[h]
           \/ "race" \in blame'[h]
           \/ h \notin idleHooks /\ file'[h] = "none"
        /\ "race" \in blame'[k] \/ file'[k] = file[k] \/ k \notin idleHooks
    BY <2>1, RemoveFileEffect
  <2>3. CASE k # h
    <3>1. Doomed(k) => Doomed(k)'
      BY <1>9, <2>3 DEF TypeOK, SweepFile, Doomed
    <3>. QED BY <1>0, <1>9, <2>2, <2>3, <3>1 DEF SweepFile, InFlight, Mirrored, Leaves, Spent, Unhit
  <2>4. CASE k = h
    <3>1. Unhit(k)' => Unhit(k) /\ (k \in idleHooks => file'[k] = file[k])
      BY <2>2, <2>4 DEF Unhit
    <3>2. Unhit(k)' /\ k \notin idleHooks => adding[k] = "writing" \/ file'[k] = "none"
      BY <2>2, <2>4 DEF Unhit, OpenForWrite
    <3>3. /\ idleHooks' = idleHooks /\ adding' = adding /\ toFire' = toFire
          /\ removed' = removed /\ allShots' = allShots /\ unlinks' = unlinks
          /\ blame'[k] = {} => Unhit(k)' /\ blame[k] = {}
          /\ file[k] # "whole" => file'[k] # "whole"
      BY <1>9, <2>2 DEF SweepFile, Unhit
    <3>4. Mirrored(k)'
      BY <1>0, <3>1, <3>2, <3>3 DEF Mirrored, InFlight
    <3>. QED BY <1>0, <3>3, <3>4 DEF Leaves, Spent
  <2>. QED BY <2>3, <2>4
<1>10. ASSUME Restart
       PROVE  Mirrored(k)' /\ Leaves(k)' /\ (k \in OneTime => Spent(k)')
  <2>1. /\ blame[k] \subseteq blame'[k]
        /\ k \in Interrupted => "crash" \in blame'[k]
    BY <1>10, BlameGiven DEF Restart
  <2>2. Mirrored(k)'
    BY <1>10 DEF TypeOK, Restart, InFlight, Loadable, Mirrored
  <2>3. Leaves(k)'
    <3>. SUFFICES ASSUME blame'[k] = {}, adding'[k] = "returned", k \notin removed',
                         k \notin idleHooks'
                  PROVE  k \in OneTime /\ allShots[k] > 0
      BY <1>10 DEF Restart, Leaves
    <3>1. k \notin Interrupted /\ blame[k] = {} /\ Unhit(k)
      BY <2>1 DEF Unhit
    <3>2. adding[k] = "returned" /\ file[k] # "whole"
      BY <1>10, <3>1 DEF TypeOK, Restart, Interrupted, Loadable
    <3>3. \A n \in Notifier : k \notin toFire[n]
      BY <3>1 DEF Interrupted
    <3>. QED BY <1>0, <1>10, <3>1, <3>2, <3>3 DEF Restart, Mirrored, Leaves
  <2>4. k \in OneTime => Spent(k)'
    <3>. SUFFICES ASSUME k \in OneTime, blame'[k] = {} PROVE Spent(k)'
      BY DEF Spent
    <3>1. k \notin Interrupted /\ blame[k] = {}
      BY <2>1
    <3>2. /\ k \in idleHooks' => file[k] = "whole"
          /\ file' = file /\ allShots' = allShots
          /\ adding[k] = "returned" => adding'[k] = "returned"
          /\ \A m \in Notifier : k \notin toFire'[m]
          /\ file[k] = "whole" => k \in idleHooks'
      BY <1>10 DEF TypeOK, Restart, Loadable, InFlight
    <3>3. allShots[k] \in 0..MaxShots
      BY DEF TypeOK
    <3>. QED BY <1>0, <3>1, <3>2, <3>3 DEF Spent, MaxShots
  <2>. QED BY <2>2, <2>3, <2>4
<1>11. CASE UNCHANGED vars
  BY <1>0, <1>11 DEF vars, daemonVars, historyVars, InFlight, Mirrored, Leaves, Spent,
    Unhit, Doomed
<1>. QED
  BY <1>1, <1>2, <1>3, <1>4, <1>5, <1>6, <1>7, <1>8, <1>9, <1>10, <1>11
    DEF Next, Add, Fire, Remove

\* DiskInv holds of every reachable state, however the memory and the disk halves
\* of the three operations interleave and wherever a restart falls.
THEOREM DiskSafety == Spec => []DiskInv
<1>1. Init => DiskInv
  BY HookAssumption DEF Init, DiskInv, Mirrored, Leaves, Spent, InFlight
<1>. QED BY <1>1, DiskStep, TypeCorrect, FiringSafety, PTL DEF Spec

\* With no operation under way nothing is doomed, so a hook that no I/O error and
\* no overlap has hit is in memory and on disk, or in neither.
THEOREM QuietSafety == Spec => []QuietMemoryMatchesDisk
<1>1. TypeOK /\ FiringInv /\ DiskInv => QuietMemoryMatchesDisk
  <2>. SUFFICES ASSUME TypeOK, FiringInv, DiskInv, Quiet, NEW h \in Hook, Unhit(h)
                PROVE  h \in idleHooks <=> h \in Loadable
    BY DEF QuietMemoryMatchesDisk, Unhit
  <2>1. ~Doomed(h)
    BY DEF Quiet, TypeOK, Doomed
  <2>2. CASE adding[h] = "new"
    BY <2>2 DEF FiringInv, NotAddedYet, Loadable
  <2>3. CASE adding[h] # "new"
    <3>1. adding[h] = "returned"
      BY <2>3 DEF Quiet, InFlight, TypeOK
    <3>. QED BY <2>1, <3>1 DEF DiskInv, Mirrored, Loadable
  <2>. QED BY <2>2, <2>3
<1>. QED BY <1>1, TypeCorrect, FiringSafety, DiskSafety, PTL

\* A registration that returned outlives every restart until a removal or its own
\* firing ends it, disk errors and overlapping operations on the hook aside.
THEOREM SurvivalSafety == Spec => []RegisteredHookSurvives
<1>1. DiskInv => RegisteredHookSurvives
  <2>. SUFFICES ASSUME DiskInv, NEW h \in Hook, adding[h] = "returned", h \notin removed,
                       blame[h] = {}
                PROVE  \/ h \in OneTime /\ (allShots[h] > 0 \/ \E n \in Notifier : h \in toFire[n])
                       \/ h \in idleHooks /\ h \in Loadable
    BY DEF RegisteredHookSurvives
  <2>1. Mirrored(h) /\ Leaves(h) /\ Unhit(h)
    BY DEF DiskInv, Unhit
  <2>. QED BY <2>1 DEF Mirrored, Leaves, Loadable
<1>. QED BY <1>1, DiskSafety, PTL

\* A one-time hook that fired twice, in whatever number of daemon lives, was hit by
\* an I/O error, by an overlap of two operations, or by a restart inside one.
THEOREM SecondShotSafety == Spec => []SecondShotExplained
<1>1. TypeOK /\ DiskInv => SecondShotExplained
  <2>. SUFFICES ASSUME NEW h \in OneTime, Spent(h), allShots[h] > 1, allShots[h] \in 0..MaxShots
                PROVE  blame[h] # {}
    BY HookAssumption DEF TypeOK, DiskInv, SecondShotExplained
  <2>. QED BY DEF Spent, MaxShots
<1>. QED BY <1>1, TypeCorrect, DiskSafety, PTL

-----------------------------------------------------------------------------
(* The registry these hooks implement.                                     *)

Holders(h) == {n \in Notifier : h \in toFire[n]}

\* Only finitely many notifiers are at work, however many there may be.
FewAtWork == IsFiniteSet({n \in Notifier : toFire[n] # {}})

\* A step starts at most one notifier.
LEMMA FewAtWorkStep == TypeOK /\ FewAtWork /\ [Next]_vars => FewAtWork'
<1>. DEFINE Busy == {n \in Notifier : toFire[n] # {}}
<1>. SUFFICES ASSUME TypeOK, FewAtWork, [Next]_vars PROVE IsFiniteSet(Busy')
  BY DEF FewAtWork
<1>1. IsFiniteSet(Busy)
  BY DEF FewAtWork
<1>2. ASSUME NEW n \in Notifier, NEW s \in Session, CollectAndPrune(n, s)
      PROVE  Busy' \subseteq Busy \cup {n}
  BY <1>2 DEF TypeOK, CollectAndPrune
<1>3. ASSUME NEW n \in Notifier, Dispatch(n) PROVE Busy' \subseteq Busy
  BY <1>3 DEF TypeOK, Dispatch
<1>4. ASSUME Restart PROVE Busy' = {}
  BY <1>4 DEF Restart
<1>5. ASSUME UNCHANGED toFire PROVE Busy' = Busy
  BY <1>5
<1>6. \/ UNCHANGED toFire
      \/ Restart
      \/ \E n \in Notifier : Dispatch(n)
      \/ \E n \in Notifier, s \in Session : CollectAndPrune(n, s)
  BY DEF Next, Add, Append, CreateFile, FillFile, WriteFails, Fire, Unlink, Remove, Clear,
    ListDir, ListDirFails, SweepDone, SweepFile, vars, daemonVars
<1>7. Busy' = {} \/ Busy' \subseteq Busy \/ \E n \in Notifier : Busy' \subseteq Busy \cup {n}
  BY <1>2, <1>3, <1>4, <1>5, <1>6
<1>8. \A n : IsFiniteSet(Busy \cup {n})
  BY <1>1, FS_AddElement
<1>9. CASE Busy' = {}
  BY <1>9, FS_EmptySet
<1>10. CASE Busy' \subseteq Busy
  BY <1>1, <1>10, FS_Subset
<1>11. ASSUME NEW n \in Notifier, Busy' \subseteq Busy \cup {n} PROVE IsFiniteSet(Busy')
  BY <1>8, <1>11, FS_Subset
<1>. QED BY <1>7, <1>9, <1>10, <1>11

\* What a hook will have fired, from what it has fired and who still holds it.
LEMMA ChargedValue ==
    ASSUME TypeOK, FewAtWork, NEW h \in Hook
    PROVE  /\ IsFiniteSet(Holders(h)) /\ Cardinality(Holders(h)) \in Nat
           /\ Charged[h] = IF shots[h] + Cardinality(Holders(h)) < MaxShots
                           THEN shots[h] + Cardinality(Holders(h)) ELSE MaxShots
<1>1. Holders(h) \subseteq {n \in Notifier : toFire[n] # {}}
  BY DEF Holders
<1>2. IsFiniteSet(Holders(h))
  BY <1>1, FS_Subset DEF FewAtWork
<1>. QED BY <1>2, FS_CardinalityType DEF Charged, Holders

\* A notification charges each hook it collects once, at once.
LEMMA CollectCharges ==
    ASSUME TypeOK, TypeOK', FewAtWork, FewAtWork', NEW n \in Notifier, NEW s \in Session,
           CollectAndPrune(n, s)
    PROVE  Charged' = [h \in Hook |-> IF h \in Matching(s) THEN Once(Charged[h]) ELSE Charged[h]]
<1>. SUFFICES ASSUME NEW h \in Hook
              PROVE  Charged'[h] = IF h \in Matching(s) THEN Once(Charged[h]) ELSE Charged[h]
  BY DEF Charged
<1>1. shots' = shots /\ shots[h] \in Nat
  BY DEF CollectAndPrune, TypeOK, MaxShots
<1>2. CASE h \in Matching(s)
  <2>1. Holders(h)' = Holders(h) \cup {n} /\ n \notin Holders(h)
    BY <1>2 DEF CollectAndPrune, TypeOK, Holders
  <2>2. Cardinality(Holders(h)') = Cardinality(Holders(h)) + 1
    BY <2>1, ChargedValue, FS_AddElement
  <2>3. Charged'[h] = IF shots'[h] + Cardinality(Holders(h)') < MaxShots
                      THEN shots'[h] + Cardinality(Holders(h)') ELSE MaxShots
    BY DEF Charged, Holders
  <2>. QED BY <1>1, <1>2, <2>2, <2>3, ChargedValue DEF Once, MaxShots
<1>3. CASE h \notin Matching(s)
  <2>1. Holders(h)' = Holders(h)
    BY <1>3 DEF CollectAndPrune, TypeOK, Holders
  <2>. QED BY <1>1, <1>3, <2>1 DEF Charged, Holders
<1>. QED BY <1>2, <1>3

\* Dispatching moves a charge from the notifier to the hook, and changes no sum.
LEMMA DispatchCharges ==
    ASSUME TypeOK, FewAtWork, NEW n \in Notifier, Dispatch(n)
    PROVE  Charged' = Charged
<1>. SUFFICES ASSUME NEW h \in Hook PROVE Charged'[h] = Charged[h]
  BY DEF Charged
<1>1. shots[h] \in 0..MaxShots
  BY DEF TypeOK
<1>2. Charged'[h] = IF shots'[h] + Cardinality(Holders(h)') < MaxShots
                    THEN shots'[h] + Cardinality(Holders(h)') ELSE MaxShots
  BY DEF Charged, Holders
<1>3. CASE h \in toFire[n]
  <2>1. Holders(h)' = Holders(h) \ {n} /\ n \in Holders(h)
    BY <1>3 DEF Dispatch, TypeOK, Holders
  <2>2. Cardinality(Holders(h)') = Cardinality(Holders(h)) - 1
    BY <2>1, ChargedValue, FS_RemoveElement
  <2>3. Cardinality(Holders(h)) >= 1
    BY <2>1, ChargedValue, FS_EmptySet
  <2>4. shots'[h] = Once(shots[h])
    BY <1>3 DEF Dispatch
  <2>. QED BY <1>1, <1>2, <2>2, <2>3, <2>4, ChargedValue DEF Once, MaxShots
<1>4. CASE h \notin toFire[n]
  <2>1. Holders(h)' = Holders(h)
    BY <1>4 DEF Dispatch, TypeOK, Holders
  <2>. QED BY <1>2, <1>4, <2>1, ChargedValue DEF Dispatch
<1>. QED BY <1>3, <1>4

\* For any number of notifications, registrations, removals and restarts, the hooks
\* behave as a registry that collects, charges and disarms in one step.
THEOREM Refinement == Spec => RegistrySpec
<1>1. Init => Registry!Init
  <2>. SUFFICES ASSUME Init PROVE Registry!Init
    OBVIOUS
  <2>1. ASSUME NEW h \in Hook PROVE Charged[h] = 0
    <3>1. {k \in Notifier : h \in toFire[k]} = {} /\ shots[h] = 0
      BY DEF Init
    <3>. QED BY <3>1, FS_EmptySet DEF Charged, MaxShots
  <2>. QED BY <2>1 DEF Init, Registry!Init, Charged
<1>2. TypeOK /\ TypeOK' /\ FiringInv /\ FewAtWork /\ FewAtWork' /\ [Next]_vars
        => [Registry!Next]_(Registry!vars)
  <2>. SUFFICES ASSUME TypeOK, TypeOK', FiringInv, FewAtWork, FewAtWork', [Next]_vars
                PROVE  [Registry!Next]_(Registry!vars)
    OBVIOUS
  <2>1. ASSUME UNCHANGED <<shots, toFire>> PROVE Charged' = Charged
    BY <2>1 DEF Charged
  <2>2. ASSUME NEW h \in Hook, Append(h) PROVE Registry!Register(h)
    <3>1. h \notin idleHooks /\ shots[h] = 0 /\ Holders(h) = {}
      BY <2>2 DEF Append, FiringInv, NotAddedYet, Holders
    <3>2. Charged[h] = 0
      BY <3>1, ChargedValue, FS_EmptySet DEF MaxShots
    <3>. QED BY <2>1, <2>2, <3>1, <3>2 DEF Append, historyVars, Registry!Register
  <2>3. ASSUME NEW n \in Notifier, NEW s \in Session, CollectAndPrune(n, s)
        PROVE  Registry!Notify(s)
    <3>1. \A m : Registry!Once(m) = Once(m)
      BY DEF Once, MaxShots, Registry!Once, Registry!MaxShots
    <3>. QED
      BY <2>3, <3>1, CollectCharges DEF CollectAndPrune, Matching, Pruned, Registry!Notify
  <2>4. ASSUME NEW n \in Notifier, Dispatch(n) PROVE UNCHANGED Registry!vars
    BY <2>4, DispatchCharges DEF Dispatch, Registry!vars
  <2>5. ASSUME NEW r \in Remover, Clear(r) PROVE Registry!ForgetAll
    BY <2>1, <2>5 DEF Clear, Registry!ForgetAll
  <2>6. ASSUME Restart PROVE Registry!Reload
    <3>1. ASSUME NEW h \in Hook PROVE Charged'[h] = 0
      <4>1. {k \in Notifier : h \in toFire'[k]} = {} /\ shots'[h] = 0
        BY <2>6 DEF Restart
      <4>. QED BY <4>1, FS_EmptySet DEF Charged, MaxShots
    <3>2. Charged' = [h \in Hook |-> 0]
      BY <3>1 DEF Charged
    <3>. QED BY <2>6, <3>2 DEF Restart, Loadable, Registry!Reload
  <2>7. ASSUME UNCHANGED <<idleHooks, shots, toFire>> PROVE UNCHANGED Registry!vars
    BY <2>1, <2>7 DEF Registry!vars
  <2>8. \/ UNCHANGED <<idleHooks, shots, toFire>>
        \/ Restart
        \/ \E h \in Hook : Append(h)
        \/ \E r \in Remover : Clear(r)
        \/ \E n \in Notifier : Dispatch(n)
        \/ \E n \in Notifier, s \in Session : CollectAndPrune(n, s)
    BY DEF Next, Add, CreateFile, FillFile, WriteFails, Fire, Unlink, Remove,
      ListDir, ListDirFails, SweepDone, SweepFile, vars, daemonVars, historyVars
  <2>. QED BY <2>2, <2>3, <2>4, <2>5, <2>6, <2>7, <2>8 DEF Registry!Next
<1>3. Init => FewAtWork
  <2>1. Init => {n \in Notifier : toFire[n] # {}} = {}
    BY DEF Init
  <2>. QED BY <2>1, FS_EmptySet DEF FewAtWork
<1>. QED
  BY <1>1, <1>2, <1>3, FewAtWorkStep, TypeCorrect, FiringSafety, PTL
    DEF Spec, RegistrySpec, Registry!Spec
=============================================================================
