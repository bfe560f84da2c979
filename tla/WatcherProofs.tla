---------------------------- MODULE WatcherProofs ----------------------------
(***************************************************************************)
(* Proofs about Watcher, for any screens, thresholds, pipe replies and any *)
(* number of goroutines polling and reviving one session at once.          *)
(***************************************************************************)
EXTENDS Watcher, TLAPS

\* The record of w's type.
WType == [status : Statuses, last : Statuses \cup {"unknown"},
          seen : Screen \cup {NoScreen}, stable : 0..StallPolls,
          retries : 0..MaxRetries]

\* Condemning leaves the watcher's fields well typed, and what it saw alone.
LEMMA CondemnedType ==
    ASSUME w \in WType
    PROVE  /\ Condemned \in WType
           /\ Condemned.seen = w.seen
           /\ Condemned.status \in {w.status, "dead"}
  BY DEF Condemned, WType, Statuses

\* So does a failed Tail.
LEMMA FailedType ==
    ASSUME w \in WType, NEW r \in {"busy", "no_tabs", "error"}
    PROVE  /\ Failed(r) \in WType
           /\ Failed(r).seen = w.seen
           /\ Failed(r).status \in {w.status, "busy", "dead"}
<1>1. CASE r = "no_tabs"
  BY <1>1, CondemnedType DEF Failed
<1>2. CASE r = "busy"
  BY <1>2 DEF Failed, WType, Statuses
<1>3. CASE r = "error"
  <2>1. BumpRetries(w.retries) \in 0..MaxRetries
    BY WatcherAssumption DEF BumpRetries, WType
  <2>2. Failed(r) = [w EXCEPT !.retries = BumpRetries(w.retries)]
    BY <1>3 DEF Failed
  <2>. QED BY <2>1, <2>2 DEF WType
<1>. QED BY <1>1, <1>2, <1>3

\* So does an update.
LEMMA StatusOnType ==
    ASSUME TypeOK, NEW s \in Screen, NEW stable \in 0..StallPolls
    PROVE  StatusOn(s, stable) \in Statuses
  BY DEF StatusOn, TypeOK, Statuses

\* Every reachable state is well typed.
THEOREM TypeCorrect == Spec => []TypeOK
<1>. USE WatcherAssumption
<1>1. Init => TypeOK
  <2>. SUFFICES ASSUME Init PROVE TypeOK
    OBVIOUS
  <2>1. w \in [status : Statuses, last : Statuses \cup {"unknown"},
               seen : Screen \cup {NoScreen}, stable : 0..StallPolls,
               retries : 0..MaxRetries]
    BY DEF Init, Statuses
  <2>2. \E first \in Goroutine :
          pc = [g \in Goroutine |-> IF g = first THEN "loop" ELSE "free"]
    BY DEF Init
  <2>3. /\ why = [g \in Goroutine |-> "tick"]
        /\ was = [g \in Goroutine |-> "unknown"]
        /\ shot = [g \in Goroutine |-> NoScreen]
    BY DEF Init
  <2>5. queued \in 0..MaxQueued /\ streak \in 0..MaxRetries
    BY WatcherAssumption DEF Init
  <2>4. /\ tracked \in BOOLEAN /\ hung \in BOOLEAN /\ alive \in BOOLEAN /\ owed \in BOOLEAN
        /\ crossed \in BOOLEAN /\ adopted \in BOOLEAN /\ screen \in Screen /\ pipe \in Reply
        /\ note.to = "unknown"
    BY DEF Init
  <2>. HIDE WatcherAssumption
  <2>. QED BY <2>1, <2>2, <2>3, <2>4, <2>5 DEF TypeOK, Reasons
<1>2. TypeOK /\ [Next]_vars => TypeOK'
  <2>. SUFFICES ASSUME TypeOK, [Next]_vars PROVE TypeOK'
    OBVIOUS
  <2>1. ASSUME NEW g \in Goroutine, Poll(g) PROVE TypeOK'
    <3>1. CASE CheckHung(g)
      <4>1. crossed' \in BOOLEAN
        BY <3>1 DEF TypeOK, CheckHung, Others
      <4>2. /\ UNCHANGED <<queued, tracked, why, shot, terminal, note, owed, streak, adopted>>
            /\ w' \in WType /\ was' \in [Goroutine -> Statuses \cup {"unknown"}]
        BY <3>1 DEF TypeOK, CheckHung, WType, Statuses
      <4>3. PICK l \in {"tail", "announce"} : pc' = [pc EXCEPT ![g] = l]
        BY <3>1 DEF CheckHung, Goto
      <4>. QED BY <4>1, <4>2, <4>3 DEF TypeOK, WType, terminal
    <3>2. CASE AnnounceHung(g)
      <4>1. crossed' \in BOOLEAN /\ owed' \in BOOLEAN
        BY <3>2 DEF AnnounceHung, Others
      <4>. QED BY <3>2, <4>1 DEF TypeOK, AnnounceHung, Announce, Goto, watcher, terminal, Statuses
    <3>3. CASE SettleHung(g)
      BY <3>3 DEF TypeOK, SettleHung, Goto, terminal, history, Statuses
    <3>4. CASE TailOK(g)
      BY <3>4 DEF TypeOK, TailOK, Goto, terminal
    <3>5. CASE TailFails(g)
      <4>1. w \in WType
        BY DEF TypeOK, WType
      <4>2. w' \in WType
        BY <3>5, <4>1, FailedType DEF TailFails
      <4>3. streak' \in 0..MaxRetries
        BY <3>5 DEF TypeOK, TailFails, BumpRetries
      <4>4. PICK l \in {"condemn", "done"} : pc' = [pc EXCEPT ![g] = l]
        BY <3>5 DEF TailFails, Goto
      <4>. QED BY <3>5, <4>2, <4>3, <4>4 DEF TypeOK, WType, TailFails, terminal
    <3>6. CASE Update(g)
      <4> DEFINE s == shot[g]
                 stable == CASE s # w.seen -> 0
                             [] s = w.seen /\ w.status = "stalled" -> w.stable
                             [] OTHER -> BumpStable(w.stable)
      <4>1. s \in Screen /\ stable \in 0..StallPolls
        BY <3>6 DEF Update, TypeOK, BumpStable
      <4>2. StatusOn(s, stable) \in Statuses
        BY <4>1, StatusOnType
      <4>3. w' = [w EXCEPT !.status = StatusOn(s, stable), !.last = StatusOn(s, stable),
                           !.seen = s, !.stable = stable]
        BY <3>6 DEF Update, LastOn
      <4>4. note'.to \in Statuses \cup {"unknown"} /\ owed' \in BOOLEAN
        <5> HIDE DEF stable
        <5>1. note' = IF w.last # StatusOn(s, stable)
                      THEN [from |-> w.last, to |-> StatusOn(s, stable)] ELSE note
          BY <3>6 DEF Update, Announce, stable
        <5>2. owed' \in BOOLEAN
          BY <3>6 DEF Update, TypeOK
        <5>. QED BY <5>1, <5>2, <4>2 DEF TypeOK
      <4>6. crossed' \in BOOLEAN
        BY <3>6 DEF Update, TypeOK, Others
      <4>5. UNCHANGED <<queued, tracked, why, was, terminal, streak, adopted>>
            /\ shot' = [shot EXCEPT ![g] = NoScreen] /\ Goto(g, "done")
        BY <3>6 DEF Update
      <4> HIDE DEF s, stable
      <4>. QED BY <4>1, <4>2, <4>3, <4>4, <4>5, <4>6 DEF TypeOK, Goto, terminal
    <3>8. CASE Condemn(g)
      <4>1. w' \in WType
        BY <3>8, CondemnedType DEF TypeOK, WType, Condemn
      <4>. QED BY <3>8, <4>1 DEF TypeOK, WType, Condemn, Goto, terminal, history
    <3>7. CASE PollDone(g)
      BY <3>7 DEF TypeOK, PollDone, AfterPoll, Goto, watcher, terminal, history, Reasons
    <3>. QED BY <2>1, <3>1, <3>2, <3>3, <3>4, <3>5, <3>6, <3>7, <3>8 DEF Poll
  <2>2. ASSUME NEW g \in Goroutine, Run(g) PROVE TypeOK'
    BY <2>2 DEF TypeOK, Run, Tick, Serve, Goto, watcher, terminal, history, Reasons
  <2>3. ASSUME NEW g \in Goroutine, Revive(g) PROVE TypeOK'
    <3>1. CASE Collect(g) \/ CollectIPC(g)
      BY <3>1 DEF TypeOK, Collect, CollectIPC, Goto, watcher, terminal, history, Reasons
    <3>2. CASE ReviveCheck(g)
      <4>1. PICK l \in {"free", "loop", "ping"} : pc' = [pc EXCEPT ![g] = l]
        <5>1. AfterPoll(why[g]) \in {"free", "loop"}
          BY DEF AfterPoll
        <5>2. pc' = [pc EXCEPT ![g] = CASE ~tracked /\ why[g] = "refresh" -> "free"
                                        [] w.status = "dead" -> "ping"
                                        [] OTHER -> AfterPoll(why[g])]
          BY <3>2 DEF ReviveCheck, Goto
        <5>3. CASE w.status = "dead" /\ ~(~tracked /\ why[g] = "refresh")
          BY <5>2, <5>3
        <5>4. CASE w.status # "dead" /\ ~(~tracked /\ why[g] = "refresh")
          BY <5>1, <5>2, <5>4
        <5>5. CASE ~tracked /\ why[g] = "refresh" /\ w.status # "dead"
          BY <5>2, <5>5
        <5>6. CASE ~tracked /\ why[g] = "refresh" /\ w.status = "dead"
          BY <5>2, <5>6
        <5>. QED BY <5>3, <5>4, <5>5, <5>6
      <4>2. PICK y \in Reasons : why' = [why EXCEPT ![g] = y]
        BY <3>2 DEF TypeOK, ReviveCheck, Reasons
      <4>. QED BY <3>2, <4>1, <4>2 DEF TypeOK, ReviveCheck, watcher, terminal, history
    <3>3. CASE Ping(g)
      <4>1. PICK l \in {"free", "reset"} : pc' = [pc EXCEPT ![g] = l]
        BY <3>3 DEF Ping, Goto
      <4>2. PICK y \in Reasons : why' = [why EXCEPT ![g] = y]
        BY <3>3 DEF TypeOK, Ping, Reasons
      <4>. QED BY <3>3, <4>1, <4>2 DEF TypeOK, Ping, watcher, terminal, history
    <3>4. CASE ReviveReset(g)
      <4>1. w' = [w EXCEPT !.status = "active", !.stable = 0]
        BY <3>4 DEF ReviveReset
      <4>2. w \in WType /\ 0 \in 0..StallPolls /\ "active" \in Statuses
        BY WatcherAssumption DEF TypeOK, WType, Statuses
      <4>3. w' \in WType
        BY <4>1, <4>2 DEF WType
      <4>4. adopted' \in BOOLEAN
        BY <3>4 DEF ReviveReset
      <4>. QED BY <3>4, <4>3, <4>4 DEF TypeOK, WType, ReviveReset, Goto, terminal
    <3>. QED BY <2>3, <3>1, <3>2, <3>3, <3>4 DEF Revive
  <2>4. CASE Enqueue
    <3>1. queued \in 0..MaxQueued /\ queued < MaxQueued /\ queued' = queued + 1
      BY <2>4 DEF TypeOK, Enqueue
    <3>2. queued' \in 0..MaxQueued
      BY <3>1, WatcherAssumption
    <3>. QED BY <2>4, <3>2 DEF TypeOK, Enqueue, goVars, terminal, history
  <2>7. CASE Prune
    BY <2>7 DEF TypeOK, Prune, goVars, terminal, history
  <2>5. CASE Terminal
    BY <2>5 DEF TypeOK, Terminal, Repaint, HangOrRecover, PipeTurns, ProcessExits,
                watcher, goVars, history
  <2>6. CASE UNCHANGED vars
    BY <2>6 DEF TypeOK, vars, watcher, goVars, terminal, history
  <2>. QED BY <2>1, <2>2, <2>3, <2>4, <2>5, <2>6, <2>7 DEF Next
<1>. QED BY <1>1, <1>2, PTL DEF Spec

\* No interleaving of polls, requests and revivals reports a session idle while
\* the last text its watcher saw has a spinner.
THEOREM IdleSafety == Spec => []IdleMeansPrompt
<1>1. Init => IdleMeansPrompt
  BY DEF Init, IdleMeansPrompt
<1>2. TypeOK /\ IdleMeansPrompt /\ [Next]_vars => IdleMeansPrompt'
  <2>. SUFFICES ASSUME TypeOK, IdleMeansPrompt, [Next]_vars PROVE IdleMeansPrompt'
    OBVIOUS
  <2>. USE DEF IdleMeansPrompt
  <2>1. ASSUME NEW g \in Goroutine, CheckHung(g) \/ SettleHung(g) \/ TailOK(g) \/ ReviveReset(g)
        PROVE IdleMeansPrompt'
    BY <2>1 DEF TypeOK, CheckHung, SettleHung, TailOK, ReviveReset
  <2>2. ASSUME NEW g \in Goroutine, TailFails(g) PROVE IdleMeansPrompt'
    BY <2>2, FailedType DEF TypeOK, WType, TailFails
  <2>7. ASSUME NEW g \in Goroutine, Condemn(g) PROVE IdleMeansPrompt'
    BY <2>7, CondemnedType DEF TypeOK, WType, Condemn
  <2>3. ASSUME NEW g \in Goroutine, Update(g) PROVE IdleMeansPrompt'
    <3>1. PICK stable : w' = [w EXCEPT !.status = StatusOn(shot[g], stable),
                                       !.last = StatusOn(shot[g], stable),
                                       !.seen = shot[g], !.stable = stable]
      BY <2>3 DEF Update, LastOn
    <3>2. StatusOn(shot[g], stable) = "idle" => shot[g] \notin Spinner
      BY DEF StatusOn
    <3>. QED BY <3>1, <3>2 DEF TypeOK
  <2>4. ASSUME NEW g \in Goroutine,
               AnnounceHung(g) \/ PollDone(g) \/ Run(g) \/ Collect(g) \/ CollectIPC(g)
                 \/ ReviveCheck(g) \/ Ping(g)
        PROVE IdleMeansPrompt'
    BY <2>4 DEF AnnounceHung, PollDone, Run, Tick, Serve, Collect, CollectIPC,
                ReviveCheck, Ping, watcher
  <2>5. CASE Enqueue \/ Prune \/ Terminal
    BY <2>5 DEF Enqueue, Prune, Terminal, Repaint, HangOrRecover, PipeTurns,
                ProcessExits, watcher
  <2>6. CASE UNCHANGED vars
    BY <2>6 DEF vars, watcher
  <2>. QED BY <2>1, <2>2, <2>3, <2>4, <2>5, <2>6, <2>7 DEF Next, Poll, Revive
<1>. QED BY <1>1, <1>2, TypeCorrect, PTL DEF Spec

\* Where a goroutine is polling the session, or about to.
InPoll == {"loop", "probe", "announce", "settle", "tail", "condemn", "update", "done"}

\* A SEND or SHOW that polls has revived the session.
CallersAdopt ==
    \A g \in Goroutine : pc[g] \in InPoll /\ why[g] = "ipc" => adopted

\* A session that is not dead, and that no SEND or SHOW ever revived, has a
\* goroutine that polls it, however polls, requests and revivals interleave.
THEOREM LiveSafety == Spec => []LiveSessionHasRunner
<1> DEFINE Inv == CallersAdopt /\ LiveSessionHasRunner
<1>1. Init => Inv
  <2>. SUFFICES ASSUME Init PROVE Inv
    OBVIOUS
  <2>1. PICK first \in Goroutine :
          pc = [g \in Goroutine |-> IF g = first THEN "loop" ELSE "free"]
    BY DEF Init
  <2>2. why = [g \in Goroutine |-> "tick"]
    BY DEF Init
  <2>3. Carries(first) /\ CallersAdopt
    BY <2>1, <2>2 DEF Carries, CallersAdopt
  <2>. QED BY <2>3 DEF LiveSessionHasRunner
<1>2. TypeOK /\ Inv /\ [Next]_vars => Inv'
  <2>. SUFFICES ASSUME TypeOK, Inv, [Next]_vars PROVE Inv'
    OBVIOUS
  <2>. USE DEF InPoll
  \* A goroutine that moves inside poll, or into it, carries the session itself,
  \* unless it is a SEND or SHOW.
  <2>1. ASSUME NEW g \in Goroutine, NEW l \in InPoll, pc' = [pc EXCEPT ![g] = l],
               why' = why, adopted => adopted',
               pc[g] \in InPoll \/ why[g] # "ipc" \/ adopted'
        PROVE  Inv'
    <3>1. CallersAdopt'
      BY <2>1 DEF CallersAdopt, TypeOK
    <3>2. CASE why[g] = "ipc"
      BY <2>1, <3>1, <3>2 DEF CallersAdopt, LiveSessionHasRunner
    <3>3. CASE why[g] # "ipc"
      <4>1. Carries(g)'
        BY <2>1, <3>3 DEF Carries, TypeOK
      <4>. QED BY <3>1, <4>1 DEF LiveSessionHasRunner
    <3>. QED BY <3>2, <3>3
  \* One that moves outside it, w unchanged, carried nothing before.
  <2>2. ASSUME NEW g \in Goroutine, pc[g] \notin InPoll,
               NEW l, pc' = [pc EXCEPT ![g] = l],
               NEW y, why' = [why EXCEPT ![g] = y], l \in InPoll => y # "ipc",
               w' = w, tracked' = tracked, adopted' = adopted
        PROVE  Inv'
    <3>1. CallersAdopt'
      BY <2>2 DEF CallersAdopt, TypeOK
    <3>2. ASSUME NEW h \in Goroutine, Carries(h) PROVE Carries(h)'
      BY <2>2, <3>2 DEF Carries, TypeOK
    <3>. QED BY <2>2, <3>1, <3>2 DEF LiveSessionHasRunner
  <2>3. ASSUME NEW g \in Goroutine, Poll(g) PROVE Inv'
    <3>0. CASE \/ CheckHung(g) \/ AnnounceHung(g) \/ SettleHung(g) \/ TailOK(g)
               \/ TailFails(g) \/ Condemn(g) \/ Update(g)
      <4>1. \E l \in InPoll : pc' = [pc EXCEPT ![g] = l]
        BY <3>0 DEF CheckHung, AnnounceHung, SettleHung, TailOK, TailFails, Condemn,
                    Update, Goto
      <4>2. why' = why /\ adopted' = adopted /\ pc[g] \in InPoll
        BY <3>0 DEF CheckHung, AnnounceHung, SettleHung, TailOK, TailFails, Condemn,
                    Update, history
      <4>. QED BY <2>1, <4>1, <4>2
    <3>4. CASE PollDone(g)
      <4>1. /\ pc' = [pc EXCEPT ![g] = AfterPoll(why[g])]
            /\ why' = [why EXCEPT ![g] = "tick"]
            /\ w' = w
            /\ adopted' = adopted
            /\ pc[g] = "done"
        BY <3>4 DEF PollDone, Goto, watcher, history
      <4>2. CallersAdopt'
        BY <4>1 DEF CallersAdopt, TypeOK
      <4>3. w.status = "dead" \/ AfterPoll(why[g]) = "loop" \/ adopted
        BY <4>1 DEF AfterPoll, CallersAdopt, TypeOK, Reasons
      <4>4. CASE w.status = "dead" \/ adopted
        BY <4>1, <4>2, <4>4 DEF LiveSessionHasRunner
      <4>5. CASE AfterPoll(why[g]) = "loop"
        <5>1. Carries(g)'
          BY <4>1, <4>5 DEF Carries, TypeOK
        <5>. QED BY <4>2, <5>1 DEF LiveSessionHasRunner
      <4>. QED BY <4>3, <4>4, <4>5
    <3>. QED BY <2>3, <3>0, <3>4 DEF Poll
  <2>4. ASSUME NEW g \in Goroutine, Run(g) PROVE Inv'
    <3>1. pc[g] = "loop" /\ w' = w /\ tracked' = tracked /\ adopted' = adopted
      BY <2>4 DEF Run, Tick, Serve, watcher, history
    <3>2. PICK l \in InPoll : pc' = [pc EXCEPT ![g] = l]
      BY <2>4, <3>1 DEF Run, Tick, Serve, Goto, TypeOK
    <3>3. PICK y \in {"tick", "send", "show", why[g]} : why' = [why EXCEPT ![g] = y]
      BY <2>4 DEF Run, Tick, Serve, TypeOK
    <3>4. CallersAdopt'
      BY <3>1, <3>2, <3>3 DEF CallersAdopt, TypeOK
    <3>5. CASE y = "ipc"
      BY <3>1, <3>3, <3>4, <3>5 DEF CallersAdopt, LiveSessionHasRunner
    <3>6. CASE y # "ipc"
      <4>1. Carries(g)'
        BY <3>2, <3>3, <3>6 DEF Carries, TypeOK
      <4>. QED BY <3>4, <4>1 DEF LiveSessionHasRunner
    <3>. QED BY <3>5, <3>6
  <2>5. ASSUME NEW g \in Goroutine, Revive(g) PROVE Inv'
    <3>1. CASE Collect(g) \/ CollectIPC(g)
      BY <2>2, <3>1 DEF Collect, CollectIPC, Goto, watcher, history
    <3>3. CASE ReviveCheck(g)
      <4>1. PICK l : pc' = [pc EXCEPT ![g] = l]
        BY <3>3 DEF ReviveCheck, Goto
      <4>2. why' = [why EXCEPT ![g] = IF l = "ping" THEN @ ELSE "tick"]
        BY <3>3, <4>1 DEF ReviveCheck, TypeOK
      <4>. QED BY <2>2, <3>3, <4>1, <4>2 DEF ReviveCheck, watcher, history
    <3>4. CASE Ping(g)
      <4>1. PICK l : l \notin InPoll /\ pc' = [pc EXCEPT ![g] = l]
        BY <3>4 DEF Ping, Goto
      <4>2. PICK y : why' = [why EXCEPT ![g] = y]
        BY <3>4 DEF Ping
      <4>. QED BY <2>2, <3>4, <4>1, <4>2 DEF Ping, watcher, history
    <3>5. CASE ReviveReset(g)
      BY <2>1, <3>5 DEF ReviveReset, Goto
    <3>. QED BY <2>5, <3>1, <3>3, <3>4, <3>5 DEF Revive
  <2>6. CASE Prune
    BY <2>6 DEF Prune, CallersAdopt, LiveSessionHasRunner, goVars, history
  <2>7. CASE Enqueue \/ Terminal \/ UNCHANGED vars
    <3>1. UNCHANGED <<w, tracked, pc, why, adopted>>
      BY <2>7 DEF Enqueue, Terminal, Repaint, HangOrRecover, PipeTurns, ProcessExits,
                  vars, watcher, goVars, history
    <3>. QED BY <3>1 DEF CallersAdopt, LiveSessionHasRunner, Carries
  <2>. QED BY <2>3, <2>4, <2>5, <2>6, <2>7 DEF Next
<1>. QED BY <1>1, <1>2, TypeCorrect, PTL DEF Spec

-----------------------------------------------------------------------------
(* The status machine, step by step.                                       *)

\* What updateContent does to the watcher, from the screen that g has read.
LEMMA UpdateEffect ==
    ASSUME TypeOK, NEW g \in Goroutine, Update(g)
    PROVE  /\ w'.last = w'.status /\ w'.seen = shot[g] /\ w'.retries = w.retries
           /\ shot[g] \in Screen /\ pc[g] = "update"
           /\ w'.status \in {"active", "idle", "stalled", w.status}
           /\ shot[g] # w.seen => w'.status = "active"
           /\ shot[g] = w.seen /\ w.status = "stalled" =>
                 w'.status = "stalled" \/ (w'.status = "idle" /\ ~hung /\ shot[g] \notin Spinner)
           /\ w.last # w'.status => note'.from = w.last /\ note'.to = w'.status
           /\ w.last = w'.status => note' = note
           /\ w.last # w'.status /\ HooksFire(w.last, w'.status) => ~owed'
           /\ owed' => owed \/ shot[g] # w.seen
           /\ pc' = [pc EXCEPT ![g] = "done"]
<1> DEFINE s == shot[g]
           stable == CASE s # w.seen -> 0
                       [] s = w.seen /\ w.status = "stalled" -> w.stable
                       [] OTHER -> BumpStable(w.stable)
<1>1. /\ w' = [w EXCEPT !.status = StatusOn(s, stable), !.last = StatusOn(s, stable),
                        !.seen = s, !.stable = stable]
      /\ Announce(w.last, StatusOn(s, stable))
      /\ owed' = IF w.last # StatusOn(s, stable) /\ HooksFire(w.last, StatusOn(s, stable))
                 THEN FALSE ELSE owed \/ s # w.seen
      /\ pc[g] = "update" /\ pc' = [pc EXCEPT ![g] = "done"]
  BY DEF Update, LastOn, Goto
<1>. HIDE DEF stable
<1>2. w'.status = StatusOn(s, stable) /\ w'.last = StatusOn(s, stable) /\ w'.seen = s
      /\ w'.retries = w.retries
  BY <1>1 DEF TypeOK
<1>3. /\ StatusOn(s, stable) \in {"active", "idle", "stalled", w.status}
      /\ s # w.seen => StatusOn(s, stable) = "active"
      /\ s = w.seen /\ w.status = "stalled" =>
            \/ StatusOn(s, stable) = "stalled"
            \/ StatusOn(s, stable) = "idle" /\ ~hung /\ s \notin Spinner
  BY DEF StatusOn
<1>4. s \in Screen
  BY <1>1 DEF TypeOK
<1>5. /\ w.last # w'.status => note'.from = w.last /\ note'.to = w'.status
      /\ w.last = w'.status => note' = note
  BY <1>1, <1>2 DEF Announce
<1>6. /\ w.last # w'.status /\ HooksFire(w.last, w'.status) => ~owed'
      /\ owed' => owed \/ shot[g] # w.seen
  BY <1>1, <1>2
<1>. QED BY <1>1, <1>2, <1>3, <1>4, <1>5, <1>6

\* What an update tells of a crossing: it starts one when it falls into a hung
\* notification, and ends one when it does not and leaves nothing owed.
LEMMA UpdateCrossing ==
    ASSUME TypeOK, NEW g \in Goroutine, Update(g)
    PROVE  /\ Others(g) => crossed'
           /\ ~crossed' /\ crossed => w.last # w'.status /\ ~owed'
<1>1. PICK to : /\ w'.status = to
                /\ crossed' = IF w.last # to /\ ~Others(g) THEN crossed /\ owed'
                              ELSE crossed \/ Others(g)
  BY DEF Update, TypeOK
<1>. QED BY <1>1

\* The steps that can change the status, what was seen, the error counts, the
\* notification or who is in a hung notification: no other step does.
Moves(g) ==
    \/ CheckHung(g) \/ AnnounceHung(g) \/ SettleHung(g) \/ TailOK(g) \/ TailFails(g)
    \/ Condemn(g) \/ Update(g) \/ ReviveReset(g)

LEMMA MovesOrNot ==
    ASSUME [Next]_vars
    PROVE  UNCHANGED <<w, was, note, owed, streak, crossed>> \/ \E g \in Goroutine : Moves(g)
  BY DEF Next, Poll, PollDone, Run, Tick, Serve, Revive, Collect, CollectIPC, ReviveCheck,
    Ping, Enqueue, Prune, Terminal, Repaint, HangOrRecover, PipeTurns, ProcessExits,
    Moves, vars, watcher, goVars, history

\* For any number of goroutines, a stall clears on real progress or because a
\* Revive that had found the session dead resets it.
THEOREM StallSafety == Spec => StallIsSticky
<1>1. TypeOK /\ [Next]_vars =>
        [w.status = "stalled" /\ w'.status # "stalled" =>
            w'.seen # w.seen \/ (~hung /\ w'.seen \notin Spinner) \/ Resurrected]_vars
  <2>. SUFFICES ASSUME TypeOK, [Next]_vars, w.status = "stalled", w'.status # "stalled"
                PROVE  w'.seen # w.seen \/ (~hung /\ w'.seen \notin Spinner) \/ Resurrected
    OBVIOUS
  <2>1. PICK g \in Goroutine : Moves(g)
    BY MovesOrNot
  <2>2. ~(CheckHung(g) \/ AnnounceHung(g) \/ SettleHung(g) \/ TailOK(g))
    BY DEF TypeOK, CheckHung, AnnounceHung, SettleHung, TailOK, watcher
  <2>3. ~(TailFails(g) \/ Condemn(g))
    BY DEF TypeOK, TailFails, Failed, Condemn, Condemned
  <2>4. CASE Update(g)
    BY <2>4, UpdateEffect
  <2>5. CASE ReviveReset(g)
    BY <2>5 DEF TypeOK, ReviveReset, Goto, Resurrected
  <2>. QED BY <2>1, <2>2, <2>3, <2>4, <2>5 DEF Moves
<1>. QED BY <1>1, TypeCorrect, PTL DEF Spec, StallIsSticky

-----------------------------------------------------------------------------
(* The count of errors.                                                    *)

\* deadRetries counts the errors since the last good answer, whoever polls.
StreakCounted == w.retries = streak

\* Every step keeps the two counts together.
LEMMA StreakStep == TypeOK /\ StreakCounted /\ [Next]_vars => StreakCounted'
<1>. SUFFICES ASSUME TypeOK, StreakCounted, [Next]_vars PROVE StreakCounted'
  OBVIOUS
<1>. USE DEF StreakCounted
<1>1. CASE UNCHANGED <<w, was, note, owed, streak, crossed>>
  BY <1>1
<1>2. ASSUME NEW g \in Goroutine, Moves(g) PROVE StreakCounted'
  <2>1. CASE CheckHung(g) \/ AnnounceHung(g) \/ SettleHung(g) \/ TailOK(g) \/ ReviveReset(g)
    BY <2>1 DEF TypeOK, CheckHung, AnnounceHung, SettleHung, TailOK, ReviveReset, watcher, history
  <2>2. CASE TailFails(g)
    <3>1. PICK r \in {"busy", "no_tabs", "error"} :
            /\ w' = Failed(r)
            /\ streak' = IF r = "error" THEN BumpRetries(streak) ELSE streak
      BY <2>2 DEF TailFails
    <3>. QED BY <3>1 DEF TypeOK, Failed, Condemned
  <2>3. CASE Condemn(g)
    BY <2>3 DEF TypeOK, Condemn, Condemned, history
  <2>4. CASE Update(g)
    BY <2>4, UpdateEffect DEF Update
  <2>. QED BY <1>2, <2>1, <2>2, <2>3, <2>4 DEF Moves
<1>. QED BY <1>1, <1>2, MovesOrNot

\* For any number of goroutines, a session dies only of NO_TABS or at the hands of one
\* that has counted MaxRetries errors in a row; a good answer that another goroutine
\* has had since does not stop that one.
THEOREM DeathSafety == Spec => DeathNeedsEvidence
<1> DEFINE Dies == w.status # "dead" /\ w'.status = "dead" =>
                      (alive /\ pipe = "no_tabs") \/ \E g \in Goroutine : pc[g] = "condemn"
           Counts == \A g \in Goroutine :
                        pc[g] # "condemn" /\ pc'[g] = "condemn" => streak' >= MaxRetries
<1>1. TypeOK /\ [Next]_vars => Dies
  <2>. SUFFICES ASSUME TypeOK, [Next]_vars, w.status # "dead", w'.status = "dead"
                PROVE  (alive /\ pipe = "no_tabs") \/ \E g \in Goroutine : pc[g] = "condemn"
    OBVIOUS
  <2>1. PICK g \in Goroutine : Moves(g)
    BY MovesOrNot
  <2>2. CASE TailFails(g)
    <3>1. PICK r \in {"busy", "no_tabs", "error"} : Answers(r) /\ w' = Failed(r)
      BY <2>2 DEF TailFails
    <3>2. r = "no_tabs"
      BY <3>1 DEF TypeOK, Failed
    <3>. QED BY <3>1, <3>2 DEF Answers
  <2>3. ~(CheckHung(g) \/ AnnounceHung(g) \/ SettleHung(g) \/ TailOK(g) \/ ReviveReset(g))
    BY DEF TypeOK, CheckHung, AnnounceHung, SettleHung, TailOK, ReviveReset, watcher
  <2>4. ~Update(g)
    BY UpdateEffect
  <2>5. CASE Condemn(g)
    BY <2>5 DEF Condemn
  <2>. QED BY <2>1, <2>2, <2>3, <2>4, <2>5 DEF Moves
<1>2. TypeOK /\ StreakCounted /\ [Next]_vars => Counts
  <2>. SUFFICES ASSUME TypeOK, StreakCounted, [Next]_vars, NEW g \in Goroutine,
                       pc[g] # "condemn", pc'[g] = "condemn"
                PROVE  streak' >= MaxRetries
    OBVIOUS
  <2>1. ASSUME NEW h \in Goroutine, NEW l, l # "condemn", pc' = [pc EXCEPT ![h] = l]
        PROVE  FALSE
    BY <2>1 DEF TypeOK
  <2>2. ASSUME NEW h \in Goroutine, TailFails(h) PROVE streak' >= MaxRetries
    <3>1. PICK r \in {"busy", "no_tabs", "error"} :
            pc' = [pc EXCEPT ![h] = IF r = "error" /\ w'.retries >= MaxRetries
                                    THEN "condemn" ELSE "done"]
      BY <2>2 DEF TailFails, Goto
    <3>2. w'.retries >= MaxRetries
      BY <3>1 DEF TypeOK
    <3>. QED BY <3>2, StreakStep DEF StreakCounted
  <2>3. ASSUME NEW h \in Goroutine, Poll(h), ~TailFails(h) PROVE FALSE
    <3>1. CASE PollDone(h)
      BY <2>1, <3>1 DEF PollDone, AfterPoll, Goto
    <3>2. CASE CheckHung(h) \/ AnnounceHung(h) \/ SettleHung(h) \/ TailOK(h) \/ Condemn(h)
                 \/ Update(h)
      <4>1. PICK l \in InPoll \ {"condemn"} : pc' = [pc EXCEPT ![h] = l]
        BY <3>2 DEF CheckHung, AnnounceHung, SettleHung, TailOK, Condemn, Update, Goto, InPoll
      <4>. QED BY <2>1, <4>1
    <3>. QED BY <2>3, <3>1, <3>2 DEF Poll
  <2>4. ASSUME NEW h \in Goroutine, Run(h) PROVE FALSE
    BY <2>1, <2>4 DEF Run, Tick, Serve, Goto
  <2>5. ASSUME NEW h \in Goroutine, Revive(h) PROVE FALSE
    <3>1. CASE ReviveCheck(h) \/ Ping(h)
      <4>1. PICK l \in {"free", "loop", "ping", "reset"} : pc' = [pc EXCEPT ![h] = l]
        BY <3>1 DEF ReviveCheck, Ping, AfterPoll, Goto
      <4>. QED BY <2>1, <4>1
    <3>2. CASE Collect(h) \/ CollectIPC(h) \/ ReviveReset(h)
      BY <2>1, <3>2 DEF Collect, CollectIPC, ReviveReset, Goto
    <3>. QED BY <2>5, <3>1, <3>2 DEF Revive
  <2>6. ~(Enqueue \/ Prune \/ Terminal \/ UNCHANGED vars)
    BY DEF Enqueue, Prune, Terminal, Repaint, HangOrRecover, PipeTurns, ProcessExits,
      vars, goVars
  <2>. QED BY <2>2, <2>3, <2>4, <2>5, <2>6 DEF Next
<1>3. TypeOK /\ StreakCounted /\ [Next]_vars => [Dies /\ Counts]_vars
  BY <1>1, <1>2
<1>4. Init => StreakCounted
  BY DEF Init, StreakCounted
<1>. QED BY <1>3, <1>4, StreakStep, TypeCorrect, PTL DEF Spec, DeathNeedsEvidence

-----------------------------------------------------------------------------
(* Hung notifications, and what is owed while nobody crosses in one.       *)

\* Inside a hung notification: lastStatus read, and not yet written.
Hung == {"announce", "settle"}

\* Without a crossing one goroutine at most is in a hung notification, lastStatus
\* is the status last notified except while that one has yet to write it, and a
\* change nobody announced was swallowed by a notification from busy or dead.
Straight ==
    /\ \A g, h \in Goroutine : pc[g] \in Hung /\ pc[h] \in Hung => g = h
    /\ (\A g \in Goroutine : pc[g] # "settle") => w.last = note.to
    /\ \A g \in Goroutine :
        /\ pc[g] = "announce" => was[g] = w.last
        /\ pc[g] = "settle" => note.to = "stalled" /\ ~owed
    /\ w.status = "idle" => w.last = "idle" \/ ~owed
    /\ w.last = "stalled" => ~owed
    /\ w.last = "idle" /\ owed => note.from \in {"busy", "dead"}

\* With it, what holds of any interleaving.
ChainInv ==
    /\ ~crossed => Straight
    /\ w.seen # NoScreen => w.last # "unknown"
    /\ \A g \in Goroutine : pc[g] = "announce" => was[g] # "stalled"

\* A step of a goroutine outside a hung notification, which stays outside and
\* leaves lastStatus and the notification alone.
LEMMA OutsideStep ==
    ASSUME TypeOK, ChainInv, NEW g \in Goroutine, pc[g] \notin Hung,
           NEW l, l \notin Hung, pc' = [pc EXCEPT ![g] = l],
           UNCHANGED <<was, note, owed, crossed>>,
           w'.last = w.last, w'.seen = w.seen, w'.status = "idle" => w.status = "idle"
    PROVE  ChainInv'
<1>1. \A h \in Goroutine : pc'[h] \in Hung => pc[h] = pc'[h]
  BY DEF TypeOK
<1>2. (\A h \in Goroutine : pc'[h] # "settle") => (\A h \in Goroutine : pc[h] # "settle")
  BY DEF TypeOK, Hung
<1>3. ~crossed' => ~crossed /\ (owed <=> owed')
  OBVIOUS
<1>4. ASSUME Straight, ~crossed PROVE Straight'
  BY <1>1, <1>2, <1>4 DEF Straight, Hung
<1>. QED BY <1>1, <1>3, <1>4 DEF ChainInv, Hung

\* A goroutine that enters a hung notification starts a crossing when it is not
\* the only one in it.
LEMMA CheckHungStep ==
    ASSUME TypeOK, ChainInv, NEW g \in Goroutine, CheckHung(g)
    PROVE  ChainInv'
<1>1. /\ UNCHANGED <<note, owed>> /\ w'.last = w.last /\ w'.seen = w.seen
      /\ w'.status \in {w.status, "stalled"} /\ pc[g] = "probe"
  BY DEF TypeOK, CheckHung
<1>2. CASE pc' = [pc EXCEPT ![g] = "tail"]
  <2>1. pc'[g] = "tail"
    BY <1>2 DEF TypeOK
  <2>2. UNCHANGED <<was, crossed>>
    BY <2>1 DEF TypeOK, CheckHung, Goto
  <2>. QED BY <1>1, <1>2, <2>2, OutsideStep DEF Hung
<1>3. CASE pc' # [pc EXCEPT ![g] = "tail"]
  <2>1. /\ pc' = [pc EXCEPT ![g] = "announce"] /\ was' = [was EXCEPT ![g] = w.last]
        /\ w.last # "stalled"
    BY <1>3 DEF CheckHung, Goto
  <2>2. crossed' = (crossed \/ Others(g))
    BY <1>3 DEF CheckHung, Goto
  <2>3. \A h \in Goroutine : h # g => pc'[h] = pc[h] /\ was'[h] = was[h]
    BY <2>1 DEF TypeOK
  <2>4. pc'[g] = "announce" /\ was'[g] = w.last
    BY <2>1 DEF TypeOK
  <2>5. ASSUME ~crossed' PROVE Straight'
    <3>1. ~crossed /\ ~Others(g)
      BY <2>2, <2>5
    <3>2. Straight
      BY <3>1 DEF ChainInv
    <3>3. \A h \in Goroutine : h # g => pc[h] \notin Hung
      BY <3>1 DEF Others, Hung
    <3>. QED BY <1>1, <2>3, <2>4, <3>2, <3>3 DEF Straight, Hung
  <2>. QED BY <1>1, <2>1, <2>3, <2>4, <2>5 DEF ChainInv
<1>. QED BY <1>2, <1>3

\* The notification of a goroutine that is alone in it is what lastStatus will say.
LEMMA AnnounceStep ==
    ASSUME TypeOK, ChainInv, NEW g \in Goroutine, AnnounceHung(g)
    PROVE  ChainInv'
<1>1. /\ pc[g] = "announce" /\ w' = w /\ was' = was /\ ~owed'
      /\ pc' = [pc EXCEPT ![g] = "settle"]
  BY DEF AnnounceHung, Goto, watcher
<1>2. crossed' = Others(g)
  BY DEF AnnounceHung
<1>3. was[g] # "stalled"
  BY <1>1 DEF ChainInv
<1>4. note'.to = "stalled"
  BY <1>3 DEF AnnounceHung, Announce
<1>5. pc'[g] = "settle" /\ \A h \in Goroutine : h # g => pc'[h] = pc[h]
  BY <1>1 DEF TypeOK
<1>6. ASSUME ~crossed' PROVE Straight'
  <2>1. \A h \in Goroutine : h # g => pc[h] \notin Hung
    BY <1>2, <1>6 DEF Others, Hung
  <2>. QED BY <1>1, <1>4, <1>5, <2>1 DEF Straight, Hung
<1>. QED BY <1>1, <1>5, <1>6 DEF ChainInv

\* lastStatus catches up with the notification.
LEMMA SettleStep ==
    ASSUME TypeOK, ChainInv, NEW g \in Goroutine, SettleHung(g)
    PROVE  ChainInv'
<1>1. /\ pc[g] = "settle" /\ pc' = [pc EXCEPT ![g] = "tail"]
      /\ was' = [was EXCEPT ![g] = "unknown"]
      /\ UNCHANGED <<note, owed, crossed>>
      /\ w'.last = "stalled" /\ w'.seen = w.seen /\ w'.status = w.status
  BY DEF TypeOK, SettleHung, Goto, history
<1>2. /\ pc'[g] = "tail"
      /\ \A h \in Goroutine : h # g => pc'[h] = pc[h] /\ was'[h] = was[h]
  BY <1>1 DEF TypeOK
<1>3. ASSUME ~crossed, Straight PROVE Straight'
  <2>1. \A h \in Goroutine : h # g => pc[h] \notin Hung
    BY <1>1, <1>3 DEF Straight, Hung
  <2>2. note.to = "stalled" /\ ~owed
    BY <1>1, <1>3 DEF Straight
  <2>3. note'.to = "stalled" /\ ~owed'
    BY <1>1, <2>2
  <2>4. \A h \in Goroutine : pc'[h] \notin Hung
    BY <1>2, <2>1 DEF Hung
  <2>. QED BY <1>1, <2>3, <2>4 DEF Straight, Hung
<1>4. ~crossed' => ~crossed
  BY <1>1
<1>. QED BY <1>1, <1>2, <1>3, <1>4 DEF ChainInv

\* An update outside every hung notification links its own to the last one.
LEMMA UpdateStep ==
    ASSUME TypeOK, ChainInv, NEW g \in Goroutine, Update(g)
    PROVE  ChainInv'
<1>1. /\ w'.last = w'.status /\ w'.seen = shot[g] /\ shot[g] # NoScreen
      /\ w'.status \in {"active", "idle", "stalled", w.status}
      /\ shot[g] # w.seen => w'.status = "active"
      /\ w.last # w'.status => note'.from = w.last /\ note'.to = w'.status
      /\ w.last = w'.status => note' = note
      /\ w.last # w'.status /\ HooksFire(w.last, w'.status) => ~owed'
      /\ owed' => owed \/ shot[g] # w.seen
  BY UpdateEffect, WatcherAssumption
<1>2. was' = was /\ pc[g] = "update" /\ pc' = [pc EXCEPT ![g] = "done"]
  BY DEF Update, Goto
<1>3. \A h \in Goroutine : pc'[h] \in Hung => pc[h] = pc'[h] /\ h # g
  BY <1>2 DEF TypeOK, Hung
<1>4. w'.last # "unknown"
  BY <1>1 DEF TypeOK, Statuses
<1>5. ASSUME ~crossed' PROVE Straight'
  <2>1. ~Others(g)
    BY <1>5, UpdateCrossing
  <2>2. \A h \in Goroutine : pc'[h] \notin Hung
    BY <1>3, <2>1 DEF Others, Hung
  <2>3. CASE crossed
    <3>1. w.last # w'.status /\ ~owed'
      BY <1>5, <2>3, UpdateCrossing
    <3>. QED BY <1>1, <2>2, <3>1 DEF Straight, Hung
  <2>4. CASE ~crossed
    <3>1. Straight
      BY <2>4 DEF ChainInv
    <3>2. \A h \in Goroutine : pc[h] # "settle"
      BY <1>2, <2>1 DEF Others
    <3>3. w.last = note.to
      BY <3>1, <3>2 DEF Straight
    <3>4. w'.last = "stalled" => ~owed'
      BY <1>1, <3>1 DEF Straight, HooksFire
    <3>5. w'.last = "idle" /\ owed' => note'.from \in {"busy", "dead"}
      <4>. SUFFICES ASSUME w'.last = "idle", owed'
                    PROVE  note'.from \in {"busy", "dead"}
        OBVIOUS
      <4>1. shot[g] = w.seen /\ owed
        BY <1>1
      <4>2. CASE w.last = "idle"
        BY <1>1, <3>1, <4>1, <4>2 DEF Straight
      <4>3. CASE w.last # "idle"
        <5>1. note'.from = w.last /\ w.last # "active" /\ w.last # "stalled"
          BY <1>1, <3>1, <4>1, <4>3 DEF HooksFire, Straight
        <5>2. w.last # "unknown"
          BY <1>1, <4>1 DEF ChainInv
        <5>. QED BY <4>3, <5>1, <5>2 DEF TypeOK, Statuses
      <4>. QED BY <4>2, <4>3
    <3>. QED BY <1>1, <2>2, <3>3, <3>4, <3>5 DEF Straight, Hung
  <2>. QED BY <2>3, <2>4
<1>6. \A h \in Goroutine : pc'[h] = "announce" => was'[h] # "stalled"
  BY <1>2, <1>3 DEF ChainInv, Hung
<1>. QED BY <1>4, <1>5, <1>6 DEF ChainInv

\* Every step keeps the chain.
LEMMA ChainStep == TypeOK /\ ChainInv /\ [Next]_vars => ChainInv'
<1>. SUFFICES ASSUME TypeOK, ChainInv, [Next]_vars PROVE ChainInv'
  OBVIOUS
<1>1. ASSUME NEW g \in Goroutine, NEW l, l \notin Hung, pc[g] \notin Hung,
             pc' = [pc EXCEPT ![g] = l], UNCHANGED <<w, was, note, owed, crossed>>
      PROVE  ChainInv'
  BY <1>1, OutsideStep
<1>2. ASSUME NEW g \in Goroutine, Poll(g) PROVE ChainInv'
  <2>1. CASE CheckHung(g) \/ AnnounceHung(g) \/ SettleHung(g) \/ Update(g)
    BY <2>1, CheckHungStep, AnnounceStep, SettleStep, UpdateStep
  <2>2. CASE TailOK(g)
    BY <2>2, OutsideStep DEF TypeOK, TailOK, Goto, Hung
  <2>3. CASE TailFails(g)
    <3>1. w'.last = w.last /\ w'.seen = w.seen /\ (w'.status = "idle" => w.status = "idle")
      BY <2>3 DEF TypeOK, TailFails, Failed, Condemned
    <3>2. PICK l \in {"condemn", "done"} : pc' = [pc EXCEPT ![g] = l]
      BY <2>3 DEF TailFails, Goto
    <3>3. pc[g] = "tail" /\ UNCHANGED <<was, note, owed, crossed>>
      BY <2>3 DEF TailFails
    <3>. QED BY <3>1, <3>2, <3>3, OutsideStep DEF Hung
  <2>4. CASE Condemn(g)
    <3>1. w'.last = w.last /\ w'.seen = w.seen /\ (w'.status = "idle" => w.status = "idle")
      BY <2>4 DEF TypeOK, Condemn, Condemned
    <3>2. /\ pc[g] = "condemn" /\ UNCHANGED <<was, note, owed, crossed>>
          /\ pc' = [pc EXCEPT ![g] = "done"]
      BY <2>4 DEF Condemn, Goto, history
    <3>. QED BY <3>1, <3>2, OutsideStep DEF Hung
  <2>5. CASE PollDone(g)
    <3>1. PICK l \in {"loop", "free"} : pc' = [pc EXCEPT ![g] = l]
      BY <2>5 DEF PollDone, AfterPoll, Goto
    <3>. QED BY <1>1, <2>5, <3>1 DEF PollDone, Hung, watcher, history
  <2>. QED BY <1>2, <2>1, <2>2, <2>3, <2>4, <2>5 DEF Poll
<1>3. ASSUME NEW g \in Goroutine, Run(g) PROVE ChainInv'
  <2>1. PICK l \in {"probe", "update", "loop"} : pc' = [pc EXCEPT ![g] = l]
    BY <1>3 DEF TypeOK, Run, Tick, Serve, Goto
  <2>2. pc[g] = "loop" /\ UNCHANGED <<w, was, note, owed, crossed>>
    BY <1>3 DEF Run, Tick, Serve, watcher, history
  <2>. QED BY <1>1, <2>1, <2>2 DEF Hung
<1>4. ASSUME NEW g \in Goroutine, Revive(g) PROVE ChainInv'
  <2>1. CASE Collect(g) \/ CollectIPC(g)
    BY <1>1, <2>1 DEF Collect, CollectIPC, Goto, Hung, watcher, history
  <2>2. CASE ReviveCheck(g) \/ Ping(g)
    <3>1. PICK l \in {"free", "loop", "ping", "reset"} : pc' = [pc EXCEPT ![g] = l]
      BY <2>2 DEF ReviveCheck, Ping, AfterPoll, Goto
    <3>2. pc[g] \in {"revive", "ping"} /\ UNCHANGED <<w, was, note, owed, crossed>>
      BY <2>2 DEF ReviveCheck, Ping, watcher, history
    <3>. QED BY <1>1, <3>1, <3>2 DEF Hung
  <2>3. CASE ReviveReset(g)
    BY <2>3, OutsideStep DEF TypeOK, ReviveReset, Goto, Hung
  <2>. QED BY <1>4, <2>1, <2>2, <2>3 DEF Revive
<1>5. CASE Enqueue \/ Prune \/ Terminal \/ UNCHANGED vars
  <2>1. UNCHANGED <<w, pc, was, note, owed, crossed>>
    BY <1>5 DEF Enqueue, Prune, Terminal, Repaint, HangOrRecover, PipeTurns, ProcessExits,
      vars, watcher, goVars, history
  <2>. QED BY <2>1 DEF ChainInv, Straight
<1>. QED BY <1>2, <1>3, <1>4, <1>5 DEF Next

\* The chain holds of every reachable state.
LEMMA ChainHolds == Spec => []ChainInv
<1>1. Init => ChainInv
  <2>. SUFFICES ASSUME Init PROVE ChainInv
    OBVIOUS
  <2>1. \A g \in Goroutine : pc[g] \in {"loop", "free"}
    BY DEF Init
  <2>. QED BY <2>1 DEF Init, ChainInv, Straight, Hung
<1>. QED BY <1>1, ChainStep, TypeCorrect, PTL DEF Spec

\* For any number of goroutines, a notification that starts elsewhere than the
\* last one ended was crossed, or crosses, another.
THEOREM ChainSafety == Spec => NotificationsChain
<1>1. TypeOK /\ ChainInv /\ [Next]_vars =>
        [note' # note => note'.from = note.to \/ crossed \/ crossed']_vars
  <2>. SUFFICES ASSUME TypeOK, ChainInv, [Next]_vars, note' # note, ~crossed, ~crossed'
                PROVE  note'.from = note.to
    OBVIOUS
  <2>1. PICK g \in Goroutine : Moves(g)
    BY MovesOrNot
  <2>2. Straight
    BY DEF ChainInv
  <2>3. CASE AnnounceHung(g)
    <3>1. pc[g] = "announce" /\ crossed' = Others(g)
      BY <2>3 DEF AnnounceHung
    <3>2. \A h \in Goroutine : pc[h] # "settle"
      BY <3>1 DEF Others
    <3>3. note'.from = was[g]
      BY <2>3 DEF AnnounceHung, Announce
    <3>. QED BY <2>2, <3>1, <3>2, <3>3 DEF Straight
  <2>4. CASE Update(g)
    <3>1. pc[g] = "update" /\ ~Others(g) /\ note'.from = w.last
      BY <2>4, UpdateEffect, UpdateCrossing
    <3>2. \A h \in Goroutine : pc[h] # "settle"
      BY <3>1 DEF Others
    <3>. QED BY <2>2, <3>1, <3>2 DEF Straight
  <2>. QED BY <2>1, <2>3, <2>4 DEF Moves, CheckHung, SettleHung, TailOK, TailFails, Condemn,
    ReviveReset, history
<1>. QED BY <1>1, ChainHolds, TypeCorrect, PTL DEF Spec, NotificationsChain

\* For any number of goroutines, a completion goes unannounced only behind busy
\* or dead, or a crossing.
THEOREM LossSafety == Spec => []LostOnlyBehindOutage
<1>1. ChainInv => LostOnlyBehindOutage
  BY DEF ChainInv, Straight, LostOnlyBehindOutage
<1>. QED BY <1>1, ChainHolds, PTL
=============================================================================
