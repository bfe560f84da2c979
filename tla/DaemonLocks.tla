----------------------------- MODULE DaemonLocks -----------------------------
(***************************************************************************)
(* The daemon's two kinds of mutex, d.mu (one) and w.mu (one per session), *)
(* and the goroutines that take them: a Run loop per session, the          *)
(* discovery loop, the goroutine that adds what it discovered, the IPC     *)
(* handlers of LIST, SHOW, SEND and the HOOK commands, and the goroutines  *)
(* in which a notification runs send and callback hooks.                   *)
(*                                                                         *)
(* Two paths nest them, in opposite orders.  listSessions, refreshSessions *)
(* and snapshotSessions hold d.mu while they read every watcher under its  *)
(* w.mu; updateContent holds w.mu while its notification takes d.mu, and   *)
(* while executeStatusHooks unlinks files.  selfWatchdog ends a daemon     *)
(* whose discovery loop stopped.                                           *)
(*                                                                         *)
(* A critical section that takes no second lock is one step, taken when    *)
(* the mutex is free.  Statuses are not modelled: what depends on them     *)
(* (whether a poll finds the window hung, fails, fires hooks; which        *)
(* sessions are dead) is chosen freely.  A session has at most one Run     *)
(* loop here: a second one, started beside it, is left out.                *)
(***************************************************************************)
EXTENDS Naturals, Sequences

CONSTANTS
    Session,      \* the watched sessions; each names its Run goroutine too
    Handler,      \* bound: IPC handlers at once
    Command,      \* bound: the commands they may be sent
    Sender,       \* bound: goroutines of executeSendHook and executeCallbackHook
    Discovery,    \* the discovery loop
    Adder,        \* the goroutine that drains discoveryCh
    Nobody        \* holder of a free mutex

\* Who may wait for the result of a request.
Waiter == Handler \cup Sender

Goroutine == Session \cup Waiter \cup {Discovery, Adder}

ASSUME LockAssumption ==
    /\ Nobody \notin Goroutine
    /\ Discovery # Adder
    /\ Session \cap Handler = {}
    /\ Sender \cap (Session \cup Handler) = {}
    /\ {Discovery, Adder} \cap (Session \cup Waiter) = {}
    /\ Command \subseteq {"list", "show", "send", "hook"}

VARIABLES
    dmu,       \* who holds d.mu
    wmu,       \* wmu[s]: who holds the w.mu of s
    pc,        \* pc[g]: where goroutine g stands
    cmd,       \* cmd[h]: what handler h serves; "showLate", "showAgain", "sendAgain"
               \* and "sendWeb" after a refresh, "callback" once SEND registers one
    on,        \* on[g]: the session g polls, revives, shows or sends to
    todo,      \* todo[g]: sessions g has still to read under d.mu
    dead,      \* dead[g]: sessions g found dead and has still to revive
    asked,     \* asked[s]: whose requests are in the reqCh of s
    paused,    \* paused[s]: the handler whose resume Run of s waits for
    batches,   \* results in discoveryCh (capacity 1)
    exited     \* selfWatchdog called os.Exit

daemon == <<batches, exited>>
calls  == <<cmd, on, todo, dead, asked, paused>>
vars == <<dmu, wmu, pc, calls, daemon>>

Goto(g, l) == pc' = [pc EXCEPT ![g] = l]

\* A critical section with nothing nested in it.
UnderD == dmu = Nobody
UnderW(s) == wmu[s] = Nobody

-----------------------------------------------------------------------------
(* poll, in a Run loop or inside Revive. *)

\* The window is hung: note it under w.mu, and notify with w.mu released; only
\* then Tail.
PollHung(g) ==
    /\ pc[g] = "poll"
    /\ UnderW(on[g])
    /\ Goto(g, "notifyHung")
    /\ UNCHANGED <<dmu, wmu, calls, daemon>>

\* Tail failed: short sections of w.mu only.
TailFails(g) ==
    /\ pc[g] \in {"poll", "tail"}
    /\ UnderW(on[g])
    /\ Goto(g, "polled")
    /\ UNCHANGED <<dmu, wmu, calls, daemon>>

\* Tail answered: updateContent locks w.mu until it returns.
LockContent(g) ==
    /\ pc[g] \in {"poll", "tail", "show"}
    /\ UnderW(on[g])
    /\ wmu' = [wmu EXCEPT ![on[g]] = g]
    /\ Goto(g, "notify")
    /\ UNCHANGED <<dmu, calls, daemon>>

\* The callback of addSession: lastNotify under d.mu, then the hooks or not.
Notify(g) ==
    /\ UnderD
    /\ \/ /\ pc[g] = "notify"
          /\ \E l \in {"collect", "unlock"} : Goto(g, l)
       \/ /\ pc[g] = "notifyHung"
          /\ \E l \in {"collectHung", "tail"} : Goto(g, l)
    /\ UNCHANGED <<dmu, wmu, calls, daemon>>

\* The end of executeStatusHooks: a goroutine for each hook that fires, some of
\* which send to a session.
Fire(g, l) ==
    \E fired \in SUBSET {k \in Sender : pc[k] = "none"} :
        pc' = [k \in Goroutine |-> CASE k = g -> l
                                      [] k \in fired -> "target"
                                      [] OTHER -> pc[k]]

\* executeStatusHooks: collect and prune under d.mu ...
CollectHooks(g) ==
    /\ UnderD
    /\ \/ pc[g] = "collect" /\ (Goto(g, "unlink") \/ Fire(g, "unlock"))
       \/ pc[g] = "collectHung" /\ (Goto(g, "unlinkHung") \/ Fire(g, "tail"))
    /\ UNCHANGED <<dmu, wmu, calls, daemon>>

\* ... and unlink the files of the pruned hooks without it.
UnlinkFiles(g) ==
    /\ \/ pc[g] = "unlink" /\ Fire(g, "unlock")
       \/ pc[g] = "unlinkHung" /\ Fire(g, "tail")
    /\ UNCHANGED <<dmu, wmu, calls, daemon>>

UnlockContent(g) ==
    /\ pc[g] = "unlock"
    /\ wmu' = [wmu EXCEPT ![on[g]] = Nobody]
    /\ Goto(g, "polled")
    /\ UNCHANGED <<dmu, calls, daemon>>

Poll(g) ==
    \/ PollHung(g) \/ TailFails(g) \/ LockContent(g) \/ Notify(g)
    \/ CollectHooks(g) \/ UnlinkFiles(g) \/ UnlockContent(g)

-----------------------------------------------------------------------------
(* Run: a session's goroutine polls, serves a request of a SHOW or a hook, *)
(* or is paused; and ends when its poll leaves the session dead.           *)

\* Requests are drained before the ticker is looked at.
RunPolls(s) ==
    /\ pc[s] = "loop"
    /\ asked[s] = <<>>
    /\ Goto(s, "poll")
    /\ UNCHANGED <<dmu, wmu, calls, daemon>>

\* A request is answered when updateContent returned, or, if it sends, when the
\* poll after its Enter did ...
RunServes(s) ==
    /\ pc[s] = "loop"
    /\ asked[s] # <<>>
    /\ asked' = [asked EXCEPT ![s] = Tail(@)]
    /\ Goto(s, IF Head(asked[s]) \in Handler THEN "show" ELSE "poll")
    /\ UNCHANGED <<dmu, wmu, cmd, on, todo, dead, paused, daemon>>

\* The goroutines in R have their results: a SHOW goes on, and a hook is done.
WithResult(g) == IF g \in Handler THEN "used" ELSE "none"

Done(R) == on' = [g \in Goroutine |-> IF g \in R \cap Sender THEN Nobody ELSE on[g]]

\* ... or at once when the pipe fails or the request is for history.
RunServeFails(s) ==
    /\ pc[s] = "loop"
    /\ asked[s] # <<>>
    /\ asked' = [asked EXCEPT ![s] = Tail(@)]
    /\ Goto(Head(asked[s]), WithResult(Head(asked[s])))
    /\ Done({Head(asked[s])})
    /\ UNCHANGED <<dmu, wmu, cmd, todo, dead, paused, daemon>>

Queued(s) == {asked[s][i] : i \in DOMAIN asked[s]}

\* Those whose request Run took off the queue and has not answered.
Served(s) == {g \in Waiter \ Queued(s) : pc[g] = "wait" /\ on[g] = s}

RunPolled(s) ==
    /\ pc[s] = "polled"
    /\ pc' = [g \in Goroutine |-> CASE g = s -> "loop"
                                     [] g \in Served(s) -> WithResult(g)
                                     [] OTHER -> pc[g]]
    /\ Done(Served(s))
    /\ UNCHANGED <<dmu, wmu, cmd, todo, dead, asked, paused, daemon>>

\* A poll of its own leaves the session dead: Run returns, and drains no queue.
RunEnds(s) ==
    /\ pc[s] = "polled"
    /\ Served(s) = {}
    /\ Goto(s, "ended")
    /\ UNCHANGED <<dmu, wmu, calls, daemon>>

\* The rendezvous on pauseCh; SEND goes on without it after 2 s.
Pause(s, h) ==
    /\ pc[s] = "loop"
    /\ pc[h] = "pause"
    /\ on[h] = s
    /\ paused' = [paused EXCEPT ![s] = h]
    /\ pc' = [pc EXCEPT ![s] = "paused", ![h] = "used"]
    /\ UNCHANGED <<dmu, wmu, cmd, on, todo, dead, asked, daemon>>

Run(s) ==
    \/ RunPolls(s) \/ RunServes(s) \/ RunServeFails(s) \/ RunPolled(s)
    \/ RunEnds(s)

-----------------------------------------------------------------------------
(* refreshSessions, by the discovery loop and LIST; listSessions, by LIST. *)

\* d.mu is locked and every watcher is to be read.  (refreshSessions reads
\* them twice over, under the same d.mu.)
LockSessions(g) ==
    /\ UnderD
    /\ pc[g] \in {"refresh", "snapshot"}
    /\ dmu' = g
    /\ todo' = [todo EXCEPT ![g] = Session]
    /\ Goto(g, IF pc[g] = "refresh" THEN "walk" ELSE "collate")
    /\ UNCHANGED <<wmu, cmd, on, dead, asked, paused, daemon>>

\* Status and Profile of one watcher, d.mu held.
ReadWatcher(g) ==
    /\ pc[g] \in {"walk", "collate"}
    /\ \E s \in todo[g] :
        /\ UnderW(s)
        /\ todo' = [todo EXCEPT ![g] = @ \ {s}]
        /\ \/ pc[g] = "walk" /\ dead' = [dead EXCEPT ![g] = @ \cup {s}]
           \/ UNCHANGED dead
    /\ UNCHANGED <<dmu, wmu, pc, cmd, on, asked, paused, daemon>>

\* The snapshot is taken: LIST answers; SEND rejects the callback, or takes a
\* second snapshot in registerCallbackHook and adds the hook.
Collated(h) ==
    \/ Goto(h, "answer") /\ UNCHANGED cmd
    \/ cmd[h] = "send" /\ cmd' = [cmd EXCEPT ![h] = "callback"] /\ Goto(h, "snapshot")
    \/ cmd[h] = "callback" /\ Goto(h, "hook") /\ UNCHANGED cmd

\* Mutant: revival starts before d.mu is released.
ReleasedLate(g) == IF pc[g] = "walk" /\ dead[g] # {} THEN g ELSE Nobody

\* Who holds d.mu once g has read every watcher.
Released(g) == Nobody

\* Where refreshSessions leads g once the sessions in D are all it has still to
\* revive: LIST reads the sessions again, SHOW and SEND look up theirs again.
Onward(g, D) ==
    CASE D # {} -> "revive"
      [] D = {} /\ g = Discovery -> "deliver"
      [] D = {} /\ g # Discovery -> IF cmd[g] = "list" THEN "snapshot" ELSE "findAgain"

UnlockSessions(g) ==
    /\ pc[g] \in {"walk", "collate"}
    /\ todo[g] = {}
    /\ dmu' = Released(g)
    /\ \/ /\ pc[g] = "walk"
          /\ Goto(g, Onward(g, dead[g]))
          /\ UNCHANGED cmd
       \/ /\ pc[g] = "collate"
          /\ Collated(g)
    /\ UNCHANGED <<wmu, on, todo, dead, asked, paused, daemon>>

\* "Attempt revival outside the main lock": getWatcher first.
ReviveNext(g) ==
    /\ UnderD
    /\ pc[g] = "revive"
    /\ \E s \in dead[g] :
        /\ dead' = [dead EXCEPT ![g] = @ \ {s}]
        /\ \/ on' = [on EXCEPT ![g] = s] /\ Goto(g, "status")
           \/ UNCHANGED on /\ Goto(g, Onward(g, dead'[g]))     \* pruned meanwhile
    /\ UNCHANGED <<dmu, wmu, cmd, todo, asked, paused, daemon>>

\* Is g reviving as part of refreshSessions?
Refreshing(g) ==
    \/ g = Discovery
    \/ g \in Handler /\ cmd[g] \in {"list", "showLate", "showAgain", "sendAgain", "sendWeb"}

\* Where the goroutines stand when g leaves for l and a Run loop starts for s.
Started(g, l, s) ==
    [pc EXCEPT ![g] = l, ![s] = IF @ = "ended" THEN "loop" ELSE @]

\* Revive returned: a Run loop is started if the session is alive.
LeaveRevived(g) ==
    /\ \/ Goto(g, Onward(g, dead[g]))
       \/ pc' = Started(g, Onward(g, dead[g]), on[g])
    /\ on' = [on EXCEPT ![g] = Nobody]

\* Revive: Status, Ping, and poll if the pipe answered.  It returns at once
\* if the session is alive again.
Revive(g) ==
    /\ Refreshing(g)
    /\ pc[g] = "status"
    /\ UnderW(on[g])
    /\ \/ Goto(g, "poll") /\ UNCHANGED on
       \/ LeaveRevived(g)
    /\ UNCHANGED <<dmu, wmu, cmd, todo, dead, asked, paused, daemon>>

Revived(g) ==
    /\ Refreshing(g)
    /\ pc[g] = "polled"
    /\ LeaveRevived(g)
    /\ UNCHANGED <<dmu, wmu, cmd, todo, dead, asked, paused, daemon>>

Refresh(g) ==
    \/ LockSessions(g) \/ ReadWatcher(g) \/ UnlockSessions(g)
    \/ ReviveNext(g) \/ Revive(g) \/ Revived(g)

-----------------------------------------------------------------------------
(* discoveryLoop, the goroutine that adds sessions, and selfWatchdog. *)

\* The ticker fires: markDiscoveryTick, then refreshSessions.
DiscoveryTick ==
    /\ pc[Discovery] = "tick"
    /\ Goto(Discovery, "refresh")
    /\ UNCHANGED <<dmu, wmu, calls, daemon>>

\* pipe.Discover, and the send on discoveryCh, which blocks while it is full.
Deliver ==
    /\ pc[Discovery] = "deliver"
    /\ \/ batches = 0 /\ batches' = 1
       \/ UNCHANGED batches                \* Discover failed
    /\ Goto(Discovery, "tick")
    /\ UNCHANGED <<dmu, wmu, calls, exited>>

Receive ==
    /\ pc[Adder] = "recv"
    /\ batches = 1
    /\ batches' = 0
    /\ Goto(Adder, "add")
    /\ UNCHANGED <<dmu, wmu, calls, exited>>

\* addSession for each of them.
AddSessions ==
    /\ UnderD
    /\ pc[Adder] = "add"
    /\ Goto(Adder, "recv")
    /\ UNCHANGED <<dmu, wmu, calls, daemon>>

\* Mutant: a tick that does not depend on the loop.
NeverStale == FALSE

\* The last tick may be older than watchdogTimeout once its iteration is under
\* way, however slow or stuck it is.
TickStale == pc[Discovery] # "tick"

\* os.Exit takes every goroutine with it.
SelfWatchdog ==
    /\ ~exited
    /\ TickStale
    /\ exited' = TRUE
    /\ dmu' = Nobody
    /\ wmu' = [s \in Session |-> Nobody]
    /\ pc' = [g \in Goroutine |-> "gone"]
    /\ cmd' = [h \in Handler |-> "list"]
    /\ on' = [g \in Goroutine |-> Nobody]
    /\ todo' = [g \in Goroutine |-> {}]
    /\ dead' = [g \in Goroutine |-> {}]
    /\ asked' = [s \in Session |-> <<>>]
    /\ paused' = [s \in Session |-> Nobody]
    /\ batches' = 0

-----------------------------------------------------------------------------
(* IPC handlers.  SHOW falls back on refreshSessions twice: when it does   *)
(* not find the session, and when it is dead; SEND twice, once for a pipe  *)
(* and once for a web session.                                             *)

HandleConn(h) ==
    /\ pc[h] = "accept"
    /\ \E c \in Command :
        /\ cmd' = [cmd EXCEPT ![h] = c]
        /\ Goto(h, CASE c = "list" -> "refresh" [] c = "hook" -> "hook" [] OTHER -> "find")
    /\ UNCHANGED <<dmu, wmu, on, todo, dead, asked, paused, daemon>>

\* getWatcher or resolvePipePath finds the session, or not.
Find(h) ==
    /\ UnderD
    /\ pc[h] = "find"
    /\ \/ /\ \E s \in Session : on' = [on EXCEPT ![h] = s]
          /\ Goto(h, "status")
          /\ UNCHANGED cmd
       \/ /\ cmd' = [cmd EXCEPT ![h] = IF @ = "show" THEN "showLate" ELSE "sendAgain"]
          /\ Goto(h, "refresh")
          /\ UNCHANGED on
    /\ UNCHANGED <<dmu, wmu, todo, dead, asked, paused, daemon>>

\* A dead session: SHOW refreshes, SEND writes to the pipe by itself.
GiveUp(h) ==
    /\ on' = [on EXCEPT ![h] = Nobody]
    /\ IF cmd[h] = "show"
       THEN Goto(h, "refresh") /\ cmd' = [cmd EXCEPT ![h] = "showAgain"]
       ELSE Goto(h, "used") /\ UNCHANGED cmd

\* The session is live, or dead and its pipe answers PING, or not.
Status(h) ==
    /\ cmd[h] \in {"show", "send"}
    /\ pc[h] = "status"
    /\ UnderW(on[h])
    /\ \/ \E l \in {"live", "poll"} : Goto(h, l) /\ UNCHANGED <<cmd, on>>
       \/ GiveUp(h)
    /\ UNCHANGED <<dmu, wmu, todo, dead, asked, paused, daemon>>

RevivedAlone(h) ==
    /\ cmd[h] \in {"show", "send"}
    /\ pc[h] = "polled"
    /\ \/ Goto(h, "live") /\ UNCHANGED <<cmd, on>>
       \/ GiveUp(h)
    /\ UNCHANGED <<dmu, wmu, todo, dead, asked, paused, daemon>>

\* After the refresh: found, or not.  SHOW looks at the status unless it already
\* had.  What SEND finds at its second refresh can be a web session only.
FindAgain(h) ==
    /\ UnderD
    /\ pc[h] = "findAgain"
    /\ \/ /\ cmd[h] # "sendWeb"
          /\ \E s \in Session : on' = [on EXCEPT ![h] = s]
          /\ cmd' = [cmd EXCEPT ![h] = IF @ = "sendAgain" THEN "send" ELSE "show"]
          /\ Goto(h, IF cmd[h] = "showAgain" THEN "live" ELSE "status")
       \/ /\ cmd[h] = "sendAgain"
          /\ cmd' = [cmd EXCEPT ![h] = "sendWeb"]
          /\ Goto(h, "refresh")
          /\ UNCHANGED on
       \/ cmd[h] # "sendAgain" /\ Goto(h, "answer") /\ UNCHANGED <<on, cmd>>
    /\ UNCHANGED <<dmu, wmu, todo, dead, asked, paused, daemon>>

\* A web session: sendViaWS takes no lock, and setLastUsed follows.
SendWeb(h) ==
    /\ UnderD
    /\ \/ pc[h] = "find" /\ cmd[h] = "send"
       \/ pc[h] = "findAgain" /\ cmd[h] \in {"sendAgain", "sendWeb"}
    /\ cmd' = [cmd EXCEPT ![h] = "sendWeb"]
    /\ Goto(h, "used")
    /\ UNCHANGED <<dmu, wmu, on, todo, dead, asked, paused, daemon>>

\* FreshTail: Status, then the request and the wait for its result; or its
\* cached content when the session died meanwhile or reqCh is full.
Ask(h) ==
    /\ pc[h] = "live"
    /\ cmd[h] = "show"
    /\ UnderW(on[h])
    /\ \/ asked' = [asked EXCEPT ![on[h]] = Append(@, h)] /\ Goto(h, "wait")
       \/ UNCHANGED asked /\ Goto(h, "used")
    /\ UNCHANGED <<dmu, wmu, cmd, on, todo, dead, paused, daemon>>

AskPause(h) ==
    /\ pc[h] = "live"
    /\ cmd[h] = "send"
    /\ UnderW(on[h])
    /\ Goto(h, "pause")
    /\ UNCHANGED <<dmu, wmu, calls, daemon>>

PauseTimesOut(h) ==
    /\ pc[h] = "pause"
    /\ Goto(h, "used")
    /\ UNCHANGED <<dmu, wmu, calls, daemon>>

\* A pipe or socket error, or a history nobody has: no setLastUsed.
Fails(h) ==
    /\ pc[h] = "used"
    /\ Goto(h, "answer")
    /\ UNCHANGED <<dmu, wmu, calls, daemon>>

\* setLastUsed, after the I/O.  A confirmed SEND of a known caller goes on to
\* shouldRegisterCallback, which snapshots the sessions; SHOW composes its
\* reply with the status.
SetLastUsed(h) ==
    /\ UnderD
    /\ pc[h] = "used"
    /\ \/ cmd[h] = "show" /\ Goto(h, "compose")
       \/ cmd[h] \in {"send", "sendWeb"} /\ Goto(h, "answer")
       \/ cmd[h] = "send" /\ Goto(h, "snapshot")
    /\ UNCHANGED <<dmu, wmu, calls, daemon>>

ComposeShowStatus(h) ==
    /\ pc[h] = "compose"
    /\ UnderW(on[h])
    /\ Goto(h, "answer")
    /\ UNCHANGED <<dmu, wmu, calls, daemon>>

\* AddIdleHook, RemoveIdleHooks, ListIdleHooks: one section of d.mu; files are
\* written after it.
Hook(h) ==
    /\ UnderD
    /\ pc[h] = "hook"
    /\ Goto(h, "answer")
    /\ UNCHANGED <<dmu, wmu, calls, daemon>>

\* Mutant: a return that forgets the pause.
ResumesNone(h) == {}

\* The Run loops that the handler's deferred close(resumeCh) resumes.
Resumes(h) == {s \in Session : paused[s] = h}

Answer(h) ==
    /\ pc[h] = "answer"
    /\ pc' = [g \in Goroutine |-> CASE g = h -> "accept"
                                    [] g \in Resumes(h) -> "loop"
                                    [] OTHER -> pc[g]]
    /\ paused' = [s \in Session |-> IF s \in Resumes(h) THEN Nobody ELSE paused[s]]
    /\ cmd' = [cmd EXCEPT ![h] = "list"]
    /\ on' = [on EXCEPT ![h] = Nobody]
    /\ UNCHANGED <<dmu, wmu, todo, dead, asked, daemon>>

Handle(h) ==
    \/ Find(h) \/ Status(h) \/ RevivedAlone(h) \/ FindAgain(h)
    \/ SendWeb(h) \/ Ask(h) \/ AskPause(h) \/ PauseTimesOut(h) \/ Fails(h)
    \/ SetLastUsed(h) \/ ComposeShowStatus(h) \/ Hook(h) \/ Answer(h)

-----------------------------------------------------------------------------
(* executeSendHook, executeCallbackHook: getWatcher, and Watcher.Send, which *)
(* waits for its result as long as it takes.                               *)

FindTarget(k) ==
    /\ UnderD
    /\ pc[k] = "target"
    /\ \/ \E s \in Session : on' = [on EXCEPT ![k] = s] /\ Goto(k, "check")
       \/ Goto(k, "none") /\ UNCHANGED on
    /\ UNCHANGED <<dmu, wmu, cmd, todo, dead, asked, paused, daemon>>

\* Unless the session is dead, or reqCh full.
Queue(k) ==
    /\ pc[k] = "check"
    /\ UnderW(on[k])
    /\ \/ /\ asked' = [asked EXCEPT ![on[k]] = Append(@, k)]
          /\ Goto(k, "wait")
          /\ UNCHANGED on
       \/ /\ Goto(k, "none")
          /\ Done({k})
          /\ UNCHANGED asked
    /\ UNCHANGED <<dmu, wmu, cmd, todo, dead, paused, daemon>>

SendHook(k) == FindTarget(k) \/ Queue(k)

-----------------------------------------------------------------------------
Init ==
    /\ dmu = Nobody
    /\ wmu = [s \in Session |-> Nobody]
    /\ pc = [g \in Goroutine |-> CASE g \in Session -> "loop"
                                   [] g \in Handler -> "accept"
                                   [] g \in Sender -> "none"
                                   [] g = Discovery -> "tick"
                                   [] g = Adder -> "recv"]
    /\ cmd = [h \in Handler |-> "list"]
    /\ on = [g \in Goroutine |-> IF g \in Session THEN g ELSE Nobody]
    /\ todo = [g \in Goroutine |-> {}]
    /\ dead = [g \in Goroutine |-> {}]
    /\ asked = [s \in Session |-> <<>>]
    /\ paused = [s \in Session |-> Nobody]
    /\ batches = 0
    /\ exited = FALSE

DiscoveryLoop == DiscoveryTick \/ Deliver

AdderLoop == Receive \/ AddSessions

Next ==
    \/ \E g \in Goroutine : Poll(g) \/ Refresh(g)
    \/ \E s \in Session : Run(s) \/ \E h \in Handler : Pause(s, h)
    \/ \E h \in Handler : HandleConn(h) \/ Handle(h)
    \/ \E k \in Sender : SendHook(k)
    \/ DiscoveryLoop
    \/ AdderLoop
    \/ SelfWatchdog

Spec == Init /\ [][Next]_vars

\* What the goroutine of session s does once it has something to do.
RunStep(s) == RunServes(s) \/ RunServeFails(s) \/ RunPolled(s) \/ Poll(s)

\* Go hands a contended mutex to the waiter that starves: a Run loop and a handler
\* are strongly fair.  For the discovery loop less is enough, since the watchdog
\* looks after it; the adder and the hooks hold up nobody.  No fairness makes a
\* client call, a ticker poll or Pause.
Fairness ==
    /\ \A s \in Session : SF_vars(RunStep(s))
    /\ \A h \in Handler : SF_vars(Handle(h) \/ Refresh(h) \/ Poll(h))
    /\ WF_vars(DiscoveryLoop \/ Refresh(Discovery) \/ Poll(Discovery))
    /\ WF_vars(SelfWatchdog)

FairSpec == Spec /\ Fairness

-----------------------------------------------------------------------------
\* The places of each kind of goroutine.
PollPlace == {"poll", "notifyHung", "collectHung", "unlinkHung", "tail", "notify",
              "collect", "unlink", "unlock", "polled"}
RunPlace == PollPlace \cup {"loop", "show", "paused", "ended", "gone"}
RefreshPlace == PollPlace \cup {"refresh", "walk", "revive", "status", "gone"}
HandlerPlace == RefreshPlace \cup {"accept", "snapshot", "collate", "find", "findAgain", "live",
                                  "wait", "pause", "used", "compose", "hook", "answer"}
SenderPlace == {"none", "target", "check", "wait", "gone"}
Place == RunPlace \cup HandlerPlace \cup SenderPlace \cup {"tick", "deliver", "recv", "add"}

\* Where d.mu, and where the w.mu of on[g], is held.
DPlace == {"walk", "collate"}
WPlace == {"notify", "collect", "unlink", "unlock"}

\* Where on[g] is a session.
OnPlace == PollPlace \cup {"show", "status", "live", "wait", "pause", "compose", "check"}

\* Goroutines keep their kind, and a mutex is held across steps exactly by the
\* goroutine whose place in the code says so.
TypeOK ==
    /\ pc \in [Goroutine -> Place]
    /\ \A s \in Session : pc[s] \in RunPlace
    /\ \A h \in Handler : pc[h] \in HandlerPlace
    /\ \A k \in Sender : pc[k] \in SenderPlace
    /\ pc[Discovery] \in RefreshPlace \cup {"tick", "deliver"}
    /\ pc[Adder] \in {"recv", "add", "gone"}
    /\ dmu \in Goroutine \cup {Nobody}
    /\ \A g \in Goroutine : dmu = g <=> pc[g] \in DPlace
    /\ wmu \in [Session -> Goroutine \cup {Nobody}]
    /\ \A s \in Session, g \in Goroutine :
        wmu[s] = g <=> on[g] = s /\ pc[g] \in WPlace
    /\ cmd \in [Handler -> {"list", "show", "send", "hook", "showLate", "showAgain",
                        "sendAgain", "sendWeb", "callback"}]
    /\ on \in [Goroutine -> Session \cup {Nobody}]
    /\ todo \in [Goroutine -> SUBSET Session]
    /\ dead \in [Goroutine -> SUBSET Session]
    /\ asked \in [Session -> Seq(Waiter)]
    /\ paused \in [Session -> Handler \cup {Nobody}]
    /\ batches \in {0, 1}
    /\ exited \in BOOLEAN

\* g cannot go on: the mutex it needs next is taken.
StuckAtD(g) ==
    /\ dmu # Nobody
    /\ pc[g] \in {"notify", "notifyHung", "collect", "collectHung", "refresh", "snapshot",
                     "find", "findAgain", "used", "hook", "revive", "add", "target"}

StuckAtW(g) ==
    \/ /\ pc[g] \in {"walk", "collate"}
       /\ todo[g] # {}
       /\ \A s \in todo[g] : wmu[s] # Nobody
    \/ /\ pc[g] \in {"poll", "tail", "show", "status", "live", "compose", "check"}
       /\ wmu[on[g]] # Nobody

Holders == {g \in Goroutine : dmu = g \/ \E s \in Session : wmu[s] = g}

\* One goroutine reads watchers under d.mu and needs the w.mu of s, whose
\* holder notifies, and needs d.mu.
Inversion ==
    \E g, k \in Goroutine, s \in Session :
        /\ dmu = g /\ s \in todo[g]
        /\ wmu[s] = k /\ pc[k] \in {"notify", "collect"}

\* The daemon's mutexes can lock up in one way only: whenever no holder of one
\* can go on, d.mu and the w.mu of some session are held in opposite orders.
OnlyInversionWedges ==
    Holders # {} /\ (\A g \in Holders : StuckAtD(g) \/ StuckAtW(g)) => Inversion

\* The request of g is in the queue of a Run loop that has returned.
Orphaned(g) == \E s \in Session : pc[s] = "ended" /\ g \in Queued(s)

\* Every command is answered, whatever hooks send, unless the loop a SHOW waits for
\* has ended, or the watchdog ends the daemon, so that the next CLI invocation can
\* start one.
AnsweredOrExited ==
    \A h \in Handler :
        pc[h] # "accept" ~> (pc[h] = "accept" \/ Orphaned(h) \/ exited)

\* A paused Run loop is resumed, or the daemon ends.
PausedResumes ==
    \A s \in Session : paused[s] # Nobody ~> (paused[s] = Nobody \/ exited)
=============================================================================
