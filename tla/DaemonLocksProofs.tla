-------------------------- MODULE DaemonLocksProofs --------------------------
(***************************************************************************)
(* Proofs about DaemonLocks, for any number of sessions and handlers: the  *)
(* mutexes are held where the code says, and can wedge in one way only.    *)
(***************************************************************************)
EXTENDS DaemonLocks, TLAPS

\* Nothing points at the wrong goroutine: who polls, shows or asks has a
\* session; a Run loop has its own; a queued request has one goroutine, which
\* waits for it; and a loop is paused exactly while a handler must resume it.
Bookkeeping ==
    /\ \A g \in Goroutine : pc[g] \in OnPlace => on[g] \in Session
    /\ \A h \in Handler : pc[h] = "used" /\ cmd[h] = "show" => on[h] \in Session
    /\ \A s \in Session : on[s] = s \/ pc[s] = "gone"
    /\ \A s \in Session : \A i \in DOMAIN asked[s] :
        /\ pc[asked[s][i]] = "wait"
        /\ on[asked[s][i]] = s
        /\ \A j \in DOMAIN asked[s] : asked[s][i] = asked[s][j] => i = j
    /\ \A s \in Session : paused[s] # Nobody <=> pc[s] = "paused"

\* The inductive invariant: types and mutexes alone do not say that a goroutine
\* inside poll has a session, nor that somebody waits for a queued request.
IInv == TypeOK /\ Bookkeeping

\* Where a goroutine waits to be moved by another one.
WaitPlace == {"wait", "paused", "gone"}

\* What cmd may say.
Commands == {"list", "show", "send", "hook", "showLate", "showAgain", "sendAgain",
             "sendWeb", "callback"}

\* The places of g's kind.
Places(g) == CASE g \in Session -> RunPlace
               [] g \in Handler -> HandlerPlace
               [] g \in Sender -> SenderPlace
               [] g = Discovery -> RefreshPlace \cup {"tick", "deliver"}
               [] g = Adder -> {"recv", "add", "gone"}

\* The other goroutines stay where they are; perhaps a Run loop or a hook starts.
Stays(k) ==
    \/ pc'[k] = pc[k]
    \/ k \in Session /\ pc[k] = "ended" /\ pc'[k] = "loop"
    \/ k \in Sender /\ pc[k] = "none" /\ pc'[k] = "target"

\* A goroutine that goes to a place of its kind leaves every kind its places.
LEMMA PlacesKept ==
    ASSUME TypeOK, NEW g \in Goroutine, pc'[g] \in Places(g),
           \A k \in Goroutine \ {g} : Stays(k)
    PROVE  /\ \A s \in Session : pc'[s] \in RunPlace
           /\ \A h \in Handler : pc'[h] \in HandlerPlace
           /\ \A h \in Sender : pc'[h] \in SenderPlace
           /\ pc'[Discovery] \in RefreshPlace \cup {"tick", "deliver"}
           /\ pc'[Adder] \in {"recv", "add", "gone"}
<1>1. \A k \in Goroutine : pc[k] \in Places(k)
  BY LockAssumption DEF TypeOK, Places, Goroutine, Waiter
<1>2. /\ \A k \in Session : Places(k) = RunPlace
      /\ \A k \in Sender : Places(k) = SenderPlace
  BY LockAssumption DEF Places, Goroutine, Waiter
<1>3. ASSUME NEW k \in Goroutine PROVE pc'[k] \in Places(k)
  <2>1. CASE k = g
    BY <2>1
  <2>2. CASE k # g /\ pc'[k] = pc[k]
    BY <1>1, <2>2
  <2>3. CASE k \in Session /\ pc'[k] = "loop"
    BY <1>2, <2>3 DEF RunPlace
  <2>4. CASE k \in Sender /\ pc'[k] = "target"
    BY <1>2, <2>4 DEF SenderPlace
  <2>. QED BY <2>1, <2>2, <2>3, <2>4 DEF Stays
<1>. QED BY <1>3, LockAssumption DEF Places, Goroutine, Waiter

\* A goroutine that goes to a new place, and perhaps to a new session, keeps the
\* invariant if it holds the same mutexes there, or has just released d.mu.
LEMMA MovesAlong ==
    ASSUME IInv,
           NEW g \in Goroutine,
           NEW l \in Places(g), pc'[g] = l, pc' \in [Goroutine -> Place],
           \A k \in Goroutine \ {g} : Stays(k),
           NEW x \in Session \cup {Nobody}, on' = [on EXCEPT ![g] = x],
           UNCHANGED <<wmu, asked, paused>>,
           cmd' \in [Handler -> Commands],
           \A h \in Handler \ {g} : cmd'[h] = cmd[h],
           todo' \in [Goroutine -> SUBSET Session],
           dead' \in [Goroutine -> SUBSET Session],
           batches' \in {0, 1}, exited' \in BOOLEAN,
           \/ dmu' = dmu /\ (l \in DPlace <=> pc[g] \in DPlace)
           \/ dmu = g /\ dmu' = Nobody /\ l \notin DPlace,
           l \in WPlace \/ pc[g] \in WPlace => l \in WPlace /\ pc[g] \in WPlace /\ x = on[g],
           l \notin WaitPlace, pc[g] \notin WaitPlace,
           g \in Session => x = on[g],
           l \in OnPlace => x \in Session,
           g \in Handler /\ l = "used" /\ cmd'[g] = "show" => x \in Session
    PROVE  IInv'
<1>1. g \in Goroutine /\ pc \in [Goroutine -> Place] /\ on \in [Goroutine -> Session \cup {Nobody}]
  BY DEF IInv, TypeOK
<1>2. \A k \in Goroutine \ {g} :
        /\ \A P \in {DPlace, WPlace} : pc'[k] \in P <=> pc[k] \in P
        /\ pc'[k] \in OnPlace => pc'[k] = pc[k]
        /\ pc[k] \in WaitPlace \cup {"used"} => pc'[k] = pc[k]
        /\ pc'[k] \in WaitPlace \cup {"used"} => pc'[k] = pc[k]
  BY DEF Stays, DPlace, WPlace, OnPlace, PollPlace, WaitPlace
<1>3. /\ pc'[g] = l /\ on'[g] = x
      /\ \A k \in Goroutine \ {g} : on'[k] = on[k]
      /\ pc' \in [Goroutine -> Place] /\ on' \in [Goroutine -> Session \cup {Nobody}]
  BY <1>1
<1>4. TypeOK'
  <2>1. /\ \A s \in Session : pc'[s] \in RunPlace
        /\ \A h \in Handler : pc'[h] \in HandlerPlace
        /\ \A h \in Sender : pc'[h] \in SenderPlace
        /\ pc'[Discovery] \in RefreshPlace \cup {"tick", "deliver"}
        /\ pc'[Adder] \in {"recv", "add", "gone"}
    BY <1>3, PlacesKept DEF IInv
  <2>2. dmu' \in Goroutine \cup {Nobody} /\ \A k \in Goroutine : dmu' = k <=> pc'[k] \in DPlace
    BY <1>2, <1>3, LockAssumption DEF IInv, TypeOK
  <2>3. \A s \in Session, k \in Goroutine : wmu'[s] = k <=> on'[k] = s /\ pc'[k] \in WPlace
    BY <1>2, <1>3 DEF IInv, TypeOK
  <2>. QED BY <1>3, <2>1, <2>2, <2>3 DEF TypeOK, IInv, Commands
<1>5. Bookkeeping'
  <2>1. \A k \in Goroutine : pc'[k] \in OnPlace => on'[k] \in Session
    BY <1>2, <1>3 DEF IInv, Bookkeeping
  <2>2. \A h \in Handler : pc'[h] = "used" /\ cmd'[h] = "show" => on'[h] \in Session
    BY <1>2, <1>3 DEF IInv, Bookkeeping, Goroutine, Waiter
  <2>3. \A s \in Session : on'[s] = s \/ pc'[s] = "gone"
    BY <1>2, <1>3 DEF IInv, Bookkeeping, Goroutine, Waiter, WaitPlace
  <2>4. \A s \in Session : \A i \in DOMAIN asked'[s] :
          /\ pc'[asked'[s][i]] = "wait"
          /\ on'[asked'[s][i]] = s
          /\ \A j \in DOMAIN asked'[s] : asked'[s][i] = asked'[s][j] => i = j
    <3>. SUFFICES ASSUME NEW s \in Session, NEW i \in DOMAIN asked[s]
                  PROVE  /\ pc'[asked[s][i]] = "wait"
                         /\ on'[asked[s][i]] = s
                         /\ \A j \in DOMAIN asked[s] : asked[s][i] = asked[s][j] => i = j
      OBVIOUS
    <3>1. asked[s][i] \in Goroutine
      BY DEF IInv, TypeOK, Goroutine, Waiter
    <3>2. asked[s][i] # g
      BY DEF IInv, Bookkeeping, WaitPlace
    <3>. QED BY <1>2, <1>3, <3>1, <3>2 DEF IInv, Bookkeeping, WaitPlace
  <2>5. \A s \in Session : paused'[s] # Nobody <=> pc'[s] = "paused"
    BY <1>2, <1>3 DEF IInv, Bookkeeping, Goroutine, Waiter, WaitPlace
  <2>. QED BY <2>1, <2>2, <2>3, <2>4, <2>5 DEF Bookkeeping
<1>. QED BY <1>4, <1>5 DEF IInv

\* The same when no Run loop starts.
LEMMA Moves ==
    ASSUME IInv,
           NEW g \in Goroutine,
           NEW l \in Places(g), pc' = [pc EXCEPT ![g] = l],
           NEW x \in Session \cup {Nobody}, on' = [on EXCEPT ![g] = x],
           UNCHANGED <<wmu, asked, paused>>,
           cmd' \in [Handler -> Commands],
           \A h \in Handler \ {g} : cmd'[h] = cmd[h],
           todo' \in [Goroutine -> SUBSET Session],
           dead' \in [Goroutine -> SUBSET Session],
           batches' \in {0, 1}, exited' \in BOOLEAN,
           \/ dmu' = dmu /\ (l \in DPlace <=> pc[g] \in DPlace)
           \/ dmu = g /\ dmu' = Nobody /\ l \notin DPlace,
           l \in WPlace \/ pc[g] \in WPlace => l \in WPlace /\ pc[g] \in WPlace /\ x = on[g],
           l \notin WaitPlace, pc[g] \notin WaitPlace,
           g \in Session => x = on[g],
           l \in OnPlace => x \in Session,
           g \in Handler /\ l = "used" /\ cmd'[g] = "show" => x \in Session
    PROVE  IInv'
<1>1. l \in Place
  BY LockAssumption DEF Places, Place, Goroutine, Waiter, SenderPlace, RefreshPlace, HandlerPlace, PollPlace, RunPlace
<1>2. pc'[g] = l /\ pc' \in [Goroutine -> Place]
  BY <1>1 DEF IInv, TypeOK
<1>3. \A k \in Goroutine \ {g} : Stays(k)
  BY DEF IInv, TypeOK, Stays
<1>. QED BY <1>2, <1>3, MovesAlong

\* The same for a goroutine that goes to a new place, or starts hooks besides, and
\* changes nothing else.
LEMMA Goes ==
    ASSUME IInv,
           NEW g \in Goroutine,
           NEW l \in Places(g), Goto(g, l) \/ Fire(g, l),
           UNCHANGED <<dmu, wmu, calls, daemon>>,
           l \in DPlace <=> pc[g] \in DPlace,
           l \in WPlace <=> pc[g] \in WPlace,
           l \notin WaitPlace, pc[g] \notin WaitPlace \cup {"none"},
           l \in OnPlace => on[g] \in Session,
           g \in Handler /\ l = "used" /\ cmd[g] = "show" => on[g] \in Session
    PROVE  IInv'
<1>1. on' = [on EXCEPT ![g] = on[g]] /\ on[g] \in Session \cup {Nobody}
  BY DEF IInv, TypeOK, calls
<1>2. UNCHANGED <<dmu, wmu, cmd, todo, dead, asked, paused, batches, exited>>
  BY DEF calls, daemon
<1>3. /\ cmd \in [Handler -> Commands]
      /\ todo \in [Goroutine -> SUBSET Session] /\ dead \in [Goroutine -> SUBSET Session]
      /\ batches \in {0, 1} /\ exited \in BOOLEAN
  BY DEF IInv, TypeOK, Commands
<1>4. l \in Place /\ "target" \in Place /\ pc \in [Goroutine -> Place]
  BY LockAssumption DEF Places, Place, Goroutine, Waiter, SenderPlace, RefreshPlace, HandlerPlace,
                        PollPlace, RunPlace, IInv, TypeOK
<1>5. /\ pc'[g] = l /\ pc' \in [Goroutine -> Place]
      /\ \A k \in Goroutine \ {g} : Stays(k)
  <2>1. CASE Goto(g, l)
    BY <1>4, <2>1 DEF Goto, Stays
  <2>2. CASE Fire(g, l)
    <3>1. PICK fired \in SUBSET {k \in Sender : pc[k] = "none"} :
             pc' = [k \in Goroutine |-> CASE k = g -> l
                                           [] k \in fired -> "target"
                                           [] OTHER -> pc[k]]
      BY <2>2 DEF Fire
    <3>0. g \notin fired
      BY <3>1
    <3>2. pc'[g] = l
      BY <3>0, <3>1
    <3>3. \A k \in Goroutine \ {g} :
             IF k \in fired THEN pc'[k] = "target" ELSE pc'[k] = pc[k]
      BY <3>1
    <3>4. \A k \in Goroutine : pc'[k] \in Place
      BY <1>4, <3>2, <3>3
    <3>5. \A k \in Goroutine \ {g} : Stays(k)
      BY <3>1, <3>3 DEF Stays
    <3>. QED BY <3>1, <3>2, <3>4, <3>5
  <2>. QED BY <2>1, <2>2
<1>. QED BY <1>1, <1>2, <1>3, <1>5, MovesAlong

\* One step of poll.
LEMMA PollKeeps ==
    ASSUME IInv, NEW g \in Goroutine, Poll(g)
    PROVE  IInv'
<1>1. CASE Notify(g) \/ CollectHooks(g) \/ UnlinkFiles(g)
  <2>1. PICK l : /\ Goto(g, l) \/ Fire(g, l)
                 /\ \/ pc[g] \in {"notify", "collect", "unlink"} /\ l \in {"collect", "unlink", "unlock"}
                    \/ /\ pc[g] \in {"notifyHung", "collectHung", "unlinkHung"}
                       /\ l \in {"collectHung", "unlinkHung", "tail"}
    BY <1>1 DEF Notify, CollectHooks, UnlinkFiles
  <2>2. l \in Places(g)
    BY <2>1, LockAssumption DEF IInv, TypeOK, Places, PollPlace, RunPlace, RefreshPlace, 
                HandlerPlace, SenderPlace, Goroutine, Waiter
  <2>3. /\ l \notin DPlace \cup WaitPlace \cup {"used"}
        /\ pc[g] \notin DPlace \cup WaitPlace \cup {"none"}
        /\ l \in WPlace <=> pc[g] \in WPlace
        /\ pc[g] \in OnPlace
    BY <2>1 DEF DPlace, WPlace, WaitPlace, OnPlace, PollPlace
  <2>4. on[g] \in Session
    BY <2>3 DEF IInv, Bookkeeping
  <2>. QED BY <1>1, <2>1, <2>2, <2>3, <2>4, Goes DEF Notify, CollectHooks, UnlinkFiles
<1>. USE LockAssumption DEF IInv, TypeOK, Bookkeeping, Goroutine, Waiter, Goto, UnderD, UnderW, calls,
             daemon, Place, PollPlace, RunPlace, RefreshPlace, HandlerPlace, SenderPlace, OnPlace, DPlace, WPlace
<1>2. CASE PollHung(g)
  BY <1>2 DEF PollHung
<1>3. CASE TailFails(g)
  BY <1>3 DEF TailFails
<1>4. CASE LockContent(g)
  <2>1. Bookkeeping'
    BY <1>4 DEF LockContent
  <2>2. wmu' \in [Session -> Goroutine \cup {Nobody}] /\ pc' \in [Goroutine -> Place]
    BY <1>4 DEF LockContent
  <2>3. \A s \in Session, k \in Goroutine :
          wmu'[s] = k <=> on'[k] = s /\ pc'[k] \in WPlace
    BY <1>4 DEF LockContent
  <2>4. \A k \in Goroutine : dmu' = k <=> pc'[k] \in DPlace
    BY <1>4 DEF LockContent
  <2>. QED BY <1>4, <2>1, <2>2, <2>3, <2>4 DEF LockContent
<1>5. CASE UnlockContent(g)
  <2>1. /\ pc[g] = "unlock" /\ pc' = [pc EXCEPT ![g] = "polled"]
        /\ wmu' = [wmu EXCEPT ![on[g]] = Nobody] /\ on[g] \in Session
    BY <1>5 DEF UnlockContent
  <2>2. Bookkeeping'
    BY <1>5, <2>1 DEF UnlockContent
  <2>3. wmu' \in [Session -> Goroutine \cup {Nobody}] /\ pc' \in [Goroutine -> Place]
    BY <2>1
  <2>4. \A s \in Session, k \in Goroutine :
          wmu'[s] = k <=> on'[k] = s /\ pc'[k] \in WPlace
    BY <1>5, <2>1 DEF UnlockContent
  <2>5. \A k \in Goroutine : dmu' = k <=> pc'[k] \in DPlace
    BY <1>5, <2>1 DEF UnlockContent
  <2>6. /\ \A s \in Session : pc'[s] \in RunPlace
        /\ \A h \in Handler : pc'[h] \in HandlerPlace
        /\ \A h \in Sender : pc'[h] \in SenderPlace
        /\ pc'[Discovery] \in RefreshPlace \cup {"tick", "deliver"}
        /\ pc'[Adder] \in {"recv", "add", "gone"}
    BY <2>1
  <2>. QED BY <1>5, <2>2, <2>3, <2>4, <2>5, <2>6 DEF UnlockContent
<1>. QED BY <1>1, <1>2, <1>3, <1>4, <1>5 DEF Poll

\* Taking the first request off a queue leaves a queue of waiting handlers, and
\* the one it belonged to is in it no more.
LEMMA Dequeued ==
    ASSUME IInv, NEW s \in Session, asked[s] # <<>>
    PROVE  /\ Tail(asked[s]) \in Seq(Waiter)
           /\ Head(asked[s]) \in Waiter
           /\ pc[Head(asked[s])] = "wait"
           /\ on[Head(asked[s])] = s
           /\ \A i \in DOMAIN Tail(asked[s]) :
                 /\ i + 1 \in DOMAIN asked[s]
                 /\ Tail(asked[s])[i] = asked[s][i + 1]
                 /\ Tail(asked[s])[i] # Head(asked[s])
<1>1. asked[s] \in Seq(Waiter)
  BY DEF IInv, TypeOK
<1>2. /\ Tail(asked[s]) \in Seq(Waiter)
      /\ Head(asked[s]) = asked[s][1]
      /\ 1 \in DOMAIN asked[s]
      /\ \A i \in DOMAIN Tail(asked[s]) :
           i + 1 \in DOMAIN asked[s] /\ i + 1 # 1 /\ Tail(asked[s])[i] = asked[s][i + 1]
  BY <1>1
<1>. QED BY <1>1, <1>2 DEF IInv, Bookkeeping

\* What Bookkeeping says of the requests: each waits for its answer, once.
Requests ==
    \A s \in Session : \A i \in DOMAIN asked[s] :
        /\ pc[asked[s][i]] = "wait"
        /\ on[asked[s][i]] = s
        /\ \A j \in DOMAIN asked[s] : asked[s][i] = asked[s][j] => i = j

\* Run of s goes on, and those in R, who waited for it and are in no queue any more,
\* have their results.
LEMMA Answered ==
    ASSUME IInv, NEW s \in Session, NEW R \in SUBSET Waiter,
           \A k \in R : pc[k] = "wait" /\ on[k] = s,
           pc[s] \in {"loop", "polled"},
           NEW l \in {"loop", "show", "poll"},
           pc' \in [Goroutine -> Place], pc'[s] = l,
           \A k \in R : pc'[k] = WithResult(k),
           \A k \in Goroutine \ ({s} \cup R) : pc'[k] = pc[k],
           Done(R),
           asked' \in [Session -> Seq(Waiter)],
           \A t \in Session : \A i \in DOMAIN asked'[t] :
              /\ asked'[t][i] \notin R
              /\ pc[asked'[t][i]] = "wait" /\ on[asked'[t][i]] = t
              /\ \A j \in DOMAIN asked'[t] : asked'[t][i] = asked'[t][j] => i = j,
           UNCHANGED <<dmu, wmu, cmd, todo, dead, paused, batches, exited>>
    PROVE  IInv'
<1>1. /\ s \in Goroutine /\ R \subseteq Goroutine /\ s \notin R
      /\ Session \cap Waiter = {} /\ Session \subseteq Goroutine /\ Waiter \subseteq Goroutine
      /\ {Discovery, Adder} \subseteq Goroutine \ ({s} \cup R)
      /\ Handler \cap Sender = {} /\ Session \cap Handler = {} /\ Session \cap Sender = {}
  BY LockAssumption DEF Goroutine, Waiter
<1>2. /\ \A k \in R : /\ pc'[k] \in {"used", "none"}
                      /\ k \in Handler => pc'[k] = "used"
                      /\ k \in Sender => pc'[k] = "none"
      /\ l \notin DPlace \cup WPlace \cup WaitPlace \cup {"used"}
  BY <1>1 DEF WithResult, DPlace, WPlace, WaitPlace, Waiter
<1>3. /\ on' \in [Goroutine -> Session \cup {Nobody}]
      /\ \A k \in Goroutine \ (R \cap Sender) : on'[k] = on[k]
  <2>1. \A k \in Goroutine : on'[k] = IF k \in R \cap Sender THEN Nobody ELSE on[k]
    BY DEF Done
  <2>2. \A k \in Goroutine : on[k] \in Session \cup {Nobody}
    BY DEF IInv, TypeOK
  <2>3. \A k \in Goroutine : on'[k] \in Session \cup {Nobody}
    BY <2>1, <2>2
  <2>. QED BY <2>1, <2>3 DEF Done
<1>4. \A k \in Goroutine : /\ pc'[k] \in DPlace <=> pc[k] \in DPlace
                           /\ pc'[k] \in WPlace <=> pc[k] \in WPlace
  <2>1. pc[s] \notin DPlace \cup WPlace /\ \A k \in R : pc[k] \notin DPlace \cup WPlace
    BY DEF DPlace, WPlace
  <2>2. \A k \in R : pc'[k] \notin DPlace \cup WPlace
    BY <1>2 DEF DPlace, WPlace
  <2>. QED BY <1>1, <1>2, <2>1, <2>2
<1>5. TypeOK'
  <2>1. /\ \A t \in Session : pc'[t] \in RunPlace
        /\ \A h \in Handler : pc'[h] \in HandlerPlace
        /\ \A h \in Sender : pc'[h] \in SenderPlace
        /\ pc'[Discovery] = pc[Discovery]
        /\ pc'[Adder] = pc[Adder]
    <3>1. l \in RunPlace /\ "used" \in HandlerPlace /\ "none" \in SenderPlace
      BY DEF RunPlace, PollPlace, HandlerPlace, SenderPlace
    <3>2. /\ \A t \in Session : pc[t] \in RunPlace
          /\ \A h \in Handler : pc[h] \in HandlerPlace
          /\ \A h \in Sender : pc[h] \in SenderPlace
      BY DEF IInv, TypeOK
    <3>3. \A t \in Session : pc'[t] \in RunPlace
      BY <1>1, <3>1, <3>2
    <3>4. \A h \in Handler : pc'[h] \in HandlerPlace
      BY <1>1, <1>2, <3>1, <3>2 DEF Waiter
    <3>5. \A h \in Sender : pc'[h] \in SenderPlace
      BY <1>1, <1>2, <3>1, <3>2 DEF Waiter
    <3>. QED BY <1>1, <3>3, <3>4, <3>5
  <2>2. \A g \in Goroutine : dmu' = g <=> pc'[g] \in DPlace
    BY <1>4 DEF IInv, TypeOK
  <2>3. \A t \in Session, g \in Goroutine : wmu'[t] = g <=> on'[g] = t /\ pc'[g] \in WPlace
    <3>1. \A g \in R : pc[g] \notin WPlace
      BY DEF WPlace
    <3>. QED BY <1>1, <1>3, <1>4, <3>1 DEF IInv, TypeOK
  <2>. QED BY <1>3, <2>1, <2>2, <2>3 DEF IInv, TypeOK
<1>6. Requests'
  <2>. SUFFICES ASSUME NEW t \in Session, NEW i \in DOMAIN asked'[t]
                PROVE  /\ pc'[asked'[t][i]] = "wait"
                       /\ on'[asked'[t][i]] = t
                       /\ \A j \in DOMAIN asked'[t] : asked'[t][i] = asked'[t][j] => i = j
    BY DEF Requests
  <2>1. asked'[t][i] \in Waiter \ R
    OBVIOUS
  <2>2. asked'[t][i] \in Goroutine \ ({s} \cup R)
    BY <1>1, <2>1
  <2>. QED BY <1>3, <2>2
<1>7. /\ \A g \in Goroutine : pc'[g] \in OnPlace => on'[g] \in Session
      /\ \A h \in Handler : pc'[h] = "used" /\ cmd'[h] = "show" => on'[h] \in Session
  <2>1. \A g \in R : pc'[g] \notin OnPlace
    BY <1>2 DEF OnPlace, PollPlace
  <2>2. on'[s] = on[s] /\ on[s] \in Session
    BY <1>1, <1>3 DEF IInv, Bookkeeping, WaitPlace
  <2>3. \A g \in Goroutine : pc'[g] \in OnPlace => on'[g] \in Session
    BY <1>1, <1>3, <2>1, <2>2 DEF IInv, Bookkeeping
  <2>4. ASSUME NEW h \in Handler, pc'[h] = "used", cmd'[h] = "show" PROVE on'[h] \in Session
    <3>1. on'[h] = on[h]
      BY <1>1, <1>3 DEF Waiter
    <3>2. CASE h \in R
      BY <3>1, <3>2
    <3>3. CASE h \notin R
      BY <1>1, <2>4, <3>1, <3>3 DEF IInv, Bookkeeping, Waiter
    <3>. QED BY <3>2, <3>3
  <2>. QED BY <2>3, <2>4
<1>8. \A t \in Session : /\ on'[t] = t \/ pc'[t] = "gone"
                         /\ paused'[t] # Nobody <=> pc'[t] = "paused"
  <2>1. \A t \in Session : on'[t] = on[t] /\ (t # s => pc'[t] = pc[t])
    BY <1>1, <1>3
  <2>2. pc'[s] \notin {"paused", "gone"} /\ pc[s] \notin {"paused", "gone"}
    BY <1>2 DEF WaitPlace
  <2>. QED BY <2>1, <2>2 DEF IInv, Bookkeeping
<1>. QED BY <1>5, <1>6, <1>7, <1>8 DEF IInv, Bookkeeping, Requests

\* One step of Run, polls aside.
LEMMA RunKeeps ==
    ASSUME IInv, NEW s \in Session, Run(s)
    PROVE  IInv'
<1>0. /\ s \in Goroutine /\ Session \cap Waiter = {} /\ Waiter \subseteq Goroutine
      /\ pc \in [Goroutine -> Place] /\ asked \in [Session -> Seq(Waiter)]
      /\ {"loop", "show", "poll", "used", "none"} \subseteq Place
  BY LockAssumption DEF Goroutine, Waiter, IInv, TypeOK, Place, RunPlace, PollPlace, HandlerPlace,
                        SenderPlace
<1>1. CASE RunServes(s) \/ RunServeFails(s)
  <2>. DEFINE q == Head(asked[s])
  <2>1. /\ pc[s] = "loop"
        /\ asked[s] # <<>> /\ asked' = [asked EXCEPT ![s] = Tail(@)]
        /\ UNCHANGED <<dmu, wmu, cmd, todo, dead, paused, batches, exited>>
    BY <1>1 DEF RunServes, RunServeFails, daemon
  <2>2. q \in Waiter /\ pc[q] = "wait" /\ on[q] = s
    BY <2>1, Dequeued
  <2>3. asked' \in [Session -> Seq(Waiter)]
    BY <2>1, Dequeued, <1>0
  <2>4. ASSUME NEW t \in Session, NEW i \in DOMAIN asked'[t]
        PROVE  /\ asked'[t][i] # q
               /\ pc[asked'[t][i]] = "wait" /\ on[asked'[t][i]] = t
               /\ \A j \in DOMAIN asked'[t] : asked'[t][i] = asked'[t][j] => i = j
    <3>1. CASE t # s
      <4>1. asked'[t] = asked[t]
        BY <1>0, <2>1, <3>1
      <4>. QED BY <2>2, <3>1, <4>1 DEF IInv, Bookkeeping
    <3>2. CASE t = s
      <4>1. asked'[t] = Tail(asked[s])
        BY <1>0, <2>1, <3>2
      <4>2. \A j \in DOMAIN asked'[t] :
               /\ j \in Nat
               /\ j + 1 \in DOMAIN asked[s]
               /\ asked'[t][j] = asked[s][j + 1]
               /\ asked[s][j + 1] # q
        BY <1>0, <2>1, <4>1, Dequeued
      <4>3. pc[asked[s][i + 1]] = "wait" /\ on[asked[s][i + 1]] = s
        BY <4>2 DEF IInv, Bookkeeping
      <4>4. ASSUME NEW j \in DOMAIN asked'[t], asked'[t][i] = asked'[t][j] PROVE i = j
        <5>1. i + 1 = j + 1
          BY <4>2, <4>4 DEF IInv, Bookkeeping
        <5>. QED BY <4>2, <5>1
      <4>. QED BY <3>2, <4>2, <4>3, <4>4
    <3>. QED BY <3>1, <3>2
  <2>. HIDE DEF q
  <2>5. CASE RunServes(s)
    <3>1. PICK l \in {"show", "poll"} : pc' = [pc EXCEPT ![s] = l]
      BY <2>5 DEF RunServes, Goto
    <3>2. pc'[s] = l /\ pc' \in [Goroutine -> Place] /\ \A k \in Goroutine \ {s} : pc'[k] = pc[k]
      BY <1>0, <3>1
    <3>3. on' = [g \in Goroutine |-> IF g \in {} \cap Sender THEN Nobody ELSE on[g]]
      BY <2>5 DEF RunServes, IInv, TypeOK
    <3>. DEFINE R == {}
    <3>4. /\ R \in SUBSET Waiter /\ Goroutine \ ({s} \cup R) = Goroutine \ {s}
          /\ \A k \in R : pc[k] = "wait" /\ on[k] = s /\ pc'[k] = WithResult(k)
          /\ \A e : e \notin R
      OBVIOUS
    <3>5. Done(R)
      BY <3>3 DEF Done
    <3>6. l \in {"loop", "show", "poll"} /\ pc[s] \in {"loop", "polled"}
      BY <2>1
    <3>. HIDE DEF R
    <3>7. \A k \in Goroutine \ ({s} \cup R) : pc'[k] = pc[k]
      BY <3>2, <3>4
    <3>8. \A t \in Session : \A i \in DOMAIN asked'[t] :
              /\ asked'[t][i] \notin R
              /\ pc[asked'[t][i]] = "wait" /\ on[asked'[t][i]] = t
              /\ \A j \in DOMAIN asked'[t] : asked'[t][i] = asked'[t][j] => i = j
      BY <2>4, <3>4
    <3>. QED BY <2>1, <2>3, <3>2, <3>4, <3>5, <3>6, <3>7, <3>8, Answered
  <2>6. CASE RunServeFails(s)
    <3>1. pc' = [pc EXCEPT ![q] = WithResult(q)] /\ Done({q})
      BY <2>6 DEF RunServeFails, Goto, q
    <3>2. WithResult(q) \in Place /\ q # s
      BY <1>0, <2>2 DEF WithResult
    <3>3. /\ pc'[q] = WithResult(q) /\ pc' \in [Goroutine -> Place]
          /\ \A k \in Goroutine \ {q} : pc'[k] = pc[k]
      BY <1>0, <2>2, <3>1, <3>2
    <3>4. pc'[s] = "loop"
      BY <1>0, <2>1, <3>2, <3>3
    <3>. QED BY <2>1, <2>2, <2>3, <2>4, <3>1, <3>3, <3>4, Answered
  <2>. QED BY <1>1, <2>5, <2>6
<1>2. CASE RunPolled(s)
  <2>1. Served(s) \in SUBSET Waiter /\ \A k \in Served(s) : pc[k] = "wait" /\ on[k] = s
    BY DEF Served
  <2>2. /\ pc[s] = "polled" /\ pc'[s] = "loop"
        /\ \A k \in Served(s) : pc'[k] = WithResult(k)
        /\ \A k \in Goroutine \ ({s} \cup Served(s)) : pc'[k] = pc[k]
    BY <1>0, <1>2, <2>1 DEF RunPolled
  <2>3. pc' \in [Goroutine -> Place]
    <3>1. \A k \in Goroutine : pc'[k] \in Place
      BY <1>0, <2>1, <2>2 DEF WithResult
    <3>. QED BY <1>2, <3>1 DEF RunPolled
  <2>4. ASSUME NEW t \in Session, NEW i \in DOMAIN asked[t]
        PROVE  /\ asked[t][i] \notin Served(s)
               /\ pc[asked[t][i]] = "wait" /\ on[asked[t][i]] = t
               /\ \A j \in DOMAIN asked[t] : asked[t][i] = asked[t][j] => i = j
    BY DEF IInv, Bookkeeping, Served, Queued
  <2>. QED BY <1>0, <1>2, <2>1, <2>2, <2>3, <2>4, Answered DEF RunPolled, daemon
<1>. USE LockAssumption DEF IInv, TypeOK, Bookkeeping, Goroutine, Waiter, Goto, calls, daemon, Place,
         PollPlace, RunPlace, RefreshPlace, HandlerPlace, SenderPlace, OnPlace, DPlace, WPlace
<1>3. CASE RunPolls(s)
  BY <1>3 DEF RunPolls
<1>4. CASE RunEnds(s)
  BY <1>4 DEF RunEnds
<1>. QED BY <1>1, <1>2, <1>3, <1>4 DEF Run

\* The rendezvous on pauseCh.
LEMMA PauseKeeps ==
    ASSUME IInv, NEW s \in Session, NEW h \in Handler, Pause(s, h)
    PROVE  IInv'
<1>1. /\ pc[s] = "loop" /\ pc[h] = "pause" /\ on[h] = s
      /\ pc' = [pc EXCEPT ![s] = "paused", ![h] = "used"]
      /\ paused' = [paused EXCEPT ![s] = h]
      /\ UNCHANGED <<dmu, wmu, cmd, on, todo, dead, asked, batches, exited>>
  BY DEF Pause, daemon
<1>2. s \in Goroutine /\ h \in Goroutine /\ h \notin Session /\ Handler \subseteq Goroutine
      /\ Session \subseteq Goroutine
  BY LockAssumption DEF Goroutine, Waiter
<1>3. /\ pc'[s] = "paused" /\ pc'[h] = "used" /\ paused'[s] = h
      /\ \A g \in Goroutine \ {s, h} : pc'[g] = pc[g]
      /\ \A t \in Session \ {s} : paused'[t] = paused[t]
      /\ pc' \in [Goroutine -> Place]
  <2>1. "paused" \in Place /\ "used" \in Place /\ s # h
    BY <1>2 DEF Place, RunPlace, HandlerPlace
  <2>2. pc \in [Goroutine -> Place] /\ paused \in [Session -> Handler \cup {Nobody}]
    BY DEF IInv, TypeOK
  <2>. QED BY <1>1, <1>2, <2>1, <2>2
<1>4. TypeOK'
  <2>1. \A g \in Goroutine : /\ pc'[g] \in DPlace <=> pc[g] \in DPlace
                             /\ pc'[g] \in WPlace <=> pc[g] \in WPlace
    BY <1>1, <1>3 DEF DPlace, WPlace
  <2>2. /\ \A t \in Session : pc'[t] \in RunPlace
        /\ \A k \in Handler : pc'[k] \in HandlerPlace
        /\ \A k \in Sender : pc'[k] \in SenderPlace
        /\ pc'[Discovery] = pc[Discovery] /\ pc'[Adder] = pc[Adder]
    <3>1. "paused" \in RunPlace /\ "used" \in HandlerPlace
      BY DEF RunPlace, HandlerPlace
    <3>2. {Discovery, Adder} \subseteq Goroutine \ {s, h}
      BY LockAssumption DEF Goroutine, Waiter
    <3>3. \A t \in Session \ {s} : pc'[t] = pc[t]
      BY <1>2, <1>3, LockAssumption
    <3>4. \A k \in Handler \ {h} : pc'[k] = pc[k]
      BY <1>2, <1>3, LockAssumption
    <3>5. /\ \A t \in Session : pc[t] \in RunPlace
          /\ \A k \in Handler : pc[k] \in HandlerPlace
      BY DEF IInv, TypeOK
    <3>6. \A t \in Session : pc'[t] \in RunPlace
      BY <1>3, <3>1, <3>3, <3>5
    <3>7. \A k \in Handler : pc'[k] \in HandlerPlace
      BY <1>3, <3>1, <3>4, <3>5
    <3>8. \A k \in Sender : pc'[k] \in SenderPlace
      <4>1. \A k \in Sender : pc'[k] = pc[k]
        BY <1>3, LockAssumption DEF Goroutine, Waiter
      <4>. QED BY <4>1 DEF IInv, TypeOK
    <3>. QED BY <1>3, <3>2, <3>6, <3>7, <3>8
  <2>3. paused' \in [Session -> Handler \cup {Nobody}]
    BY <1>1 DEF IInv, TypeOK
  <2>4. \A t \in Session, g \in Goroutine :
           wmu'[t] = g <=> on'[g] = t /\ pc'[g] \in WPlace
    <3>1. \A t \in Session, g \in Goroutine : wmu[t] = g <=> on[g] = t /\ pc[g] \in WPlace
      BY DEF IInv, TypeOK
    <3>2. wmu' = wmu /\ on' = on
      BY <1>1
    <3>. QED BY <2>1, <3>1, <3>2, Zenon
  <2>5. dmu' \in Goroutine \cup {Nobody} /\ \A g \in Goroutine : dmu' = g <=> pc'[g] \in DPlace
    BY <1>1, <2>1 DEF IInv, TypeOK
  <2>6. /\ pc'[Discovery] \in RefreshPlace \cup {"tick", "deliver"}
        /\ pc'[Adder] \in {"recv", "add", "gone"}
    BY <2>2 DEF IInv, TypeOK
  <2>7. /\ wmu' \in [Session -> Goroutine \cup {Nobody}] /\ cmd' = cmd /\ on' = on
        /\ todo' = todo /\ dead' = dead /\ asked' = asked
        /\ batches' = batches /\ exited' = exited
    BY <1>1 DEF IInv, TypeOK
  <2>. QED BY <1>3, <2>2, <2>3, <2>4, <2>5, <2>6, <2>7 DEF IInv, TypeOK
<1>5. Bookkeeping'
  <2>1. \A g \in Goroutine : pc'[g] \in OnPlace => on'[g] \in Session
    BY <1>1, <1>3 DEF IInv, Bookkeeping, OnPlace, PollPlace
  <2>2. \A k \in Handler : pc'[k] = "used" /\ cmd'[k] = "show" => on'[k] \in Session
    BY <1>1, <1>2, <1>3 DEF IInv, Bookkeeping
  <2>3. \A t \in Session : on'[t] = t \/ pc'[t] = "gone"
    BY <1>1, <1>2, <1>3 DEF IInv, Bookkeeping
  <2>4. Requests'
    <3>1. \A t \in Session : \A i \in DOMAIN asked[t] :
             asked[t][i] \in Goroutine \ {s, h}
      BY <1>1, <1>2 DEF IInv, TypeOK, Bookkeeping, Goroutine
    <3>. QED BY <1>1, <1>3, <3>1 DEF IInv, Bookkeeping, Requests
  <2>5. \A t \in Session : paused'[t] # Nobody <=> pc'[t] = "paused"
    BY <1>2, <1>3, LockAssumption DEF IInv, Bookkeeping, Goroutine, Waiter
  <2>. QED BY <2>1, <2>2, <2>3, <2>4, <2>5 DEF Bookkeeping, Requests
<1>. QED BY <1>4, <1>5 DEF IInv

\* Where refreshSessions leads.
LEMMA OnwardPlaces ==
    ASSUME NEW g, NEW D
    PROVE  /\ Onward(g, D) \in {"revive", "deliver", "snapshot", "findAgain"}
           /\ Onward(g, D) = "revive" \/ (g = Discovery <=> Onward(g, D) = "deliver")
  BY DEF Onward

\* One step of refreshSessions, listSessions or snapshotSessions.
LEMMA RefreshKeeps ==
    ASSUME IInv, NEW g \in Goroutine, Refresh(g)
    PROVE  IInv'
<1>1. CASE ReadWatcher(g)
  <2>1. /\ \E s \in Session : todo' = [todo EXCEPT ![g] = @ \ {s}]
        /\ UNCHANGED <<dmu, wmu, pc, cmd, on, asked, paused, batches, exited>>
    BY <1>1 DEF ReadWatcher, daemon, IInv, TypeOK
  <2>2. todo' \in [Goroutine -> SUBSET Session]
    BY <2>1 DEF IInv, TypeOK
  <2>3. dead' \in [Goroutine -> SUBSET Session]
    BY <1>1 DEF ReadWatcher, IInv, TypeOK
  <2>. QED BY <2>1, <2>2, <2>3 DEF IInv, TypeOK, Bookkeeping
<1>2. CASE UnlockSessions(g)
  <2>0. dmu = g
    BY <1>2 DEF UnlockSessions, IInv, TypeOK, DPlace
  <2>1. PICK l \in {"revive", "deliver", "snapshot", "findAgain", "answer", "hook"} :
          /\ pc' = [pc EXCEPT ![g] = l]
          /\ l = "deliver" => g = Discovery /\ pc[g] = "walk"
          /\ pc[g] = "collate" => l \in {"snapshot", "answer", "hook"}
          /\ pc[g] = "walk" => l \in {"revive", "deliver"} \/ g # Discovery
          /\ pc[g] \in {"walk", "collate"}
    BY <1>2 DEF UnlockSessions, Collated, Onward, Goto
  <2>2. l \in Places(g)
    BY <2>1, LockAssumption DEF IInv, TypeOK, Places, PollPlace, RunPlace, RefreshPlace, 
                HandlerPlace, SenderPlace, Goroutine, Waiter
  <2>3. /\ l \notin DPlace \cup WPlace \cup WaitPlace \cup OnPlace \cup {"used"}
        /\ pc[g] \notin WPlace \cup WaitPlace
    BY <2>1 DEF DPlace, WPlace, WaitPlace, OnPlace, PollPlace
  <2>4. /\ cmd' \in [Handler -> Commands]
        /\ \A h \in Handler \ {g} : cmd'[h] = cmd[h]
    BY <1>2 DEF UnlockSessions, Collated, IInv, TypeOK, Commands
  <2>5. UNCHANGED <<wmu, on, todo, dead, asked, paused, batches, exited>> /\ dmu' = Nobody
    BY <1>2 DEF UnlockSessions, daemon, Released
  <2>6. on' = [on EXCEPT ![g] = on[g]] /\ on[g] \in Session \cup {Nobody}
    BY <2>5 DEF IInv, TypeOK
  <2>7. /\ todo \in [Goroutine -> SUBSET Session] /\ dead \in [Goroutine -> SUBSET Session]
        /\ batches \in {0, 1} /\ exited \in BOOLEAN
    BY DEF IInv, TypeOK
  <2>. QED BY <2>0, <2>1, <2>2, <2>3, <2>4, <2>5, <2>6, <2>7, Moves
<1>3. CASE LockSessions(g)
  <2>1. PICK l \in DPlace : pc' = [pc EXCEPT ![g] = l] /\ (l = "collate" => pc[g] = "snapshot")
    BY <1>3 DEF LockSessions, Goto, DPlace
  <2>2. /\ dmu = Nobody /\ dmu' = g
        /\ todo' = [todo EXCEPT ![g] = Session]
        /\ pc[g] \in {"refresh", "snapshot"}
        /\ UNCHANGED <<wmu, cmd, on, dead, asked, paused, batches, exited>>
    BY <1>3 DEF LockSessions, UnderD, daemon
  <2>3. /\ pc'[g] = l /\ pc' \in [Goroutine -> Place]
        /\ \A k \in Goroutine \ {g} : pc'[k] = pc[k]
    BY <2>1 DEF IInv, TypeOK, DPlace, Place, HandlerPlace, RefreshPlace
  <2>4. l \in Places(g)
    BY <2>1, <2>2, LockAssumption DEF IInv, TypeOK, Places, PollPlace, RunPlace, RefreshPlace, 
                      HandlerPlace, SenderPlace, Goroutine, Waiter, DPlace
  <2>5. /\ l \notin WPlace \cup OnPlace \cup WaitPlace \cup {"used"}
        /\ pc[g] \notin WPlace \cup OnPlace \cup WaitPlace
    BY <2>1, <2>2 DEF DPlace, WPlace, OnPlace, PollPlace, WaitPlace
  <2>6. TypeOK'
    <3>1. /\ \A s \in Session : pc'[s] \in RunPlace
          /\ \A h \in Handler : pc'[h] \in HandlerPlace
          /\ \A h \in Sender : pc'[h] \in SenderPlace
          /\ pc'[Discovery] \in RefreshPlace \cup {"tick", "deliver"}
          /\ pc'[Adder] \in {"recv", "add", "gone"}
      BY <2>3, <2>4, PlacesKept DEF IInv, Stays
    <3>2. \A k \in Goroutine : dmu' = k <=> pc'[k] \in DPlace
      <4>1. \A k \in Goroutine : pc[k] \notin DPlace
        BY <2>2, LockAssumption DEF IInv, TypeOK
      <4>2. dmu' = g /\ pc'[g] \in DPlace
        BY <2>1, <2>2, <2>3
      <4>3. ASSUME NEW k \in Goroutine, k # g PROVE pc'[k] \notin DPlace
        BY <2>3, <4>1, <4>3
      <4>. QED BY <4>2, <4>3
    <3>3. \A s \in Session, k \in Goroutine : wmu'[s] = k <=> on'[k] = s /\ pc'[k] \in WPlace
      <4>1. \A k \in Goroutine : pc'[k] \in WPlace <=> pc[k] \in WPlace
        BY <2>3, <2>5
      <4>2. \A s \in Session, k \in Goroutine : wmu[s] = k <=> on[k] = s /\ pc[k] \in WPlace
        BY DEF IInv, TypeOK
      <4>3. wmu' = wmu /\ on' = on
        BY <2>2
      <4>. QED BY <4>1, <4>2, <4>3, Zenon
    <3>. QED BY <2>2, <2>3, <3>1, <3>2, <3>3 DEF IInv, TypeOK
  <2>7. Bookkeeping'
    <3>1. Requests'
      <4>1. \A s \in Session : \A i \in DOMAIN asked[s] : asked[s][i] \in Goroutine \ {g}
        BY <2>2 DEF IInv, TypeOK, Bookkeeping, Goroutine, Waiter
      <4>. QED BY <2>2, <2>3, <4>1 DEF IInv, Bookkeeping, Requests
    <3>2. \A k \in Goroutine : pc'[k] \in OnPlace => on'[k] \in Session
      BY <2>2, <2>3, <2>5 DEF IInv, Bookkeeping
    <3>3. \A h \in Handler : pc'[h] = "used" /\ cmd'[h] = "show" => on'[h] \in Session
      BY <2>2, <2>3, <2>5 DEF IInv, Bookkeeping, Goroutine, Waiter
    <3>4. \A s \in Session : /\ on'[s] = s \/ pc'[s] = "gone"
                             /\ paused'[s] # Nobody <=> pc'[s] = "paused"
      BY <2>2, <2>3, <2>5 DEF IInv, Bookkeeping, Goroutine, Waiter, WaitPlace
    <3>. QED BY <3>1, <3>2, <3>3, <3>4 DEF Bookkeeping, Requests
  <2>. QED BY <2>6, <2>7 DEF IInv
<1>4. CASE ReviveNext(g)
  <2>1. /\ pc[g] = "revive"
        /\ dead' \in [Goroutine -> SUBSET Session]
        /\ UNCHANGED <<dmu, wmu, cmd, todo, asked, paused, batches, exited>>
    BY <1>4 DEF ReviveNext, daemon, IInv, TypeOK
  <2>2. g \notin Session /\ g # Adder /\ g \notin Sender
    BY <2>1 DEF IInv, TypeOK, RunPlace, PollPlace, SenderPlace
  <2>3. PICK x \in Session \cup {Nobody}, l \in {"status", "revive", "deliver", "snapshot", "findAgain"} :
          /\ on' = [on EXCEPT ![g] = x]
          /\ pc' = [pc EXCEPT ![g] = l]
          /\ l = "status" => x \in Session
          /\ l \in {"status", "revive"} \/ (g = Discovery <=> l = "deliver")
    <3>1. CASE \E s \in Session : on' = [on EXCEPT ![g] = s] /\ pc' = [pc EXCEPT ![g] = "status"]
      BY <3>1
    <3>2. CASE on' = on /\ \E D : pc' = [pc EXCEPT ![g] = Onward(g, D)]
      <4>1. on' = [on EXCEPT ![g] = on[g]] /\ on[g] \in Session \cup {Nobody}
        BY <3>2 DEF IInv, TypeOK
      <4>2. PICK D : pc' = [pc EXCEPT ![g] = Onward(g, D)]
        BY <3>2
      <4>. QED BY <4>1, <4>2, OnwardPlaces
    <3>3. \E s \in dead[g] :
            \/ on' = [on EXCEPT ![g] = s] /\ pc' = [pc EXCEPT ![g] = "status"]
            \/ on' = on /\ pc' = [pc EXCEPT ![g] = Onward(g, dead'[g])]
      BY <1>4 DEF ReviveNext, Goto
    <3>4. dead[g] \subseteq Session
      BY DEF IInv, TypeOK
    <3>. QED BY <3>1, <3>2, <3>3, <3>4
  <2>4. l \in Places(g)
    BY <2>2, <2>3, LockAssumption DEF Places, RefreshPlace, HandlerPlace, Goroutine, Waiter
  <2>5. /\ l \notin DPlace \cup WPlace \cup WaitPlace \cup {"used"}
        /\ l \in OnPlace => l = "status"
        /\ pc[g] \notin DPlace \cup WPlace \cup WaitPlace
    BY <2>1, <2>3 DEF DPlace, WPlace, WaitPlace, OnPlace, PollPlace
  <2>6. /\ cmd \in [Handler -> Commands] /\ todo \in [Goroutine -> SUBSET Session]
        /\ batches \in {0, 1} /\ exited \in BOOLEAN
    BY DEF IInv, TypeOK, Commands
  <2>. QED BY <2>1, <2>2, <2>3, <2>4, <2>5, <2>6, Moves
<1>5. CASE Revive(g) \/ Revived(g)
  <2>1. /\ pc[g] \in {"status", "polled"}
        /\ UNCHANGED <<dmu, wmu, cmd, todo, dead, asked, paused, batches, exited>>
    BY <1>5 DEF Revive, Revived, daemon
  <2>2. g \notin Session /\ g # Adder /\ g \notin Sender
    BY <1>5, LockAssumption DEF Revive, Revived, Refreshing, Waiter
  <2>3. on[g] \in Session
    BY <2>1 DEF IInv, Bookkeeping, OnPlace, PollPlace
  <2>4. PICK x \in Session \cup {Nobody},
             l \in {"poll", "revive", "deliver", "snapshot", "findAgain"} :
          /\ on' = [on EXCEPT ![g] = x]
          /\ pc' = [pc EXCEPT ![g] = l] \/ pc' = Started(g, l, on[g])
          /\ l = "poll" => x \in Session
          /\ l \in {"poll", "revive"} \/ (g = Discovery <=> l = "deliver")
    <3>1. CASE Goto(g, "poll") /\ UNCHANGED on
      <4>1. on' = [on EXCEPT ![g] = on[g]]
        BY <3>1 DEF IInv, TypeOK
      <4>. QED BY <2>3, <3>1, <4>1 DEF Goto
    <3>2. CASE LeaveRevived(g)
      BY <3>2, OnwardPlaces DEF LeaveRevived, Goto
    <3>. QED BY <1>5, <3>1, <3>2 DEF Revive, Revived
  <2>8. /\ pc'[g] = l /\ pc' \in [Goroutine -> Place]
        /\ \A k \in Goroutine \ {g} : Stays(k)
    <3>1. l \in Place /\ "loop" \in Place
      BY DEF Place, HandlerPlace, RefreshPlace, PollPlace, RunPlace
    <3>2. CASE pc' = [pc EXCEPT ![g] = l]
      BY <3>1, <3>2 DEF IInv, TypeOK, Stays
    <3>3. CASE pc' = Started(g, l, on[g])
      <4>1. on[g] # g /\ on[g] \in Goroutine
        BY <2>2, <2>3 DEF Goroutine, Waiter
      <4>2. /\ pc'[g] = l
            /\ pc'[on[g]] = IF pc[on[g]] = "ended" THEN "loop" ELSE pc[on[g]]
            /\ \A k \in Goroutine \ {g, on[g]} : pc'[k] = pc[k]
        BY <3>3, <4>1 DEF Started, IInv, TypeOK
      <4>3. pc' \in [Goroutine -> Place]
        BY <3>1, <3>3, <4>1 DEF Started, IInv, TypeOK
      <4>4. pc[on[g]] = "ended" => pc'[on[g]] = "loop"
        BY <4>2
      <4>5. pc[on[g]] # "ended" => pc'[on[g]] = pc[on[g]]
        BY <4>2
      <4>6. \A k \in Goroutine \ {g} : Stays(k)
        BY <2>3, <4>2, <4>4, <4>5 DEF Stays
      <4>. QED BY <4>2, <4>3, <4>6
    <3>. QED BY <2>4, <3>2, <3>3
  <2>5. l \in Places(g)
    BY <2>2, <2>4, LockAssumption DEF Places, RefreshPlace, HandlerPlace, PollPlace, Goroutine, Waiter
  <2>6. /\ l \notin DPlace \cup WPlace \cup WaitPlace \cup {"used"}
        /\ l \in OnPlace => l = "poll"
        /\ pc[g] \notin DPlace \cup WPlace \cup WaitPlace
    BY <2>1, <2>4 DEF DPlace, WPlace, WaitPlace, OnPlace, PollPlace
  <2>7. /\ cmd \in [Handler -> Commands] /\ todo \in [Goroutine -> SUBSET Session]
        /\ dead \in [Goroutine -> SUBSET Session]
        /\ batches \in {0, 1} /\ exited \in BOOLEAN
    BY DEF IInv, TypeOK, Commands
  <2>. QED BY <2>1, <2>2, <2>4, <2>5, <2>6, <2>7, <2>8, MovesAlong
<1>. QED BY <1>1, <1>2, <1>3, <1>4, <1>5 DEF Refresh

\* A handler that goes to a new place, session and command, holding no mutex.
LEMMA HandlerMoves ==
    ASSUME IInv,
           NEW h \in Handler,
           NEW l \in HandlerPlace, pc' = [pc EXCEPT ![h] = l],
           NEW x \in Session \cup {Nobody}, on' = [on EXCEPT ![h] = x],
           NEW c \in Commands, cmd' = [cmd EXCEPT ![h] = c],
           UNCHANGED <<dmu, wmu, todo, dead, asked, paused, daemon>>,
           l \notin DPlace \cup WPlace \cup WaitPlace,
           pc[h] \notin DPlace \cup WPlace \cup WaitPlace,
           l \in OnPlace => x \in Session,
           l = "used" /\ c = "show" => x \in Session
    PROVE  IInv'
<1>1. h \in Goroutine /\ h \notin Session /\ l \in Places(h)
  BY LockAssumption DEF Goroutine, Waiter, Places
<1>2. /\ cmd' \in [Handler -> Commands] /\ cmd'[h] = c
      /\ \A k \in Handler \ {h} : cmd'[k] = cmd[k]
  BY DEF IInv, TypeOK, Commands
<1>3. /\ UNCHANGED <<batches, exited>>
      /\ todo \in [Goroutine -> SUBSET Session] /\ dead \in [Goroutine -> SUBSET Session]
      /\ batches \in {0, 1} /\ exited \in BOOLEAN
  BY DEF IInv, TypeOK, daemon
<1>. QED BY <1>1, <1>2, <1>3, Moves

\* A request joins the queue of its session, and whoever made it waits.
LEMMA Enqueues ==
    ASSUME IInv, NEW h \in Waiter, pc[h] \in {"live", "check"},
           asked' = [asked EXCEPT ![on[h]] = Append(@, h)], Goto(h, "wait"),
           UNCHANGED <<dmu, wmu, cmd, on, todo, dead, paused, daemon>>
    PROVE  IInv'
<1>0. /\ pc[h] \in {"live", "check"} /\ h \in Goroutine /\ on[h] \in Session
      /\ Goto(h, "wait") /\ asked' = [asked EXCEPT ![on[h]] = Append(@, h)]
      /\ UNCHANGED <<dmu, wmu, cmd, on, todo, dead, paused, daemon>>
  BY DEF IInv, Bookkeeping, OnPlace, Goroutine, Waiter
<1>1. /\ pc'[h] = "wait" /\ pc' \in [Goroutine -> Place]
      /\ \A g \in Goroutine \ {h} : pc'[g] = pc[g]
  BY <1>0 DEF IInv, TypeOK, Goto, Place, HandlerPlace, SenderPlace
<1>2. /\ asked[on[h]] \in Seq(Waiter)
      /\ asked' \in [Session -> Seq(Waiter)]
      /\ asked'[on[h]] = Append(asked[on[h]], h)
      /\ \A t \in Session \ {on[h]} : asked'[t] = asked[t]
  BY <1>0 DEF IInv, TypeOK
<1>3. "wait" \in Places(h) /\ h \notin Session
  BY LockAssumption DEF Places, HandlerPlace, SenderPlace, Goroutine, Waiter
<1>4. "wait" \notin DPlace \cup WPlace /\ pc[h] \notin DPlace \cup WPlace
  BY <1>0 DEF DPlace, WPlace
<1>5. \A g \in Goroutine : /\ pc'[g] \in DPlace <=> pc[g] \in DPlace
                           /\ pc'[g] \in WPlace <=> pc[g] \in WPlace
  BY <1>1, <1>4
<1>6. TypeOK'
  <2>1. /\ \A t \in Session : pc'[t] \in RunPlace
        /\ \A k \in Handler : pc'[k] \in HandlerPlace
        /\ \A k \in Sender : pc'[k] \in SenderPlace
        /\ pc'[Discovery] \in RefreshPlace \cup {"tick", "deliver"}
        /\ pc'[Adder] \in {"recv", "add", "gone"}
    BY <1>0, <1>1, <1>3, PlacesKept DEF IInv, Stays
  <2>2. \A g \in Goroutine : dmu' = g <=> pc'[g] \in DPlace
    BY <1>0, <1>5 DEF IInv, TypeOK
  <2>3. \A t \in Session, g \in Goroutine : wmu'[t] = g <=> on'[g] = t /\ pc'[g] \in WPlace
    BY <1>0, <1>5 DEF IInv, TypeOK
  <2>. QED BY <1>0, <1>1, <1>2, <2>1, <2>2, <2>3 DEF IInv, TypeOK, daemon
<1>7. Requests'
  <2>. SUFFICES ASSUME NEW t \in Session, NEW i \in DOMAIN asked'[t]
                PROVE  /\ pc'[asked'[t][i]] = "wait"
                       /\ on'[asked'[t][i]] = t
                       /\ \A j \in DOMAIN asked'[t] : asked'[t][i] = asked'[t][j] => i = j
    BY DEF Requests
  <2>1. \A r \in Session : \A j \in DOMAIN asked[r] :
          /\ asked[r][j] \in Goroutine /\ asked[r][j] # h
          /\ pc[asked[r][j]] = "wait" /\ on[asked[r][j]] = r
          /\ \A k \in DOMAIN asked[r] : asked[r][j] = asked[r][k] => j = k
    BY <1>0 DEF IInv, TypeOK, Bookkeeping, Goroutine, Waiter
  <2>0. on' = on /\ \A g \in Goroutine \ {h} : pc'[g] = pc[g]
    BY <1>0, <1>1
  <2>2. CASE t # on[h]
    <3>1. asked'[t] = asked[t]
      BY <1>2, <2>2
    <3>2. /\ asked[t][i] \in Goroutine \ {h}
          /\ pc[asked[t][i]] = "wait" /\ on[asked[t][i]] = t
          /\ \A j \in DOMAIN asked[t] : asked[t][i] = asked[t][j] => i = j
      BY <2>1, <3>1
    <3>. QED BY <2>0, <3>1, <3>2
  <2>3. CASE t = on[h]
    <3>. DEFINE n == Len(asked[t])
    <3>1. /\ n \in Nat /\ DOMAIN asked'[t] = 1 .. (n + 1) /\ DOMAIN asked[t] = 1 .. n
          /\ asked'[t][n + 1] = h
          /\ \A j \in 1 .. n : asked'[t][j] = asked[t][j]
      BY <1>2, <2>3
    <3>2. CASE i = n + 1
      <4>1. asked'[t][i] = h /\ pc'[h] = "wait" /\ on'[h] = t
        BY <1>1, <2>0, <2>3, <3>1, <3>2
      <4>2. \A j \in 1 .. n : asked'[t][j] # h
        BY <2>1, <3>1
      <4>3. \A j \in DOMAIN asked'[t] : j = n + 1 \/ j \in 1 .. n
        BY <3>1
      <4>. QED BY <3>2, <4>1, <4>2, <4>3
    <3>3. CASE i \in 1 .. n
      BY <2>0, <2>1, <3>1, <3>3
    <3>. QED BY <3>1, <3>2, <3>3
  <2>. QED BY <2>2, <2>3
<1>8. /\ \A g \in Goroutine : pc'[g] \in OnPlace => on'[g] \in Session
      /\ \A k \in Handler : pc'[k] = "used" /\ cmd'[k] = "show" => on'[k] \in Session
  BY <1>0, <1>1 DEF IInv, Bookkeeping, Goroutine, Waiter
<1>9. \A t \in Session : /\ on'[t] = t \/ pc'[t] = "gone"
                         /\ paused'[t] # Nobody <=> pc'[t] = "paused"
  BY <1>0, <1>1, <1>3 DEF IInv, Bookkeeping, Goroutine, Waiter
<1>. QED BY <1>6, <1>7, <1>8, <1>9 DEF IInv, Bookkeeping, Requests

\* A handler's request joins the queue of its session, and the handler waits.
LEMMA AskKeeps ==
    ASSUME IInv, NEW h \in Handler, Ask(h)
    PROVE  IInv'
<1>1. /\ pc[h] = "live" /\ h \in Waiter /\ on[h] \in Session
      /\ UNCHANGED <<dmu, wmu, cmd, on, todo, dead, paused, daemon>>
  BY DEF Ask, IInv, Bookkeeping, OnPlace, Goroutine, Waiter
<1>2. CASE UNCHANGED asked /\ Goto(h, "used")
  <2>1. /\ "used" \in HandlerPlace /\ "used" \notin DPlace \cup WPlace \cup WaitPlace \cup OnPlace
        /\ pc[h] \notin DPlace \cup WPlace \cup WaitPlace
    BY <1>1 DEF HandlerPlace, DPlace, WPlace, WaitPlace, OnPlace, PollPlace
  <2>2. /\ on = [on EXCEPT ![h] = on[h]]
        /\ cmd = [cmd EXCEPT ![h] = cmd[h]] /\ cmd[h] \in Commands
    BY DEF IInv, TypeOK, Goroutine, Waiter, Commands
  <2>. QED BY <1>1, <1>2, <2>1, <2>2, HandlerMoves DEF Goto
<1>3. CASE asked' = [asked EXCEPT ![on[h]] = Append(@, h)] /\ Goto(h, "wait")
  BY <1>1, <1>3, Enqueues
<1>. QED BY <1>2, <1>3 DEF Ask

\* One step of a hook that sends.
LEMMA SendHookKeeps ==
    ASSUME IInv, NEW k \in Sender, SendHook(k)
    PROVE  IInv'
<1>1. /\ k \in Goroutine /\ k \notin Session /\ k \notin Handler
      /\ k \in Waiter /\ Places(k) = SenderPlace
      /\ on[k] \in Session \cup {Nobody} /\ on = [on EXCEPT ![k] = on[k]]
      /\ cmd \in [Handler -> Commands]
      /\ todo \in [Goroutine -> SUBSET Session] /\ dead \in [Goroutine -> SUBSET Session]
      /\ batches \in {0, 1} /\ exited \in BOOLEAN
  BY LockAssumption DEF Goroutine, Waiter, Places, IInv, TypeOK, Commands
<1>2. ASSUME NEW l \in {"none", "check"}, NEW x \in Session \cup {Nobody},
             pc[k] \in {"target", "check"}, l = "check" => x \in Session,
             Goto(k, l), on' = [on EXCEPT ![k] = x],
             UNCHANGED <<dmu, wmu, cmd, todo, dead, asked, paused, daemon>>
      PROVE  IInv'
  <2>1. /\ l \in SenderPlace
        /\ l \notin DPlace \cup WPlace \cup WaitPlace
        /\ l \in OnPlace => l = "check"
        /\ pc[k] \notin DPlace \cup WPlace \cup WaitPlace
    BY <1>2 DEF SenderPlace, DPlace, WPlace, WaitPlace, OnPlace, PollPlace
  <2>. QED BY <1>1, <1>2, <2>1, Moves DEF Goto, daemon
<1>3. CASE FindTarget(k)
  <2>1. CASE \E s \in Session : on' = [on EXCEPT ![k] = s] /\ Goto(k, "check")
    BY <1>2, <1>3, <2>1 DEF FindTarget
  <2>2. CASE Goto(k, "none") /\ UNCHANGED on
    <3>1. on' = [on EXCEPT ![k] = on[k]]
      BY <1>1, <2>2
    <3>. QED BY <1>1, <1>2, <1>3, <2>2, <3>1 DEF FindTarget
  <2>. QED BY <1>3, <2>1, <2>2 DEF FindTarget
<1>4. CASE Queue(k)
  <2>1. /\ pc[k] = "check"
        /\ UNCHANGED <<dmu, wmu, cmd, todo, dead, paused, daemon>>
    BY <1>4 DEF Queue
  <2>2. CASE asked' = [asked EXCEPT ![on[k]] = Append(@, k)] /\ Goto(k, "wait") /\ UNCHANGED on
    BY <1>1, <2>1, <2>2, Enqueues
  <2>3. CASE Goto(k, "none") /\ Done({k}) /\ UNCHANGED asked
    <3>1. on' = [on EXCEPT ![k] = Nobody]
      <4>1. on' = [g \in Goroutine |-> IF g = k THEN Nobody ELSE on[g]]
        BY <2>3 DEF Done
      <4>. QED BY <1>1, <4>1 DEF IInv, TypeOK
    <3>. QED BY <1>2, <2>1, <2>3, <3>1
  <2>. QED BY <1>4, <2>2, <2>3 DEF Queue
<1>. QED BY <1>3, <1>4 DEF SendHook

\* One step of a handler, between its commands and its answers.
LEMMA HandleKeeps ==
    ASSUME IInv, NEW h \in Handler, HandleConn(h) \/ Handle(h)
    PROVE  IInv'
<1>1. /\ on = [on EXCEPT ![h] = on[h]] /\ on[h] \in Session \cup {Nobody}
      /\ cmd = [cmd EXCEPT ![h] = cmd[h]] /\ cmd[h] \in Commands
  BY DEF IInv, TypeOK, Goroutine, Waiter, Commands
<1>2. CASE HandleConn(h)
  <2>1. PICK l \in {"refresh", "hook", "find"}, c \in Command :
          pc' = [pc EXCEPT ![h] = l] /\ cmd' = [cmd EXCEPT ![h] = c]
    BY <1>2 DEF HandleConn, Goto
  <2>2. /\ l \in HandlerPlace /\ c \in Commands
        /\ l \notin DPlace \cup WPlace \cup WaitPlace \cup OnPlace \cup {"used"}
    BY <2>1, LockAssumption DEF HandlerPlace, RefreshPlace, Commands, DPlace, WPlace, WaitPlace,
                                OnPlace, PollPlace
  <2>3. /\ pc[h] \notin DPlace \cup WPlace \cup WaitPlace
        /\ UNCHANGED <<dmu, wmu, on, todo, dead, asked, paused, daemon>>
    BY <1>2 DEF HandleConn, DPlace, WPlace, WaitPlace
  <2>. QED BY <1>1, <2>1, <2>2, <2>3, HandlerMoves
<1>3. CASE Find(h)
  <2>1. /\ pc[h] = "find"
        /\ UNCHANGED <<dmu, wmu, todo, dead, asked, paused, daemon>>
    BY <1>3 DEF Find
  <2>2. PICK l \in {"status", "refresh"}, c \in Commands, x \in Session \cup {Nobody} :
          /\ pc' = [pc EXCEPT ![h] = l]
          /\ cmd' = [cmd EXCEPT ![h] = c] /\ on' = [on EXCEPT ![h] = x]
          /\ l = "status" => x \in Session
    BY <1>1, <1>3 DEF Find, Goto, Commands
  <2>3. /\ l \in HandlerPlace
        /\ l \notin DPlace \cup WPlace \cup WaitPlace \cup {"used"}
        /\ l \in OnPlace => l = "status"
        /\ pc[h] \notin DPlace \cup WPlace \cup WaitPlace
    BY <2>1, <2>2 DEF HandlerPlace, RefreshPlace, DPlace, WPlace, WaitPlace, OnPlace, PollPlace
  <2>. QED BY <2>1, <2>2, <2>3, HandlerMoves
<1>4. CASE Status(h) \/ RevivedAlone(h)
  <2>1. /\ pc[h] \in {"status", "polled"}
        /\ cmd[h] \in {"show", "send"}
        /\ UNCHANGED <<dmu, wmu, todo, dead, asked, paused, daemon>>
    BY <1>4 DEF Status, RevivedAlone
  <2>2. on[h] \in Session
    BY <2>1 DEF IInv, Bookkeeping, OnPlace, PollPlace, Goroutine, Waiter
  <2>3. PICK l \in {"live", "poll", "refresh", "used"}, c \in Commands, x \in Session \cup {Nobody} :
          /\ pc' = [pc EXCEPT ![h] = l]
          /\ cmd' = [cmd EXCEPT ![h] = c] /\ on' = [on EXCEPT ![h] = x]
          /\ l \in {"live", "poll"} => x \in Session
          /\ l = "used" => c # "show"
    <3>1. CASE GiveUp(h)
      <4>1. on' = [on EXCEPT ![h] = Nobody]
        BY <3>1 DEF GiveUp
      <4>2. CASE cmd[h] = "show"
        <5>1. pc' = [pc EXCEPT ![h] = "refresh"] /\ cmd' = [cmd EXCEPT ![h] = "showAgain"]
          BY <3>1, <4>2 DEF GiveUp, Goto
        <5>. QED BY <4>1, <5>1 DEF Commands
      <4>3. CASE cmd[h] # "show"
        <5>1. pc' = [pc EXCEPT ![h] = "used"] /\ cmd' = [cmd EXCEPT ![h] = cmd[h]]
          BY <1>1, <3>1, <4>3 DEF GiveUp, Goto
        <5>. QED BY <1>1, <4>1, <4>3, <5>1
      <4>. QED BY <4>2, <4>3
    <3>2. CASE \E l \in {"live", "poll"} : Goto(h, l) /\ UNCHANGED <<cmd, on>>
      BY <1>1, <2>2, <3>2 DEF Goto
    <3>. QED BY <1>4, <3>1, <3>2 DEF Status, RevivedAlone
  <2>4. /\ l \in HandlerPlace
        /\ l \notin DPlace \cup WPlace \cup WaitPlace
        /\ l \in OnPlace => l \in {"live", "poll"}
        /\ pc[h] \notin DPlace \cup WPlace \cup WaitPlace
    BY <2>1, <2>3 DEF HandlerPlace, RefreshPlace, DPlace, WPlace, WaitPlace, OnPlace, PollPlace
  <2>. QED BY <2>1, <2>3, <2>4, HandlerMoves
<1>5. CASE FindAgain(h)
  <2>1. /\ pc[h] = "findAgain"
        /\ UNCHANGED <<dmu, wmu, todo, dead, asked, paused, daemon>>
    BY <1>5 DEF FindAgain
  <2>2. PICK l \in {"live", "status", "refresh", "answer"}, c \in Commands,
             x \in Session \cup {Nobody} :
          /\ pc' = [pc EXCEPT ![h] = l]
          /\ cmd' = [cmd EXCEPT ![h] = c] /\ on' = [on EXCEPT ![h] = x]
          /\ l \in {"live", "status"} => x \in Session
    BY <1>1, <1>5 DEF FindAgain, Goto, Commands
  <2>3. /\ l \in HandlerPlace
        /\ l \notin DPlace \cup WPlace \cup WaitPlace \cup {"used"}
        /\ l \in OnPlace => l \in {"live", "status"}
        /\ pc[h] \notin DPlace \cup WPlace \cup WaitPlace
    BY <2>1, <2>2 DEF HandlerPlace, RefreshPlace, DPlace, WPlace, WaitPlace, OnPlace, PollPlace
  <2>. QED BY <2>1, <2>2, <2>3, HandlerMoves
<1>6. CASE SendWeb(h)
  <2>1. /\ pc[h] \in {"find", "findAgain"}
        /\ pc' = [pc EXCEPT ![h] = "used"] /\ cmd' = [cmd EXCEPT ![h] = "sendWeb"]
        /\ UNCHANGED <<dmu, wmu, on, todo, dead, asked, paused, daemon>>
    BY <1>6 DEF SendWeb, Goto
  <2>2. /\ "used" \in HandlerPlace /\ "sendWeb" \in Commands
        /\ "used" \notin DPlace \cup WPlace \cup WaitPlace \cup OnPlace
        /\ pc[h] \notin DPlace \cup WPlace \cup WaitPlace
    BY <2>1 DEF HandlerPlace, Commands, DPlace, WPlace, WaitPlace, OnPlace, PollPlace
  <2>. QED BY <1>1, <2>1, <2>2, HandlerMoves
<1>7. CASE \/ AskPause(h) \/ PauseTimesOut(h) \/ Fails(h) \/ SetLastUsed(h)
           \/ ComposeShowStatus(h) \/ Hook(h)
  <2>1. PICK l \in {"pause", "used", "compose", "snapshot", "answer"} :
          /\ pc' = [pc EXCEPT ![h] = l]
          /\ pc[h] \in {"live", "pause", "used", "compose", "hook"}
          /\ l = "pause" => pc[h] = "live"
          /\ l = "used" => pc[h] = "pause"
          /\ l = "compose" => pc[h] = "used" /\ cmd[h] = "show"
    BY <1>7 DEF AskPause, PauseTimesOut, Fails, SetLastUsed, ComposeShowStatus, Hook, Goto
  <2>2. UNCHANGED <<dmu, wmu, calls, daemon>>
    BY <1>7 DEF AskPause, PauseTimesOut, Fails, SetLastUsed, ComposeShowStatus, Hook
  <2>3. l \in {"pause", "used", "compose"} => on[h] \in Session
    BY <2>1 DEF IInv, Bookkeeping, OnPlace, Goroutine, Waiter
  <2>4. /\ l \in HandlerPlace
        /\ l \notin DPlace \cup WPlace \cup WaitPlace
        /\ l \in OnPlace => l \in {"pause", "compose"}
        /\ pc[h] \notin DPlace \cup WPlace \cup WaitPlace
    BY <2>1 DEF HandlerPlace, RefreshPlace, DPlace, WPlace, WaitPlace, OnPlace, PollPlace
  <2>. QED BY <1>1, <2>1, <2>2, <2>3, <2>4, HandlerMoves DEF calls
<1>8. CASE Answer(h)
  BY <1>8, LockAssumption DEF Answer, Resumes, IInv, TypeOK, Bookkeeping, Goroutine, Waiter, Place, PollPlace,
             RunPlace, RefreshPlace, HandlerPlace, SenderPlace, OnPlace, DPlace, WPlace, daemon
<1>. QED BY <1>2, <1>3, <1>4, <1>5, <1>6, <1>7, <1>8, AskKeeps DEF Handle

\* A step that belongs to no goroutine above.
LEMMA DaemonKeeps ==
    ASSUME IInv, DiscoveryLoop \/ AdderLoop \/ SelfWatchdog
    PROVE  IInv'
<1>. USE LockAssumption DEF IInv, TypeOK, Bookkeeping, Goroutine, Waiter, Goto, UnderD, UnderW, calls,
         daemon, Place, PollPlace, RunPlace, RefreshPlace, HandlerPlace, SenderPlace, OnPlace, DPlace, WPlace
<1>1. CASE DiscoveryTick
  BY <1>1 DEF DiscoveryTick
<1>2. CASE Deliver
  BY <1>2 DEF Deliver
<1>3. CASE Receive
  BY <1>3 DEF Receive
<1>4. CASE AddSessions
  <2>. USE DEF AddSessions
  <2>1. pc' = [pc EXCEPT ![Adder] = "recv"] /\ pc' \in [Goroutine -> Place]
    BY <1>4
  <2>2. TypeOK'
    BY <1>4, <2>1
  <2>3. Bookkeeping'
    BY <1>4, <2>1
  <2>. QED BY <2>2, <2>3
<1>5. CASE SelfWatchdog
  BY <1>5 DEF SelfWatchdog
<1>. QED BY <1>1, <1>2, <1>3, <1>4, <1>5 DEF DiscoveryLoop, AdderLoop

\* Every step keeps the inductive invariant.
LEMMA Inductive == IInv /\ [Next]_vars => IInv'
<1>. SUFFICES ASSUME IInv, [Next]_vars PROVE IInv'
  OBVIOUS
<1>1. CASE UNCHANGED vars
  BY <1>1 DEF vars, calls, daemon, IInv, TypeOK, Bookkeeping
<1>2. CASE \E g \in Goroutine : Poll(g) \/ Refresh(g)
  BY <1>2, PollKeeps, RefreshKeeps
<1>3. CASE \E s \in Session : Run(s) \/ \E h \in Handler : Pause(s, h)
  BY <1>3, RunKeeps, PauseKeeps
<1>4. CASE \E h \in Handler : HandleConn(h) \/ Handle(h)
  BY <1>4, HandleKeeps
<1>6. CASE \E k \in Sender : SendHook(k)
  BY <1>6, SendHookKeeps
<1>5. CASE DiscoveryLoop \/ AdderLoop \/ SelfWatchdog
  BY <1>5, DaemonKeeps
<1>. QED BY <1>1, <1>2, <1>3, <1>4, <1>5, <1>6 DEF Next

\* It holds when Run starts.
LEMMA Initially == Init => IInv
<1>. SUFFICES ASSUME Init PROVE IInv
  OBVIOUS
<1>1. \A g \in Goroutine : pc[g] \in {"loop", "accept", "none", "tick", "recv"}
  BY DEF Init, Goroutine, Waiter
<1>2. /\ \A s \in Session : pc[s] = "loop" /\ on[s] = s
      /\ \A h \in Handler : pc[h] = "accept"
      /\ \A k \in Sender : pc[k] = "none"
      /\ pc[Discovery] = "tick" /\ pc[Adder] = "recv"
      /\ on \in [Goroutine -> Session \cup {Nobody}]
  BY LockAssumption DEF Init, Goroutine, Waiter
<1>3. /\ "loop" \in RunPlace /\ "accept" \in HandlerPlace /\ "none" \in SenderPlace
      /\ \A l \in {"loop", "accept", "none", "tick", "recv"} :
           l \in Place /\ l \notin DPlace \cup WPlace \cup OnPlace
  BY DEF Place, PollPlace, RunPlace, RefreshPlace, HandlerPlace, SenderPlace, OnPlace, DPlace, WPlace
<1>4. /\ dmu = Nobody /\ pc \in [Goroutine -> Place]
      /\ wmu \in [Session -> Goroutine \cup {Nobody}] /\ \A s \in Session : wmu[s] = Nobody
      /\ cmd \in [Handler -> Commands]
      /\ todo \in [Goroutine -> SUBSET Session] /\ dead \in [Goroutine -> SUBSET Session]
      /\ paused \in [Session -> Handler \cup {Nobody}] /\ \A s \in Session : paused[s] = Nobody
      /\ batches \in {0, 1} /\ exited \in BOOLEAN
  <2>1. pc \in [Goroutine -> Place]
    <3>. DEFINE At(g) == CASE g \in Session -> "loop" [] g \in Handler -> "accept"
                           [] g \in Sender -> "none" [] g = Discovery -> "tick" [] g = Adder -> "recv"
    <3>1. \A g \in Goroutine : At(g) \in Place
      BY <1>3 DEF Goroutine, Waiter
    <3>2. pc = [g \in Goroutine |-> At(g)]
      BY DEF Init
    <3>. HIDE DEF At
    <3>. QED BY <3>1, <3>2
  <2>. QED BY <2>1 DEF Init, Commands
<1>5. asked \in [Session -> Seq(Waiter)] /\ \A s \in Session : DOMAIN asked[s] = {}
  <2>1. <<>> \in Seq(Waiter) /\ DOMAIN <<>> = {}
    OBVIOUS
  <2>. QED BY <2>1 DEF Init
<1>6. \A g \in Goroutine : g # Nobody /\ pc[g] \notin DPlace /\ pc[g] \notin WPlace
  <2>. SUFFICES ASSUME NEW g \in Goroutine PROVE g # Nobody /\ pc[g] \notin DPlace /\ pc[g] \notin WPlace
    OBVIOUS
  <2>1. g # Nobody
    BY LockAssumption
  <2>2. pc[g] \notin DPlace \cup WPlace
    BY <1>1, <1>3
  <2>. QED BY <2>1, <2>2
<1>7. TypeOK
  <2>1. \A g \in Goroutine : dmu = g <=> pc[g] \in DPlace
    BY <1>4, <1>6
  <2>2. \A s \in Session, g \in Goroutine : wmu[s] = g <=> on[g] = s /\ pc[g] \in WPlace
    BY <1>4, <1>6
  <2>. QED BY <1>2, <1>3, <1>4, <1>5, <2>1, <2>2 DEF TypeOK, Commands
<1>8. Bookkeeping
  BY <1>1, <1>2, <1>3, <1>4, <1>5 DEF Bookkeeping, Goroutine, Waiter
<1>. QED BY <1>7, <1>8 DEF IInv

\* So it always holds.
LEMMA Invariance == Spec => []IInv
  BY Initially, Inductive, PTL DEF Spec

\* Goroutines keep their kind, and a mutex is held exactly where the code says.
THEOREM TypeCorrect == Spec => []TypeOK
<1>1. IInv => TypeOK
  BY DEF IInv
<1>. QED BY <1>1, Invariance, PTL

\* d.mu and the w.mu of a session held in opposite orders are the only way the
\* mutexes can lock up, however many sessions and handlers there are.
THEOREM OnlyInversion == Spec => []OnlyInversionWedges
<1>1. ASSUME IInv PROVE OnlyInversionWedges
  <2>. SUFFICES ASSUME Holders # {}, \A g \in Holders : StuckAtD(g) \/ StuckAtW(g)
                PROVE  Inversion
    BY DEF OnlyInversionWedges
  <2>1. ASSUME NEW k \in Goroutine, NEW s \in Session, wmu[s] = k
        PROVE  pc[k] \in {"notify", "collect"} /\ dmu # Nobody
    <3>1. pc[k] \in WPlace /\ k \in Holders
      BY <1>1, <2>1 DEF IInv, TypeOK, Holders
    <3>2. ~ StuckAtW(k)
      BY <3>1 DEF WPlace, StuckAtW
    <3>. QED BY <3>1, <3>2 DEF StuckAtD, WPlace
  <2>2. PICK g \in Goroutine : dmu = g
    <3>1. PICK h \in Goroutine : dmu = h \/ \E s \in Session : wmu[s] = h
      BY DEF Holders
    <3>2. dmu # Nobody
      BY <2>1, <3>1, LockAssumption
    <3>. QED BY <1>1, <3>2 DEF IInv, TypeOK
  <2>3. pc[g] \in DPlace /\ g \in Holders
    BY <1>1, <2>2 DEF IInv, TypeOK, Holders
  <2>4. StuckAtW(g) /\ pc[g] \in {"walk", "collate"}
    BY <2>3 DEF DPlace, StuckAtD
  <2>5. todo[g] # {} /\ \A s \in todo[g] : wmu[s] # Nobody
    BY <2>4 DEF StuckAtW
  <2>6. PICK s \in Session : s \in todo[g] /\ wmu[s] \in Goroutine
    BY <1>1, <2>2, <2>5 DEF IInv, TypeOK
  <2>. QED BY <2>1, <2>2, <2>6 DEF Inversion
<1>. QED BY <1>1, Invariance, PTL
=============================================================================
