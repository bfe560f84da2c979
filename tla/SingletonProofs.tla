---------------------------- MODULE SingletonProofs ----------------------------
(***************************************************************************)
(* Proofs about Singleton, for any number of processes: the first instance *)
(* wins.                                                                   *)
(***************************************************************************)
EXTENDS Singleton, TLAPS

\* Past the mutex, alive.
Owner == {"dial", "wait", "listen", "serve"}

\* Who is where has the mutex, or only the pipe, or neither.
HandleInv ==
    \A p \in Process :
       /\ pc[p] \in {"refused", "dial", "wait", "listen"} => p \in handle
       /\ pc[p] = "serve" => pipe = p /\ (p # Ghost => p \in handle)
       /\ pc[p] \in {"off", "mutex", "gone"} => p \notin handle
       /\ p = Ghost => p \notin handle /\ pc[p] \in {"serve", "exit", "gone"}

\* Of the processes with a handle, one found no mutex.
OneOwner == \A p, q \in handle : pc[p] \in Owner /\ pc[q] \in Owner => p = q

\* Who will be the daemon, or who is to find no mutex.
Heir ==
    owed => \/ \E p \in handle : pc[p] \in Owner
            \/ handle = {} /\ \E p \in Process : pc[p] = "mutex"

\* Only a daemon that serves has a SHUTDOWN to handle, or hangs.
ToldServe == \A p \in told \cup hung : pc[p] = "serve"

IInv == TypeOK /\ HandleInv /\ OneOwner /\ Heir /\ ToldServe /\ ~disturbed

\* The sets of processes that end keep their types.
LEMMA Typed == Spec => []TypeOK
<1>1. Init => TypeOK
  BY SingletonAssumption DEF Init, TypeOK, Starting
<1>2. TypeOK /\ [Next]_vars => TypeOK'
  BY DEF TypeOK, Next, vars, Daemon, Starting, Goto, Exit, Shutdown, UserShutdown, Start,
         AcquireMutex, Refused, Dial, Waited, Listen, ListenFails, ShutsDown,
         Hangs, Ends, Closes
<1>. QED BY <1>1, <1>2, PTL DEF Spec

\* One process takes the mutex or is refused; which is where "first" is decided.
LEMMA AcquireKeeps ==
    ASSUME IInv, NEW p \in Process, AcquireMutex(p)
    PROVE  HandleInv' /\ OneOwner' /\ Heir' /\ ToldServe' /\ ~disturbed'
<1>. USE DEF AcquireMutex, Goto, MutexExists, IInv, TypeOK
<1>1. HandleInv'
  BY DEF HandleInv
<1>2. OneOwner'
  BY DEF OneOwner, HandleInv, Owner
<1>3. Heir'
  <2>1. CASE handle = {}
    BY <2>1 DEF Heir, Owner
  <2>2. CASE handle # {}
    BY <2>2 DEF Heir, Owner, HandleInv
  <2>. QED BY <2>1, <2>2
<1>4. ToldServe' /\ ~disturbed'
  BY DEF ToldServe
<1>. QED BY <1>1, <1>2, <1>3, <1>4

\* Nobody past the mutex dials one that is past it too.
LEMMA DialKeeps ==
    ASSUME IInv, NEW p \in Process, Dial(p)
    PROVE  HandleInv' /\ OneOwner' /\ Heir' /\ ToldServe' /\ ~disturbed'
<1>. USE DEF Dial, Goto, Shutdown, IInv, TypeOK
<1>1. HandleInv'
  BY DEF HandleInv
<1>2. OneOwner' /\ Heir'
  BY DEF OneOwner, Heir, HandleInv, Owner
<1>3. ToldServe'
  BY DEF ToldServe
<1>4. ~disturbed'
  BY DEF OneOwner, HandleInv, Owner
<1>. QED BY <1>1, <1>2, <1>3, <1>4

\* A process that ends keeps what it has open, and is owed nothing.
LEMMA ExitKeeps ==
    ASSUME IInv, NEW p \in Process, Exit(p), pc[p] \in Starting \cup {"serve"},
           UNCHANGED <<handle, pipe, disturbed>>,
           owed' = FALSE \/ (owed' = owed /\ pc[p] = "refused")
    PROVE  HandleInv' /\ OneOwner' /\ Heir' /\ ToldServe' /\ ~disturbed'
<1>. USE DEF Exit, Goto, Starting, IInv, TypeOK
<1>1. HandleInv'
  BY DEF HandleInv
<1>2. OneOwner'
  BY DEF OneOwner, Owner
<1>3. Heir'
  BY DEF Heir, Owner, HandleInv
<1>4. ToldServe' /\ ~disturbed'
  BY DEF ToldServe
<1>. QED BY <1>1, <1>2, <1>3, <1>4

LEMMA ListenKeeps ==
    ASSUME IInv, NEW p \in Process, Listen(p)
    PROVE  HandleInv' /\ OneOwner' /\ Heir' /\ ToldServe' /\ ~disturbed'
<1>. USE DEF Listen, Goto, IInv, TypeOK
<1>1. HandleInv'
  BY SingletonAssumption DEF HandleInv
<1>2. OneOwner' /\ Heir'
  BY DEF OneOwner, Heir, HandleInv, Owner
<1>3. ToldServe' /\ ~disturbed'
  BY DEF ToldServe
<1>. QED BY <1>1, <1>2, <1>3

\* The mutex lives on as long as another process has it open.
LEMMA ClosesKeeps ==
    ASSUME IInv, NEW p \in Process, Closes(p)
    PROVE  HandleInv' /\ OneOwner' /\ Heir' /\ ToldServe' /\ ~disturbed'
<1>. USE DEF Closes, Goto, IInv, TypeOK
<1>1. HandleInv'
  BY DEF HandleInv
<1>2. OneOwner'
  BY DEF OneOwner, Owner
<1>3. Heir'
  BY DEF Heir, Owner, HandleInv
<1>4. ToldServe' /\ ~disturbed'
  BY DEF ToldServe
<1>. QED BY <1>1, <1>2, <1>3, <1>4

LEMMA OthersKeep ==
    ASSUME IInv, NEW p \in Process,
           Start(p) \/ Refused(p) \/ Waited(p) \/ Hangs(p)
    PROVE  HandleInv' /\ OneOwner' /\ Heir' /\ ToldServe' /\ ~disturbed'
<1>. USE DEF Start, Refused, Waited, Hangs, Goto, IInv, TypeOK
<1>1. HandleInv'
  BY DEF HandleInv
<1>2. OneOwner'
  BY DEF OneOwner, HandleInv, Owner
<1>3. Heir'
  BY DEF Heir, Owner, HandleInv
<1>4. ToldServe' /\ ~disturbed'
  BY DEF ToldServe
<1>. QED BY <1>1, <1>2, <1>3, <1>4

LEMMA Invariance == Spec => []IInv
<1>1. Init => IInv
  BY SingletonAssumption
     DEF Init, IInv, TypeOK, HandleInv, OneOwner, Heir, ToldServe, Starting
<1>2. IInv /\ TypeOK' /\ [Next]_vars => IInv'
  <2>. SUFFICES ASSUME IInv, TypeOK', [Next]_vars
                PROVE  HandleInv' /\ OneOwner' /\ Heir' /\ ToldServe' /\ ~disturbed'
    BY DEF IInv
  <2>1. CASE UNCHANGED vars
    BY <2>1 DEF vars, IInv, HandleInv, OneOwner, Heir, ToldServe
  <2>2. CASE UserShutdown
    BY <2>2 DEF UserShutdown, Shutdown, IInv, HandleInv, OneOwner, Heir, ToldServe
  <2>3. ASSUME NEW p \in Process, Daemon(p)
        PROVE  HandleInv' /\ OneOwner' /\ Heir' /\ ToldServe' /\ ~disturbed'
    <3>1. CASE ListenFails(p) \/ ShutsDown(p) \/ Ends(p)
      <4>1. pc[p] \in Starting \cup {"serve"}
        BY <3>1 DEF ListenFails, ShutsDown, Ends, IInv, ToldServe, Starting
      <4>. QED BY <3>1, <4>1, ExitKeeps DEF ListenFails, ShutsDown, Ends
    <3>. QED BY <2>3, <3>1, AcquireKeeps, DialKeeps, ListenKeeps, ClosesKeeps, OthersKeep
             DEF Daemon
  <2>. QED BY <2>1, <2>2, <2>3 DEF Next
<1>. QED BY <1>1, <1>2, Typed, PTL DEF Spec

\* However many processes are started at once, none shuts down a daemon that has
\* the mutex, one at most serves with it, and one is left when all are at rest
\* and none of those that could be it has ended.
THEOREM FirstInstance == Spec => []FirstInstanceWins
<1>1. IInv => FirstInstanceWins
  <2>. SUFFICES ASSUME IInv PROVE FirstInstanceWins
    OBVIOUS
  <2>1. Quiet /\ owed => \E p \in handle : pc[p] = "serve"
    BY DEF IInv, TypeOK, Quiet, Heir, Owner, Starting
  <2>. QED BY <2>1 DEF IInv, OneOwner, Owner, FirstInstanceWins
<1>. QED BY <1>1, Invariance, PTL
=============================================================================
