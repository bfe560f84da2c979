--------------------------- MODULE SubmitSendProofs ---------------------------
(***************************************************************************)
(* Proofs about SubmitSend, for any number of SENDs, faults and frames,    *)
(* and about the callback policy, whose two decisions a SEND takes.        *)
(*                                                                         *)
(* That a callback is in time rests on what a SEND finds when it begins    *)
(* (nothing of its text in the terminal) and on what holds while it lasts  *)
(* (the Run loop it paused, if it is the only one, announces nothing).     *)
(***************************************************************************)
EXTENDS SubmitSend, CallbackPolicy, SequenceTheorems, FiniteSetTheorems, TLAPS

\* Nothing of the text of s has reached the terminal.
Untyped(s) ==
    /\ s \notin Texts(prompt)
    /\ [key |-> "text", from |-> s] \notin Texts(lane)
    /\ Turns(s) = {}

\* No poll has announced a turn of s.
Unannounced(s) == \A i \in Turns(s) : ~ (i <= announced)

\* A SEND that has not begun has typed and registered nothing, and no turn of a
\* SEND that has the only Run loop paused is announced.
Begun == \A s \in Sender : at[s] = "new" => Untyped(s) /\ callback[s] = "none"
Awaited == pollers = 1 => \A s \in Occupying : Unannounced(s)

\* The inductive invariant.
IInv == TypeOK /\ Begun /\ Awaited /\ CallbackInTime

-----------------------------------------------------------------------------
(* Who has a Run loop to itself. *)

\* No more can than there are handlers and hook goroutines.
LEMMA OccupyingFinite == IsFiniteSet(Occupying) /\ Cardinality(Occupying) \in Nat
<1>1. Occupying \subseteq Sender
  BY DEF Occupying
<1>. QED BY <1>1, SendAssumption, FS_Subset, FS_CardinalityType

\* A single Run loop is with one of them at most ...
LEMMA OneOccupies ==
    ASSUME LoopEach, pollers = 1
    PROVE  \A s, o \in Occupying : s = o
<1>1. CASE Cardinality(Occupying) = 0
  BY <1>1, OccupyingFinite, FS_EmptySet
<1>2. CASE Cardinality(Occupying) = 1
  BY <1>2, OccupyingFinite, FS_Singleton
<1>3. Cardinality(Occupying) \in Nat /\ Cardinality(Occupying) <= 1
  BY OccupyingFinite DEF LoopEach
<1>. QED BY <1>1, <1>2, <1>3

\* ... and with nobody while it is free.
LEMMA NobodyOccupies ==
    ASSUME LoopFree, pollers = 1
    PROVE  Occupying = {}
<1>1. Cardinality(Occupying) = 0
  BY OccupyingFinite DEF LoopFree
<1>. QED BY <1>1, OccupyingFinite, FS_EmptySet

-----------------------------------------------------------------------------
(* Steps of a SEND: the types of what it owns. *)

\* A request that fails for good ends in a result.
LEMMA FailedKept ==
    ASSUME SendsOK, NEW s \in Sender, Requests(s), again' = again \ {s}, Failed(s),
           UNCHANGED <<mode, repeats, callback, quiet>>
    PROVE  SendsOK'
<1>. USE DEF SendsOK, Goto, Place, Requests
<1>1. CASE at[s] = "second"
  BY <1>1 DEF Failed
<1>2. CASE at[s] # "second"
  BY <1>2 DEF Failed
<1>. QED BY <1>1, <1>2

\* A request nobody answered is repeated, or fails for good.
LEMMA RepeatKept ==
    ASSUME SendsOK, NEW s \in Sender, Requests(s), Repeat(s),
           UNCHANGED <<mode, repeats, callback, quiet>>
    PROVE  SendsOK'
<1>1. CASE s \in again
  BY <1>1, FailedKept DEF Repeat
<1>2. CASE s \notin again
  BY <1>2 DEF Repeat, SendsOK, Requests
<1>. QED BY <1>1, <1>2

\* ConfirmSubmit counts a sample below its limit, or decides.
LEMMA ConfirmKept ==
    ASSUME SendsOK, NEW s \in Sender, ConfirmSubmit(s)
    PROVE  SendsOK'
<1>0. at[s] = "confirm" /\ UNCHANGED <<again, mode, callback, quiet>>
  BY DEF ConfirmSubmit
<1>1. ASSUME NEW r \in {"ok", "stuck", "unconfirmed"}, Decide(s, r) PROVE SendsOK'
  <2>1. PICK l \in {"second", "hook"} : at' = [at EXCEPT ![s] = l]
    BY <1>1 DEF Decide, Goto
  <2>2. result' = [result EXCEPT ![s] = r]
    BY <1>1 DEF Decide
  <2>3. repeats' \in [Sender -> 0 .. (StuckAfter - 1)]
    <3>1. 0 \in 0 .. (StuckAfter - 1)
      BY DEF StuckAfter
    <3>. QED BY <1>1, <3>1 DEF Decide, SendsOK
  <2>. QED BY <1>0, <2>1, <2>2, <2>3 DEF SendsOK, Place
<1>2. ASSUME repeats[s] + 1 < StuckAfter, repeats' = [repeats EXCEPT ![s] = @ + 1],
             UNCHANGED <<at, result>>
      PROVE  SendsOK'
  <2>1. repeats' \in [Sender -> 0 .. (StuckAfter - 1)]
    <3>1. repeats[s] + 1 \in 0 .. (StuckAfter - 1)
      <4>1. repeats[s] \in 0 .. (StuckAfter - 1)
        BY DEF SendsOK
      <4>. QED BY <1>2, <4>1 DEF StuckAfter
    <3>. QED BY <1>2, <3>1 DEF SendsOK
  <2>. QED BY <1>0, <1>2, <2>1 DEF SendsOK
<1>. QED BY <1>1, <1>2 DEF ConfirmSubmit

\* Every step of a SEND keeps the types of its own state.
LEMMA SendsKept ==
    ASSUME SendsOK, NEW s \in Sender, Send(s)
    PROVE  SendsOK'
<1>1. CASE PausePolling(s)
  <2>1. PICK l \in {"base", "only enter"} : at' = [at EXCEPT ![s] = l]
    BY <1>1 DEF PausePolling, Goto
  <2>2. PICK m \in {"paused", "unpaused", "direct"} : mode' = [mode EXCEPT ![s] = m]
    BY <1>1 DEF PausePolling
  <2>3. at[s] = "new" /\ UNCHANGED <<again, result, repeats, callback, quiet>>
    BY <1>1 DEF PausePolling, samples
  <2>. QED BY <2>1, <2>2, <2>3 DEF SendsOK, Place
<1>2. CASE ServeHook(s) \/ Baseline(s)
  BY <1>2 DEF ServeHook, Baseline, SendsOK, Goto, Place, samples
<1>3. CASE Deliver(s)
  <2>1. /\ at' = [at EXCEPT ![s] = Replied(s)] /\ again' = again \ {s}
        /\ result' = IF Replied(s) = "answer" THEN [result EXCEPT ![s] = "enter"] ELSE result
        /\ UNCHANGED <<mode, repeats, callback, quiet>>
        /\ at[s] \in {"type", "enter", "only enter", "second"}
    BY <1>3 DEF Deliver, Requests, Goto, samples
  <2>2. /\ Replied(s) \in {"echo", "enter", "answer", "confirm", "hook"}
        /\ Replied(s) = "hook" <=> at[s] = "second"
    BY <2>1 DEF Replied
  <2>. QED BY <2>1, <2>2 DEF SendsOK, Place
<1>4. CASE ReplyLost(s)
  BY <1>4, RepeatKept DEF ReplyLost, samples
<1>5. CASE NotDelivered(s)
  <2>1. CASE again' = again \ {s} /\ UNCHANGED <<at, result>>
    BY <1>5, <2>1 DEF NotDelivered, samples, SendsOK
  <2>. QED BY <1>5, <2>1, RepeatKept, FailedKept DEF NotDelivered, samples
<1>6. CASE Echoed(s)
  BY <1>6 DEF Echoed, SendsOK, Goto, Place
<1>7. CASE ConfirmSubmit(s)
  BY <1>7, ConfirmKept
<1>8. CASE RegisterCallback(s)
  BY <1>8 DEF RegisterCallback, SendsOK, Goto, Place, samples
<1>9. CASE Return(s)
  BY <1>9 DEF Return, SendsOK, Goto, Place
<1>. QED BY <1>1, <1>2, <1>3, <1>4, <1>5, <1>6, <1>7, <1>8, <1>9 DEF Send, SendRecv

-----------------------------------------------------------------------------
(* Steps of a SEND: samples, and what it queues at the terminal. *)

\* What SEND reads of the screen is a sample.
LEMMA ScreenSampled ==
    ASSUME TerminalOK
    PROVE  Screen \in Sample
<1>1. (IF echo THEN prompt ELSE <<>>) \in Seq(Sender)
  BY EmptySeq DEF TerminalOK
<1>2. Len(submitted) \in Nat
  BY LenProperties DEF TerminalOK
<1>3. frame \in Frame
  BY DEF TerminalOK
<1>. QED BY <1>1, <1>2, <1>3 DEF Screen, Sample

\* Every step of a SEND leaves samples where samples belong.
LEMMA SamplesKept ==
    ASSUME base \in [Sender -> Sample], pre \in [Sender -> Sample], TerminalOK,
           NEW s \in Sender, Send(s)
    PROVE  base' \in [Sender -> Sample] /\ pre' \in [Sender -> Sample]
<1>1. Screen \in Sample /\ Blank \in Sample
  BY ScreenSampled DEF Sample
<1>2. CASE Baseline(s)
  BY <1>1, <1>2 DEF Baseline
<1>3. CASE Echoed(s)
  BY <1>1, <1>3 DEF Echoed, Reference
<1>4. CASE ConfirmSubmit(s)
  BY <1>1, <1>4 DEF ConfirmSubmit, Decide
<1>5. CASE Return(s)
  BY <1>1, <1>5 DEF Return
<1>6. CASE UNCHANGED samples
  BY <1>6 DEF samples
<1>. QED BY <1>2, <1>3, <1>4, <1>5, <1>6
         DEF Send, SendRecv, PausePolling, ServeHook, Deliver, ReplyLost, NotDelivered,
             RegisterCallback

\* A step of s types nothing but its own input, begins only s and ends no
\* pause but its own.
LEMMA Footprint ==
    ASSUME SendsOK, NEW s \in Sender, Send(s)
    PROVE  /\ UNCHANGED <<echo, prompt, submitted, frame, announced>>
           /\ \/ lane' = lane
              \/ at[s] # "new" /\ lane' = Append(lane, Input(s))
           /\ at'[s] # "new"
           /\ \A o \in Sender \ {s} : at'[o] = at[o] /\ mode'[o] = mode[o]
           /\ at[s] # "new" => mode'[s] = mode[s]
           /\ at[s] = "done" => at'[s] = "done"
           /\ pollers' = pollers
<1>. USE DEF SendsOK, Goto, terminal
<1>1. CASE PausePolling(s)
  BY <1>1 DEF PausePolling
<1>2. CASE ServeHook(s) \/ Baseline(s)
  BY <1>2 DEF ServeHook, Baseline
<1>3. CASE Deliver(s)
  BY <1>3 DEF Deliver, Requests, Replied
<1>4. CASE ReplyLost(s)
  BY <1>4 DEF ReplyLost, Requests, Repeat, Failed
<1>5. CASE NotDelivered(s)
  BY <1>5 DEF NotDelivered, Requests, Repeat, Failed
<1>6. CASE Echoed(s)
  BY <1>6 DEF Echoed
<1>7. CASE ConfirmSubmit(s)
  BY <1>7 DEF ConfirmSubmit, Decide
<1>8. CASE RegisterCallback(s)
  BY <1>8 DEF RegisterCallback
<1>9. CASE Return(s)
  BY <1>9 DEF Return
<1>. QED BY <1>1, <1>2, <1>3, <1>4, <1>5, <1>6, <1>7, <1>8, <1>9 DEF Send, SendRecv

\* What a step of s queues is well formed, and nobody else's.
LEMMA Queued ==
    ASSUME TerminalOK, NEW s \in Sender,
           lane' = lane \/ lane' = Append(lane, Input(s))
    PROVE  /\ lane' \in Seq(Key)
           /\ \A o \in Sender \ {s} :
                 [key |-> "text", from |-> o] \in Texts(lane') =>
                     [key |-> "text", from |-> o] \in Texts(lane)
<1>1. Input(s) \in Key
  BY DEF Input, Key
<1>2. lane \in Seq(Key)
  BY DEF TerminalOK
<1>3. CASE lane' = lane
  BY <1>2, <1>3
<1>4. CASE lane' = Append(lane, Input(s))
  <2>1. lane' \in Seq(Key) /\ Len(lane') = Len(lane) + 1 /\ lane'[Len(lane) + 1] = Input(s)
        /\ \A i \in 1 .. Len(lane) : lane'[i] = lane[i]
    BY <1>1, <1>2, <1>4, AppendProperties
  <2>2. Len(lane) \in Nat /\ DOMAIN lane = 1 .. Len(lane) /\ DOMAIN lane' = 1 .. (Len(lane) + 1)
    BY <1>2, <2>1, LenProperties
  <2>3. ASSUME NEW o \in Sender \ {s}, NEW i \in DOMAIN lane', lane'[i] = [key |-> "text", from |-> o]
        PROVE  i \in DOMAIN lane /\ lane[i] = lane'[i]
    <3>1. Input(s) # [key |-> "text", from |-> o]
      BY <2>3 DEF Input
    <3>2. i # Len(lane) + 1
      BY <2>1, <2>3, <3>1
    <3>. QED BY <2>1, <2>2, <3>2
  <2>. QED BY <2>1, <2>3 DEF Texts
<1>. QED BY <1>3, <1>4

\* A SEND or a hook takes a Run loop that is free.
LEMMA LoopEachKept ==
    ASSUME SendsOK, LoopEach, pollers \in Nat, NEW s \in Sender, Send(s)
    PROVE  LoopEach' /\ (\A o \in Occupying' : o \in Occupying \/ (o = s /\ at[s] = "new"))
<1>1. /\ \A o \in Sender \ {s} : at'[o] = at[o] /\ mode'[o] = mode[o]
      /\ at[s] # "new" => mode'[s] = mode[s]
      /\ at[s] = "done" => at'[s] = "done"
      /\ pollers' = pollers
  BY Footprint
<1>2. IsFiniteSet(Occupying) /\ Cardinality(Occupying) \in Nat
  BY OccupyingFinite
<1>3. ASSUME Occupying' \subseteq Occupying PROVE LoopEach'
  <2>1. Cardinality(Occupying') \in Nat /\ Cardinality(Occupying') <= Cardinality(Occupying)
    BY <1>2, <1>3, FS_Subset, FS_CardinalityType
  <2>. QED BY <1>1, <1>2, <2>1 DEF LoopEach
<1>4. CASE at[s] # "new"
  <2>1. Occupying' \subseteq Occupying
    BY <1>1, <1>4 DEF Occupying
  <2>. QED BY <1>3, <2>1
<1>5. CASE at[s] = "new"
  <2>1. PausePolling(s) \/ ServeHook(s)
    BY <1>5 DEF Send, SendRecv, Baseline, Deliver, ReplyLost, NotDelivered, Requests, Echoed,
                ConfirmSubmit, RegisterCallback, Return
  <2>2. LoopFree \/ mode'[s] \notin {"paused", "hook"}
    BY <2>1 DEF PausePolling, ServeHook, MayPause, SendsOK
  <2>3. Occupying' \subseteq (Occupying \cup {s})
    BY <1>1 DEF Occupying
  <2>4. CASE LoopFree
    <3>1. /\ IsFiniteSet(Occupying \cup {s})
          /\ \/ Cardinality(Occupying \cup {s}) = Cardinality(Occupying)
             \/ Cardinality(Occupying \cup {s}) = Cardinality(Occupying) + 1
      BY <1>2, FS_AddElement
    <3>2. /\ Cardinality(Occupying') \in Nat
          /\ Cardinality(Occupying') <= Cardinality(Occupying \cup {s})
      BY <2>3, <3>1, FS_Subset, FS_CardinalityType
    <3>3. LoopEach'
      BY <1>1, <1>2, <2>4, <3>1, <3>2 DEF LoopEach, LoopFree
    <3>. QED BY <1>5, <2>3, <3>3
  <2>5. CASE mode'[s] \notin {"paused", "hook"}
    <3>1. Occupying' \subseteq Occupying
      BY <2>3, <2>5 DEF Occupying
    <3>. QED BY <1>3, <3>1
  <2>. QED BY <2>2, <2>4, <2>5
<1>. QED BY <1>4, <1>5

\* A callback of a SEND that has the only Run loop paused is registered in time.
LEMMA CallbackKept ==
    ASSUME TypeOK, Begun, Awaited, CallbackInTime, NEW s \in Sender, Send(s)
    PROVE  CallbackInTime'
<1>1. /\ \A o \in Sender \ {s} : mode'[o] = mode[o]
      /\ at[s] # "new" => mode'[s] = mode[s]
      /\ pollers' = pollers
  BY Footprint DEF TypeOK
<1>2. CASE RegisterCallback(s)
  <2>1. /\ at[s] = "hook"
        /\ \A o \in Sender \ {s} : callback'[o] = callback[o]
        /\ \/ callback' = callback
           \/ ~ Unannounced(s)
           \/ callback'[s] = "in time"
    BY <1>2 DEF RegisterCallback, TypeOK, SendsOK, Unannounced
  <2>2. pollers = 1 /\ mode[s] = "paused" => Unannounced(s)
    BY <2>1 DEF Awaited, Occupying
  <2>3. pollers \in Nat \ {0}
    BY DEF TypeOK
  <2>. SUFFICES ASSUME NEW o \in Sender, callback'[o] = "late", mode'[o] = "paused"
                PROVE  pollers > 1
    BY <1>1 DEF CallbackInTime
  <2>4. mode[o] = "paused"
    BY <1>1, <2>1
  <2>5. CASE callback[o] = "late"
    BY <2>4, <2>5 DEF CallbackInTime
  <2>6. CASE o = s /\ ~Unannounced(s)
    BY <2>2, <2>3, <2>4, <2>6
  <2>. QED BY <2>1, <2>5, <2>6
<1>3. CASE callback' = callback /\ at[s] # "new"
  BY <1>1, <1>3 DEF CallbackInTime
<1>4. CASE PausePolling(s) \/ ServeHook(s)
  <2>1. callback' = callback /\ at[s] = "new"
    BY <1>4 DEF PausePolling, ServeHook
  <2>. QED BY <1>1, <2>1 DEF Begun, CallbackInTime
<1>. QED BY <1>2, <1>3, <1>4
         DEF Send, SendRecv, Baseline, Deliver, ReplyLost, NotDelivered, Requests, Echoed,
             ConfirmSubmit, Return

\* Every step of a SEND keeps the inductive invariant.
LEMMA SendKeeps ==
    ASSUME IInv, NEW s \in Sender, Send(s)
    PROVE  IInv'
<1>1. TypeOK /\ SendsOK /\ TerminalOK
  BY DEF IInv, TypeOK
<1>2. /\ UNCHANGED <<echo, prompt, submitted, frame, announced>>
      /\ lane' = lane \/ lane' = Append(lane, Input(s))
      /\ at'[s] # "new"
      /\ \A o \in Sender \ {s} : at'[o] = at[o]
      /\ pollers' = pollers
  BY <1>1, Footprint
<1>3. TypeOK'
  <2>1. SendsOK'
    BY <1>1, SendsKept
  <2>2. base' \in [Sender -> Sample] /\ pre' \in [Sender -> Sample]
    BY <1>1, SamplesKept DEF TypeOK
  <2>3. TerminalOK'
    BY <1>1, <1>2, Queued DEF TerminalOK
  <2>4. LoopEach'
    BY <1>1, LoopEachKept DEF TypeOK
  <2>5. faults' = faults \/ Fault
    BY DEF Send, SendRecv, PausePolling, ServeHook, Baseline, Deliver, ReplyLost, NotDelivered,
           Echoed, ConfirmSubmit, RegisterCallback, Return
  <2>6. pollers' \in Nat \ {0} /\ faults' \in Nat /\ faults' + pollers' <= MaxFaults + 1
    BY <1>1, <1>2, <2>5, SendAssumption DEF Fault, Trouble, TypeOK
  <2>. QED BY <2>1, <2>2, <2>3, <2>4, <2>6 DEF TypeOK
<1>4. \A o \in Sender : Turns(o)' = Turns(o)
  BY <1>2 DEF Turns, Texts
<1>5. Begun'
  <2>. SUFFICES ASSUME NEW o \in Sender \ {s}, at'[o] = "new"
                PROVE  Untyped(o)' /\ callback'[o] = "none"
    BY <1>2 DEF Begun
  <2>1. Untyped(o) /\ callback[o] = "none"
    BY <1>2 DEF IInv, Begun
  <2>2. o \notin Texts(prompt')
    BY <1>2, <2>1 DEF Untyped, Texts
  <2>3. [key |-> "text", from |-> o] \notin Texts(lane')
    BY <1>1, <1>2, <2>1, Queued DEF Untyped
  <2>4. callback'[o] = callback[o]
    BY <1>1 DEF SendsOK, Send, SendRecv, PausePolling, ServeHook, Baseline, Deliver, ReplyLost, NotDelivered,
                Echoed, ConfirmSubmit, RegisterCallback, Return
  <2>. QED BY <1>4, <2>1, <2>2, <2>3, <2>4 DEF Untyped, Texts
<1>6. Awaited'
  <2>. SUFFICES ASSUME pollers = 1, NEW o \in Occupying' PROVE Unannounced(o)
    BY <1>2, <1>4 DEF Awaited, Unannounced, Occupying
  <2>1. o \in Occupying \/ (o = s /\ at[s] = "new")
    BY <1>1, LoopEachKept DEF TypeOK
  <2>. QED BY <2>1 DEF IInv, Awaited, Begun, Untyped, Unannounced
<1>7. CallbackInTime'
  BY <1>1, CallbackKept DEF IInv
<1>. QED BY <1>3, <1>5, <1>6, <1>7 DEF IInv

-----------------------------------------------------------------------------
(* Steps of the terminal, the agent and the Run loop. *)

\* What the terminal works off leaves the rest of what it queued.
LEMMA WorkedOff ==
    ASSUME TerminalOK, lane # <<>>, lane' = Tail(lane)
    PROVE  /\ Head(lane) \in Key
           /\ lane' \in Seq(Key)
           /\ Texts(lane') \subseteq Texts(lane)
           /\ Head(lane) \in Texts(lane)
<1>1. lane \in Seq(Key)
  BY DEF TerminalOK
<1>2. /\ Head(lane) \in Key /\ lane' \in Seq(Key)
      /\ Head(lane) = lane[1] /\ Len(lane') = Len(lane) - 1
      /\ \A i \in 1 .. Len(lane') : lane'[i] = lane[i + 1]
  BY <1>1, HeadTailProperties
<1>3. /\ Len(lane) \in Nat /\ Len(lane) # 0 /\ DOMAIN lane = 1 .. Len(lane)
      /\ DOMAIN lane' = 1 .. (Len(lane) - 1)
  BY <1>1, <1>2, LenProperties, EmptySeq
<1>4. 1 \in DOMAIN lane /\ \A i \in DOMAIN lane' : i + 1 \in DOMAIN lane
  BY <1>3
<1>. QED BY <1>2, <1>3, <1>4 DEF Texts

\* What a sequence gains when an element is appended.
LEMMA TextsAppend ==
    ASSUME NEW S, NEW q \in Seq(S), NEW e \in S
    PROVE  Texts(Append(q, e)) = Texts(q) \cup {e}
<1>1. /\ Append(q, e) \in Seq(S) /\ Len(Append(q, e)) = Len(q) + 1
      /\ \A i \in 1 .. Len(q) : Append(q, e)[i] = q[i]
      /\ Append(q, e)[Len(q) + 1] = e
  BY AppendProperties
<1>2. /\ Len(q) \in Nat /\ DOMAIN q = 1 .. Len(q)
      /\ DOMAIN Append(q, e) = 1 .. (Len(q) + 1)
  BY <1>1, LenProperties
<1>. QED BY <1>1, <1>2 DEF Texts

\* What a step of the terminal or of Run must respect to keep the inductive
\* invariant: no text appears from nowhere, turns are added behind those announced.
LEMMA TerminalKeeps ==
    ASSUME IInv, TerminalOK', UNCHANGED <<sends, base, pre, repeats, mode, callback>>,
           quiet' \in [Sender -> BOOLEAN],
           \/ pollers' = pollers /\ (faults' = faults \/ Fault)
           \/ pollers' = pollers + 1 /\ Trouble /\ faults' = faults,
           \A s \in Sender : Untyped(s) => Untyped(s)',
           pollers' = 1 => \A s \in Occupying : Unannounced(s) => Unannounced(s)'
    PROVE  IInv'
<1>1. SendsOK' /\ Occupying' = Occupying
  BY DEF IInv, TypeOK, SendsOK, Occupying, sends
<1>2. /\ pollers' \in Nat \ {0} /\ faults' \in Nat /\ faults' + pollers' <= MaxFaults + 1
      /\ pollers' = 1 => pollers = 1
      /\ pollers <= pollers'
  BY SendAssumption DEF IInv, TypeOK, Fault, Trouble
<1>3. LoopEach'
  <2>1. Cardinality(Occupying) \in Nat /\ pollers \in Nat /\ Cardinality(Occupying) <= pollers
    BY OccupyingFinite DEF IInv, TypeOK, LoopEach
  <2>. QED BY <1>1, <1>2, <2>1 DEF LoopEach
<1>4. TypeOK'
  BY <1>1, <1>2, <1>3 DEF IInv, TypeOK
<1>5. Begun' /\ CallbackInTime'
  <2>1. pollers > 1 => pollers' > 1
    BY <1>2 DEF IInv, TypeOK
  <2>. QED BY <2>1 DEF IInv, Begun, CallbackInTime, sends
<1>6. Awaited'
  BY <1>1, <1>2 DEF IInv, Awaited
<1>. QED BY <1>4, <1>5, <1>6 DEF IInv

\* The terminal types a text it has queued.
LEMMA AbsorbTextKeeps ==
    ASSUME IInv, AbsorbText
    PROVE  IInv'
<1>1. TerminalOK /\ announced' = announced /\ submitted' = submitted
  BY DEF IInv, TypeOK, AbsorbText
<1>2. /\ Head(lane) \in Key /\ lane' \in Seq(Key)
      /\ Texts(lane') \subseteq Texts(lane)
      /\ Head(lane) \in Texts(lane)
  BY <1>1, WorkedOff DEF AbsorbText
<1>3. Head(lane).from \in Sender /\ Head(lane) = [key |-> "text", from |-> Head(lane).from]
  BY <1>2 DEF AbsorbText, Key
<1>4. /\ prompt' \in Seq(Sender)
      /\ Texts(prompt') = Texts(prompt) \cup {Head(lane).from}
  <2>1. prompt \in Seq(Sender) /\ prompt' = Append(prompt, Head(lane).from)
    BY <1>1 DEF AbsorbText, TerminalOK
  <2>. QED BY <1>3, <2>1, TextsAppend, AppendProperties
<1>5. TerminalOK'
  BY <1>1, <1>2, <1>4 DEF AbsorbText, TerminalOK
<1>6. \A s \in Sender : Turns(s)' = Turns(s)
  BY <1>1 DEF Turns, Texts
<1>7. \A s \in Sender : Untyped(s) => Untyped(s)'
  <2>. SUFFICES ASSUME NEW s \in Sender, Untyped(s) PROVE Untyped(s)'
    OBVIOUS
  <2>1. Head(lane).from # s
    BY <1>2, <1>3 DEF Untyped
  <2>2. s \notin Texts(prompt') /\ [key |-> "text", from |-> s] \notin Texts(lane')
    BY <1>2, <1>4, <2>1 DEF Untyped
  <2>. QED BY <1>6, <2>2 DEF Untyped, Texts
<1>8. \A s \in Occupying : Unannounced(s) => Unannounced(s)'
  BY <1>1, <1>6 DEF Unannounced, Occupying
<1>9. /\ UNCHANGED <<sends, base, pre, repeats, mode, callback, faults, pollers>>
      /\ quiet' \in [Sender -> BOOLEAN]
  BY DEF AbsorbText, samples, Disturb
<1>. QED BY <1>5, <1>7, <1>8, <1>9, TerminalKeeps

\* The terminal presses an Enter it has queued.
LEMMA AbsorbEnterKeeps ==
    ASSUME IInv, AbsorbEnter
    PROVE  IInv'
<1>1. TerminalOK /\ announced' = announced /\ prompt' = <<>>
  BY DEF IInv, TypeOK, AbsorbEnter
<1>2. lane' \in Seq(Key) /\ Texts(lane') \subseteq Texts(lane)
  BY <1>1, WorkedOff DEF AbsorbEnter
<1>3. prompt \in Seq(Sender) /\ submitted \in Seq(Seq(Sender))
  BY <1>1 DEF TerminalOK
<1>4. /\ submitted' \in Seq(Seq(Sender)) /\ Len(submitted) \in Nat
      /\ Len(submitted') \in Nat /\ Len(submitted') >= Len(submitted)
      /\ DOMAIN submitted = 1 .. Len(submitted)
      /\ DOMAIN submitted' = 1 .. Len(submitted')
      /\ \A i \in DOMAIN submitted : submitted'[i] = submitted[i]
      /\ \A i \in DOMAIN submitted' \ DOMAIN submitted :
            i > Len(submitted) /\ submitted'[i] = prompt
  <2>1. CASE submitted' = submitted
    BY <1>3, <2>1, LenProperties
  <2>2. CASE submitted' = Append(submitted, prompt)
    BY <1>3, <2>2, LenProperties, AppendProperties
  <2>. QED BY <2>1, <2>2 DEF AbsorbEnter
<1>5. TerminalOK'
  <2>1. <<>> \in Seq(Sender)
    BY EmptySeq
  <2>2. announced' \in 0 .. Len(submitted')
    BY <1>1, <1>4 DEF TerminalOK
  <2>. QED BY <1>1, <1>2, <1>4, <2>1, <2>2 DEF AbsorbEnter, TerminalOK
<1>6. \A s \in Sender : Untyped(s) => Untyped(s)'
  <2>. SUFFICES ASSUME NEW s \in Sender, Untyped(s) PROVE Untyped(s)'
    OBVIOUS
  <2>1. s \notin Texts(prompt')
    BY <1>1 DEF Texts
  <2>2. \A i \in DOMAIN submitted' : s \notin Texts(submitted'[i])
    BY <1>4 DEF Untyped, Turns
  <2>. QED BY <1>2, <2>1, <2>2 DEF Untyped, Turns, Texts
<1>7. ASSUME NEW s \in Occupying, Unannounced(s) PROVE Unannounced(s)'
  <2>. SUFFICES ASSUME NEW i \in DOMAIN submitted', s \in Texts(submitted'[i])
                PROVE  ~ (i <= announced)
    BY <1>1 DEF Unannounced, Turns, Texts
  <2>1. CASE i \in DOMAIN submitted
    BY <1>4, <1>7, <2>1 DEF Unannounced, Turns
  <2>2. CASE i \notin DOMAIN submitted
    BY <1>1, <1>4, <2>2 DEF TerminalOK
  <2>. QED BY <2>1, <2>2
<1>8. /\ UNCHANGED <<sends, base, pre, repeats, mode, callback, faults, pollers>>
      /\ quiet' \in [Sender -> BOOLEAN]
  BY DEF AbsorbEnter, samples, IInv, TypeOK, SendsOK
<1>. QED BY <1>5, <1>6, <1>7, <1>8, TerminalKeeps

\* An Enter is swallowed, the agent redraws, a Run loop joins, or a poll announces.
LEMMA OthersKeep ==
    ASSUME IInv, SwallowEnter \/ Redraw \/ Join \/ AnnounceIdle
    PROVE  IInv'
<1>1. TerminalOK /\ quiet \in [Sender -> BOOLEAN]
  BY DEF IInv, TypeOK, SendsOK
<1>2. CASE SwallowEnter
  <2>1. lane' \in Seq(Key) /\ Texts(lane') \subseteq Texts(lane)
    BY <1>1, <1>2, WorkedOff DEF SwallowEnter
  <2>2. /\ UNCHANGED <<sends, base, pre, repeats, mode, callback, quiet, pollers>>
        /\ UNCHANGED <<echo, prompt, submitted, frame, announced>>
        /\ Fault
    BY <1>2 DEF SwallowEnter, samples
  <2>3. TerminalOK'
    BY <1>1, <2>1, <2>2 DEF TerminalOK
  <2>4. \A s \in Sender : Untyped(s) => Untyped(s)'
    BY <2>1, <2>2 DEF Untyped, Turns, Texts
  <2>5. \A s \in Occupying : Unannounced(s) => Unannounced(s)'
    BY <2>2 DEF Unannounced, Turns, Texts, Occupying
  <2>. QED BY <1>1, <2>2, <2>3, <2>4, <2>5, TerminalKeeps
<1>3. CASE Redraw
  <2>1. /\ UNCHANGED <<sends, base, pre, repeats, mode, callback, faults, pollers>>
        /\ UNCHANGED <<lane, echo, prompt, submitted, announced>>
        /\ frame' \in Frame /\ quiet' \in [Sender -> BOOLEAN]
    BY <1>3 DEF Redraw, samples, Disturb
  <2>2. TerminalOK'
    BY <1>1, <2>1 DEF TerminalOK
  <2>3. \A s \in Sender : Untyped(s) => Untyped(s)'
    BY <2>1 DEF Untyped, Turns, Texts
  <2>4. \A s \in Occupying : Unannounced(s) => Unannounced(s)'
    BY <2>1 DEF Unannounced, Turns, Texts, Occupying
  <2>. QED BY <2>1, <2>2, <2>3, <2>4, TerminalKeeps
<1>4. CASE AnnounceIdle
  <2>1. /\ UNCHANGED <<sends, base, pre, repeats, mode, callback, quiet, faults, pollers>>
        /\ UNCHANGED <<lane, echo, prompt, submitted, frame>>
        /\ announced' = Len(submitted) /\ LoopFree
    BY <1>4 DEF AnnounceIdle, samples, terminal, Polls
  <2>2. TerminalOK'
    BY <1>1, <2>1, LenProperties DEF TerminalOK
  <2>3. \A s \in Sender : Untyped(s) => Untyped(s)'
    BY <2>1 DEF Untyped, Turns, Texts
  <2>4. pollers' = 1 => \A s \in Occupying : Unannounced(s) => Unannounced(s)'
    BY <2>1, NobodyOccupies
  <2>. QED BY <1>1, <2>1, <2>2, <2>3, <2>4, TerminalKeeps
<1>5. CASE Join
  <2>1. /\ UNCHANGED <<sends, base, pre, repeats, mode, callback, quiet, faults>>
        /\ UNCHANGED <<lane, echo, prompt, submitted, frame, announced>>
        /\ pollers' = pollers + 1 /\ Trouble
    BY <1>5 DEF Join, samples, terminal
  <2>2. TerminalOK'
    BY <1>1, <2>1 DEF TerminalOK
  <2>3. \A s \in Sender : Untyped(s) => Untyped(s)'
    BY <2>1 DEF Untyped, Turns, Texts
  <2>4. pollers' # 1
    BY <2>1 DEF IInv, TypeOK
  <2>. QED BY <1>1, <2>1, <2>2, <2>3, <2>4, TerminalKeeps
<1>. QED BY <1>2, <1>3, <1>4, <1>5

-----------------------------------------------------------------------------
\* The inductive invariant holds of every behaviour.
LEMMA Invariant == Spec => []IInv
<1>1. Init => IInv
  <2>. SUFFICES ASSUME Init PROVE IInv
    OBVIOUS
  <2>1. SendsOK
    BY DEF Init, SendsOK, Place, StuckAfter
  <2>2. TerminalOK
    <3>1. <<>> \in Seq(Key) /\ <<>> \in Seq(Sender) /\ <<>> \in Seq(Seq(Sender))
      BY EmptySeq
    <3>. QED BY <3>1, EmptySeq DEF Init, TerminalOK
  <2>3. LoopEach /\ Occupying = {} /\ pollers = 1
    <3>1. Occupying = {} /\ pollers = 1
      BY DEF Init, Occupying
    <3>. QED BY <3>1, FS_EmptySet DEF LoopEach
  <2>4. TypeOK
    BY <2>1, <2>2, <2>3, SendAssumption DEF Init, TypeOK, Sample
  <2>5. Begun
    BY DEF Init, Begun, Untyped, Turns, Texts
  <2>. QED BY <2>3, <2>4, <2>5 DEF Init, IInv, Awaited, CallbackInTime
<1>2. IInv /\ [Next]_vars => IInv'
  <2>. SUFFICES ASSUME IInv, [Next]_vars PROVE IInv'
    OBVIOUS
  <2>1. CASE UNCHANGED vars
    <3>1. /\ UNCHANGED <<sends, base, pre, repeats, mode, callback, quiet, faults, pollers>>
          /\ UNCHANGED <<lane, echo, prompt, submitted, frame, announced>>
      BY <2>1 DEF vars, samples, terminal
    <3>2. TerminalOK' /\ quiet' \in [Sender -> BOOLEAN]
      BY <3>1 DEF IInv, TypeOK, SendsOK, TerminalOK
    <3>3. \A s \in Sender : Untyped(s) => Untyped(s)'
      BY <3>1 DEF Untyped, Turns, Texts
    <3>4. \A s \in Occupying : Unannounced(s) => Unannounced(s)'
      BY <3>1 DEF Unannounced, Turns, Texts, Occupying
    <3>. QED BY <3>1, <3>2, <3>3, <3>4, TerminalKeeps
  <2>. QED BY <2>1, SendKeeps, AbsorbTextKeeps, AbsorbEnterKeeps, OthersKeep DEF Next
<1>. QED BY <1>1, <1>2, PTL DEF Spec

\* However many SENDs and hooks overlap, no two of them have the same Run loop,
\* and each has a result exactly where handleSend has decided one.
THEOREM TypeCorrect == Spec => []TypeOK
<1>1. IInv => TypeOK
  BY DEF IInv
<1>. QED BY <1>1, Invariant, PTL

\* The callback of a SEND that has the session's only Run loop paused is registered
\* before a poll can announce the turn it waits for (ipc.go:257-264).
THEOREM CallbackSafety == Spec => []CallbackInTime
<1>1. IInv => CallbackInTime
  BY DEF IInv
<1>. QED BY <1>1, Invariant, PTL

-----------------------------------------------------------------------------
(* Every message once and by itself. *)

TextOf(s) == [key |-> "text", from |-> s]

\* No SEND went on unpaused, no request failed, no Enter was swallowed and no
\* second Run loop came.
Clean == faults = 0 /\ pollers = 1 /\ \A s \in Sender : mode[s] \in {"none", "paused", "hook"}

\* A text that no Enter follows yet.
Open == IF lane = <<>> THEN prompt # <<>> ELSE lane[Len(lane)].key = "text"

\* The terminal gets at least one Enter after each text, and the SEND whose Enter
\* is missing has the Run loop paused, which keeps the other SENDs from typing.
Alternating ==
    /\ \A i \in DOMAIN lane :
          lane[i].key = "text" /\ i + 1 \in DOMAIN lane => lane[i + 1].key = "enter"
    /\ prompt # <<>> => Len(prompt) = 1 /\ (lane # <<>> => lane[1].key = "enter")
    /\ Open => \E s \in Occupying : at[s] \in {"echo", "enter"}

\* A text is in one place: not typed yet, queued once, in the prompt, or given to
\* the agent.
Once ==
    /\ \A i, j \in DOMAIN lane : lane[i].key = "text" /\ lane[i] = lane[j] => i = j
    /\ \A s \in Sender :
        /\ at[s] \in {"new", "base", "type"} => Untyped(s)
        /\ TextOf(s) \in Texts(lane) => s \notin Texts(prompt) /\ Turns(s) = {}
        /\ s \in Texts(prompt) => Turns(s) = {}

Fresh == \A s \in Sender : mode[s] = "none" <=> at[s] = "new"

WholeInv == Fresh /\ (Clean => Alternating /\ Once /\ SubmittedWhole)

\* What Append does to the queue.
LEMMA LaneAppended ==
    ASSUME TerminalOK, NEW s \in Sender, lane' = Append(lane, Input(s))
    PROVE  /\ Len(lane) \in Nat /\ DOMAIN lane = 1 .. Len(lane)
           /\ Len(lane') = Len(lane) + 1 /\ DOMAIN lane' = 1 .. (Len(lane) + 1)
           /\ \A i \in 1 .. Len(lane) : lane'[i] = lane[i]
           /\ lane'[Len(lane) + 1] = Input(s)
           /\ Texts(lane') = Texts(lane) \cup {Input(s)}
           /\ lane' # <<>>
           /\ lane = <<>> <=> Len(lane) = 0
<1>1. lane \in Seq(Key) /\ Input(s) \in Key
  BY DEF TerminalOK, Input, Key
<1>2. /\ lane' \in Seq(Key) /\ Len(lane') = Len(lane) + 1
      /\ \A i \in 1 .. Len(lane) : lane'[i] = lane[i]
      /\ lane'[Len(lane) + 1] = Input(s)
  BY <1>1, AppendProperties
<1>3. Len(lane) \in Nat /\ DOMAIN lane = 1 .. Len(lane) /\ DOMAIN lane' = 1 .. Len(lane')
  BY <1>1, <1>2, LenProperties
<1>4. lane' # <<>> /\ (lane = <<>> <=> Len(lane) = 0)
  BY <1>1, <1>2, <1>3, EmptySeq
<1>5. Texts(lane') = Texts(lane) \cup {Input(s)}
  BY <1>1, TextsAppend
<1>. QED BY <1>2, <1>3, <1>4, <1>5

\* What Tail does to it.
LEMMA LaneDropped ==
    ASSUME TerminalOK, lane # <<>>, lane' = Tail(lane)
    PROVE  /\ Len(lane) \in Nat /\ Len(lane) >= 1 /\ DOMAIN lane = 1 .. Len(lane)
           /\ Len(lane') = Len(lane) - 1 /\ DOMAIN lane' = 1 .. (Len(lane) - 1)
           /\ \A i \in 1 .. (Len(lane) - 1) : lane'[i] = lane[i + 1]
           /\ lane' = <<>> <=> Len(lane) = 1
           /\ Head(lane) = lane[1] /\ Head(lane) \in Key
           /\ Texts(lane') \subseteq Texts(lane) /\ Head(lane) \in Texts(lane)
<1>1. lane \in Seq(Key)
  BY DEF TerminalOK
<1>2. /\ Head(lane) \in Key /\ lane' \in Seq(Key)
      /\ Head(lane) = lane[1] /\ Len(lane') = Len(lane) - 1
      /\ \A i \in 1 .. Len(lane') : lane'[i] = lane[i + 1]
  BY <1>1, HeadTailProperties
<1>3. /\ Len(lane) \in Nat /\ Len(lane) # 0 /\ DOMAIN lane = 1 .. Len(lane)
      /\ DOMAIN lane' = 1 .. Len(lane')
      /\ lane' = <<>> <=> Len(lane') = 0
  BY <1>1, <1>2, LenProperties, EmptySeq
<1>4. Texts(lane') \subseteq Texts(lane) /\ Head(lane) \in Texts(lane)
  BY WorkedOff
<1>. QED BY <1>2, <1>3, <1>4

\* A step of a SEND that queues nothing keeps Clean's two promises.
LEMMA SilentStepWhole ==
    ASSUME TypeOK, WholeInv, NEW s \in Sender, Clean',
           PausePolling(s) \/ ServeHook(s) \/ Baseline(s) \/ Echoed(s) \/ ConfirmSubmit(s)
             \/ RegisterCallback(s) \/ Return(s)
    PROVE  Alternating' /\ Once'
<1>1. UNCHANGED <<lane, prompt, submitted, faults, pollers>>
  BY DEF PausePolling, ServeHook, Baseline, Echoed, ConfirmSubmit, RegisterCallback, Return, terminal
<1>2. /\ \A o \in Sender \ {s} : at'[o] = at[o] /\ mode'[o] = mode[o]
      /\ at[s] # "new" => mode'[s] = mode[s]
  BY Footprint DEF TypeOK, Send, SendRecv
<1>3. Clean
  BY <1>1, <1>2 DEF Clean, WholeInv, Fresh
<1>4. /\ at[s] \in {"echo", "enter"} => at[s] = "echo" /\ at'[s] = "enter"
      /\ at'[s] \in {"new", "base", "type"} => at[s] \in {"new", "base", "type"}
  BY DEF PausePolling, ServeHook, Baseline, Echoed, ConfirmSubmit, Decide, RegisterCallback, Return, Goto,
         TypeOK, SendsOK
<1>5. ASSUME NEW o \in Occupying, at[o] \in {"echo", "enter"}
      PROVE  o \in Occupying' /\ at'[o] \in {"echo", "enter"}
  BY <1>2, <1>4, <1>5 DEF Occupying
<1>6. Open' = Open
  BY <1>1 DEF Open
<1>7. Alternating'
  <2>1. Alternating
    BY <1>3 DEF WholeInv
  <2>2. Open' => \E o \in Occupying' : at'[o] \in {"echo", "enter"}
    BY <1>5, <1>6, <2>1 DEF Alternating
  <2>. QED BY <1>1, <2>1, <2>2 DEF Alternating
<1>8. Once'
  <2>1. Once
    BY <1>3 DEF WholeInv
  <2>2. \A o \in Sender : Turns(o)' = Turns(o) /\ Untyped(o)' = Untyped(o)
    BY <1>1 DEF Turns, Untyped, Texts
  <2>3. \A o \in Sender : at'[o] \in {"new", "base", "type"} => at[o] \in {"new", "base", "type"}
    BY <1>2, <1>4
  <2>. QED BY <1>1, <2>1, <2>2, <2>3 DEF Once, Texts
<1>. QED BY <1>7, <1>8

\* A request that goes well: a text is queued behind an Enter, by the only SEND
\* that may type.
LEMMA DeliverWhole ==
    ASSUME TypeOK, WholeInv, NEW s \in Sender, Clean', Deliver(s)
    PROVE  Alternating' /\ Once'
<1>0. TerminalOK
  BY DEF TypeOK
<1>1. /\ UNCHANGED <<prompt, submitted, faults, mode, pollers>>
      /\ lane' = Append(lane, Input(s))
      /\ at' = [at EXCEPT ![s] = Replied(s)]
      /\ at[s] \in {"type", "enter", "only enter", "second"}
  BY DEF Deliver, Goto, Requests
<1>2. Clean /\ Alternating /\ Once
  BY <1>1 DEF Clean, WholeInv
<1>3. s \in Occupying /\ \A o \in Occupying : o = s
  <2>1. s \in Occupying
    BY <1>1, <1>2 DEF Clean, WholeInv, Fresh, Occupying, TypeOK, SendsOK
  <2>2. LoopEach /\ pollers = 1
    BY <1>2 DEF TypeOK, Clean
  <2>. QED BY <2>1, <2>2, OneOccupies
<1>4. /\ Len(lane) \in Nat /\ DOMAIN lane = 1 .. Len(lane)
      /\ Len(lane') = Len(lane) + 1 /\ DOMAIN lane' = 1 .. (Len(lane) + 1)
      /\ \A i \in 1 .. Len(lane) : lane'[i] = lane[i]
      /\ lane'[Len(lane) + 1] = Input(s)
      /\ Texts(lane') = Texts(lane) \cup {Input(s)}
      /\ lane' # <<>>
      /\ lane = <<>> <=> Len(lane) = 0
  BY <1>0, <1>1, LaneAppended
<1>5. /\ \A o \in Sender : Turns(o)' = Turns(o)
      /\ \A o \in Sender : o \in Texts(prompt)' <=> o \in Texts(prompt)
  BY <1>1 DEF Turns, Texts
<1>6. at'[s] = Replied(s) /\ \A o \in Sender \ {s} : at'[o] = at[o]
  BY <1>1 DEF TypeOK, SendsOK
<1>7. lane \in Seq(Key)
  BY <1>0 DEF TerminalOK
<1>8. CASE at[s] = "type"
  <2>1. Input(s) = TextOf(s) /\ at'[s] \in {"echo", "enter"}
    BY <1>6, <1>8 DEF Input, TextOf, Replied
  <2>2. ~Open
    BY <1>2, <1>3, <1>8 DEF Alternating
  <2>3. Untyped(s)
    BY <1>2, <1>8 DEF Once
  <2>4. s \in Occupying'
    BY <1>1, <1>3, <2>1 DEF Occupying
  <2>5. \A i \in DOMAIN lane' : lane'[i].key = "text" /\ i + 1 \in DOMAIN lane'
           => lane'[i + 1].key = "enter"
    <3>. SUFFICES ASSUME NEW i \in DOMAIN lane', lane'[i].key = "text", i + 1 \in DOMAIN lane'
                  PROVE  lane'[i + 1].key = "enter"
      OBVIOUS
    <3>1. i \in 1 .. Len(lane)
      BY <1>4
    <3>2. i # Len(lane)
      BY <1>4, <2>2, <3>1 DEF Open
    <3>. QED BY <1>2, <1>4, <3>1, <3>2 DEF Alternating
  <2>6. prompt' # <<>> => Len(prompt') = 1 /\ (lane' # <<>> => lane'[1].key = "enter")
    <3>1. prompt # <<>> => Len(lane) # 0 /\ lane[1].key = "enter" /\ Len(prompt) = 1
      BY <1>2, <1>4, <2>2 DEF Alternating, Open
    <3>2. Len(lane) # 0 => lane'[1] = lane[1]
      BY <1>4
    <3>. QED BY <1>1, <3>1, <3>2
  <2>7. Alternating'
    BY <2>1, <2>4, <2>5, <2>6 DEF Alternating
  <2>8. \A i, j \in DOMAIN lane' : lane'[i].key = "text" /\ lane'[i] = lane'[j] => i = j
    <3>1. \A i \in DOMAIN lane : lane[i] # TextOf(s)
      BY <2>3 DEF Untyped, Texts, TextOf
    <3>. QED BY <1>2, <1>4, <2>1, <3>1 DEF Once
  <2>9. \A o \in Sender \ {s} : (TextOf(o) \in Texts(lane)' <=> TextOf(o) \in Texts(lane))
    BY <1>4, <2>1 DEF TextOf, Texts
  <2>10. \A o \in Sender \ {s} : Untyped(o) => Untyped(o)'
    BY <1>5, <2>9 DEF Untyped, TextOf
  <2>11. s \notin Texts(prompt)' /\ Turns(s)' = {}
    BY <1>5, <2>3 DEF Untyped
  <2>. QED BY <1>2, <1>5, <1>6, <2>1, <2>7, <2>8, <2>9, <2>10, <2>11 DEF Once
<1>9. CASE at[s] # "type"
  <2>1. Input(s).key = "enter" /\ at'[s] \notin {"new", "base", "type"}
    <3>1. Input(s) = [key |-> "enter", from |-> s]
      BY <1>9 DEF Input
    <3>2. Replied(s) \in {"answer", "confirm", "hook"}
      BY <1>1, <1>9 DEF Replied
    <3>. QED BY <1>6, <3>1, <3>2
  <2>2. ~Open'
    BY <1>4, <2>1 DEF Open
  <2>3. \A i \in DOMAIN lane' : lane'[i].key = "text" /\ i + 1 \in DOMAIN lane'
           => lane'[i + 1].key = "enter"
    <3>. SUFFICES ASSUME NEW i \in DOMAIN lane', lane'[i].key = "text", i + 1 \in DOMAIN lane'
                  PROVE  lane'[i + 1].key = "enter"
      OBVIOUS
    <3>1. CASE i = Len(lane)
      BY <1>4, <2>1, <3>1
    <3>2. CASE i # Len(lane)
      BY <1>2, <1>4, <3>2 DEF Alternating
    <3>. QED BY <3>1, <3>2
  <2>4. prompt' # <<>> => Len(prompt') = 1 /\ (lane' # <<>> => lane'[1].key = "enter")
    <3>1. Len(lane) = 0 => lane'[1] = Input(s)
      BY <1>4
    <3>2. Len(lane) # 0 => lane'[1] = lane[1] /\ lane # <<>>
      BY <1>4
    <3>3. prompt # <<>> => Len(prompt) = 1 /\ (lane # <<>> => lane[1].key = "enter")
      BY <1>2 DEF Alternating
    <3>. QED BY <1>1, <2>1, <3>1, <3>2, <3>3
  <2>5. Alternating'
    BY <2>2, <2>3, <2>4 DEF Alternating
  <2>6. \A i, j \in DOMAIN lane' : lane'[i].key = "text" /\ lane'[i] = lane'[j] => i = j
    BY <1>2, <1>4, <2>1 DEF Once
  <2>7. \A o \in Sender : (TextOf(o) \in Texts(lane)' <=> TextOf(o) \in Texts(lane))
    BY <1>4, <2>1 DEF TextOf, Texts
  <2>8. \A o \in Sender : Untyped(o) => Untyped(o)'
    BY <1>5, <2>7 DEF Untyped, TextOf
  <2>. QED BY <1>2, <1>5, <1>6, <2>1, <2>5, <2>6, <2>7, <2>8 DEF Once
<1>. QED BY <1>8, <1>9

\* The terminal types a text: no other one was in the prompt.
LEMMA AbsorbTextWhole ==
    ASSUME TypeOK, WholeInv, Clean', AbsorbText
    PROVE  Alternating' /\ Once'
<1>0. TerminalOK
  BY DEF TypeOK
<1>1. /\ UNCHANGED <<at, mode, submitted, faults, pollers>>
      /\ lane # <<>> /\ lane' = Tail(lane) /\ Head(lane).key = "text"
      /\ prompt' = Append(prompt, Head(lane).from)
  BY DEF AbsorbText, sends
<1>2. Clean /\ Alternating /\ Once
  BY <1>1 DEF Clean, WholeInv
<1>3. /\ Len(lane) \in Nat /\ Len(lane) >= 1 /\ DOMAIN lane = 1 .. Len(lane)
      /\ Len(lane') = Len(lane) - 1 /\ DOMAIN lane' = 1 .. (Len(lane) - 1)
      /\ \A i \in 1 .. (Len(lane) - 1) : lane'[i] = lane[i + 1]
      /\ lane' = <<>> <=> Len(lane) = 1
      /\ Head(lane) = lane[1] /\ Head(lane) \in Key
      /\ Texts(lane') \subseteq Texts(lane) /\ Head(lane) \in Texts(lane)
  BY <1>0, <1>1, LaneDropped
<1>4. PICK t \in Sender : Head(lane) = TextOf(t) /\ Head(lane).from = t
  BY <1>1, <1>3 DEF Key, TextOf
<1>5. prompt = <<>>
  BY <1>1, <1>2, <1>3 DEF Alternating
<1>6. /\ prompt' # <<>> /\ Len(prompt') = 1
      /\ Texts(prompt') = {t}
  <2>1. prompt \in Seq(Sender)
    BY <1>0 DEF TerminalOK
  <2>2. prompt' \in Seq(Sender) /\ Len(prompt') = Len(prompt) + 1 /\ Len(prompt) = 0
    BY <1>1, <1>4, <1>5, <2>1, AppendProperties, EmptySeq
  <2>3. Texts(prompt') = Texts(prompt) \cup {t} /\ Texts(prompt) = {}
    <3>1. Texts(prompt') = Texts(prompt) \cup {t}
      BY <1>1, <1>4, <2>1, TextsAppend
    <3>. QED BY <1>5, <3>1 DEF Texts
  <2>. QED BY <2>2, <2>3, EmptySeq
<1>7. \A o \in Sender : Turns(o)' = Turns(o)
  BY <1>1 DEF Turns, Texts
<1>8. TextOf(t) \notin Texts(lane')
  <2>. SUFFICES ASSUME NEW i \in 1 .. (Len(lane) - 1) PROVE lane'[i] # TextOf(t)
    BY <1>3 DEF Texts
  <2>1. i + 1 \in DOMAIN lane /\ 1 \in DOMAIN lane /\ i + 1 # 1 /\ lane'[i] = lane[i + 1]
    BY <1>3
  <2>. QED BY <1>1, <1>2, <1>3, <1>4, <2>1 DEF Once
<1>9. Alternating'
  <2>1. \A i \in DOMAIN lane' : lane'[i].key = "text" /\ i + 1 \in DOMAIN lane'
           => lane'[i + 1].key = "enter"
    <3>. SUFFICES ASSUME NEW i \in DOMAIN lane', lane'[i].key = "text", i + 1 \in DOMAIN lane'
                  PROVE  lane'[i + 1].key = "enter"
      OBVIOUS
    <3>1. /\ i + 1 \in DOMAIN lane /\ (i + 1) + 1 \in DOMAIN lane
          /\ lane'[i] = lane[i + 1] /\ lane'[i + 1] = lane[(i + 1) + 1]
      BY <1>3
    <3>. QED BY <1>2, <3>1 DEF Alternating
  <2>2. lane' # <<>> => lane'[1].key = "enter"
    <3>. SUFFICES ASSUME lane' # <<>> PROVE lane'[1].key = "enter"
      OBVIOUS
    <3>1. 1 \in DOMAIN lane /\ 1 + 1 \in DOMAIN lane /\ lane'[1] = lane[1 + 1]
      BY <1>3
    <3>. QED BY <1>1, <1>2, <1>3, <3>1 DEF Alternating
  <2>3. Open' => Open
    <3>1. CASE Len(lane) = 1
      BY <1>1, <1>3, <3>1 DEF Open
    <3>2. CASE Len(lane) # 1
      <4>1. lane' # <<>> /\ lane'[Len(lane')] = lane[Len(lane)]
        BY <1>3, <3>2
      <4>. QED BY <1>1, <4>1 DEF Open
    <3>. QED BY <3>1, <3>2
  <2>4. Occupying' = Occupying
    BY <1>1 DEF Occupying
  <2>. QED BY <1>1, <1>2, <1>6, <2>1, <2>2, <2>3, <2>4 DEF Alternating
<1>10. Once'
  <2>1. \A i, j \in DOMAIN lane' : lane'[i].key = "text" /\ lane'[i] = lane'[j] => i = j
    BY <1>2, <1>3 DEF Once
  <2>2. ASSUME NEW o \in Sender, at'[o] \in {"new", "base", "type"} PROVE Untyped(o)'
    <3>1. Untyped(o)
      BY <1>1, <1>2, <2>2 DEF Once
    <3>2. o # t
      BY <1>3, <1>4, <3>1 DEF Untyped, TextOf
    <3>3. o \notin Texts(prompt') /\ TextOf(o) \notin Texts(lane')
      BY <1>3, <1>6, <3>1, <3>2 DEF Untyped, TextOf
    <3>. QED BY <1>7, <3>1, <3>3 DEF Untyped, TextOf, Texts
  <2>3. ASSUME NEW o \in Sender, TextOf(o) \in Texts(lane')
        PROVE  o \notin Texts(prompt') /\ Turns(o)' = {}
    BY <1>2, <1>3, <1>6, <1>7, <1>8, <2>3 DEF Once
  <2>4. Turns(t)' = {}
    BY <1>2, <1>3, <1>4, <1>7 DEF Once
  <2>. QED BY <1>6, <2>1, <2>2, <2>3, <2>4 DEF Once, Texts
<1>. QED BY <1>9, <1>10

\* The terminal presses Enter: the agent is given one text, and not a second time.
LEMMA AbsorbEnterWhole ==
    ASSUME TypeOK, WholeInv, Clean', AbsorbEnter
    PROVE  Alternating' /\ Once' /\ SubmittedWhole'
<1>0. TerminalOK
  BY DEF TypeOK
<1>1. /\ UNCHANGED <<at, mode, faults, pollers>>
      /\ lane # <<>> /\ lane' = Tail(lane) /\ Head(lane).key = "enter"
      /\ submitted' = (IF prompt = <<>> THEN submitted ELSE Append(submitted, prompt))
      /\ prompt' = <<>>
  BY DEF AbsorbEnter, sends
<1>2. Clean /\ Alternating /\ Once /\ SubmittedWhole
  BY <1>1 DEF Clean, WholeInv
<1>3. /\ Len(lane) \in Nat /\ Len(lane) >= 1 /\ DOMAIN lane = 1 .. Len(lane)
      /\ Len(lane') = Len(lane) - 1 /\ DOMAIN lane' = 1 .. (Len(lane) - 1)
      /\ \A i \in 1 .. (Len(lane) - 1) : lane'[i] = lane[i + 1]
      /\ lane' = <<>> <=> Len(lane) = 1
      /\ Texts(lane') \subseteq Texts(lane)
  BY <1>0, <1>1, LaneDropped
<1>4. /\ prompt \in Seq(Sender) /\ submitted \in Seq(Seq(Sender))
      /\ Len(submitted) \in Nat /\ DOMAIN submitted = 1 .. Len(submitted)
  BY <1>0, LenProperties DEF TerminalOK
<1>5. /\ Len(submitted') \in Nat /\ DOMAIN submitted' = 1 .. Len(submitted')
      /\ \A i \in DOMAIN submitted : i \in DOMAIN submitted' /\ submitted'[i] = submitted[i]
      /\ \A i \in DOMAIN submitted' \ DOMAIN submitted :
            i = Len(submitted) + 1 /\ submitted'[i] = prompt /\ prompt # <<>>
  <2>1. CASE prompt = <<>>
    BY <1>1, <1>4, <2>1
  <2>2. CASE prompt # <<>>
    <3>1. submitted' = Append(submitted, prompt)
      BY <1>1, <2>2
    <3>. QED BY <1>4, <2>2, <3>1, LenProperties, AppendProperties
  <2>. QED BY <2>1, <2>2
<1>6. ASSUME NEW o \in Sender, o \notin Texts(prompt), Turns(o) = {} PROVE Turns(o)' = {}
  BY <1>5, <1>6 DEF Turns, Texts
<1>7. prompt # <<>> => Len(prompt) = 1 /\ \E a \in Sender : a \in Texts(prompt) /\ Turns(a) = {}
  <2>. SUFFICES ASSUME prompt # <<>>
                PROVE  Len(prompt) = 1 /\ \E a \in Sender : a \in Texts(prompt) /\ Turns(a) = {}
    OBVIOUS
  <2>1. Len(prompt) = 1
    BY <1>2 DEF Alternating
  <2>2. prompt[1] \in Sender /\ prompt[1] \in Texts(prompt)
    BY <1>4, <2>1, LenProperties, ElementOfSeq DEF Texts
  <2>. QED BY <1>2, <2>1, <2>2 DEF Once
<1>8. Alternating'
  <2>1. \A i \in DOMAIN lane' : lane'[i].key = "text" /\ i + 1 \in DOMAIN lane'
           => lane'[i + 1].key = "enter"
    <3>. SUFFICES ASSUME NEW i \in DOMAIN lane', lane'[i].key = "text", i + 1 \in DOMAIN lane'
                  PROVE  lane'[i + 1].key = "enter"
      OBVIOUS
    <3>1. /\ i + 1 \in DOMAIN lane /\ (i + 1) + 1 \in DOMAIN lane
          /\ lane'[i] = lane[i + 1] /\ lane'[i + 1] = lane[(i + 1) + 1]
      BY <1>3
    <3>. QED BY <1>2, <3>1 DEF Alternating
  <2>2. Open' => Open
    <3>1. CASE Len(lane) = 1
      BY <1>1, <1>3, <3>1 DEF Open
    <3>2. CASE Len(lane) # 1
      <4>1. lane' # <<>> /\ lane'[Len(lane')] = lane[Len(lane)]
        BY <1>3, <3>2
      <4>. QED BY <1>1, <4>1 DEF Open
    <3>. QED BY <3>1, <3>2
  <2>3. Occupying' = Occupying
    BY <1>1 DEF Occupying
  <2>. QED BY <1>1, <1>2, <2>1, <2>2, <2>3 DEF Alternating
<1>9. Once'
  <2>1. \A i, j \in DOMAIN lane' : lane'[i].key = "text" /\ lane'[i] = lane'[j] => i = j
    BY <1>2, <1>3 DEF Once
  <2>2. Texts(prompt') = {}
    BY <1>1 DEF Texts
  <2>3. ASSUME NEW o \in Sender, at'[o] \in {"new", "base", "type"} PROVE Untyped(o)'
    <3>1. Untyped(o)
      BY <1>1, <1>2, <2>3 DEF Once
    <3>2. Turns(o)' = {}
      BY <1>6, <3>1 DEF Untyped
    <3>. QED BY <1>3, <2>2, <3>1, <3>2 DEF Untyped, Texts
  <2>4. ASSUME NEW o \in Sender, TextOf(o) \in Texts(lane') PROVE Turns(o)' = {}
    BY <1>2, <1>3, <1>6, <2>4 DEF Once
  <2>. QED BY <2>1, <2>2, <2>3, <2>4 DEF Once, Texts
<1>10. SubmittedWhole'
  <2>0. /\ \A i \in DOMAIN submitted : Len(submitted[i]) = 1
        /\ \A i, j \in DOMAIN submitted : submitted[i] = submitted[j] => i = j
    BY <1>2 DEF SubmittedWhole, Clean
  <2>1. \A i \in DOMAIN submitted' : Len(submitted'[i]) = 1
    BY <1>5, <1>7, <2>0
  <2>2. ASSUME NEW i \in DOMAIN submitted, NEW j \in DOMAIN submitted' \ DOMAIN submitted
        PROVE  submitted'[i] # submitted'[j]
    <3>1. PICK a \in Sender : a \in Texts(prompt) /\ Turns(a) = {}
      BY <1>5, <1>7, <2>2
    <3>2. submitted[i] # prompt
      BY <3>1 DEF Turns
    <3>. QED BY <1>5, <2>2, <3>2
  <2>3. \A i, j \in DOMAIN submitted' : submitted'[i] = submitted'[j] => i = j
    BY <1>5, <2>0, <2>2
  <2>. QED BY <2>1, <2>3 DEF SubmittedWhole
<1>. QED BY <1>8, <1>9, <1>10

\* The step half of the invariant: no other step queues, types or submits.
LEMMA WholeStep == TypeOK /\ TypeOK' /\ WholeInv /\ [Next]_vars => WholeInv'
<1>. SUFFICES ASSUME TypeOK, TypeOK', WholeInv, [Next]_vars PROVE WholeInv'
  OBVIOUS
<1>1. ASSUME NEW s \in Sender, Send(s) PROVE WholeInv'
  <2>1. /\ UNCHANGED submitted
        /\ at'[s] # "new"
        /\ \A o \in Sender \ {s} : at'[o] = at[o] /\ mode'[o] = mode[o]
        /\ at[s] # "new" => mode'[s] = mode[s]
        /\ pollers' = pollers
    BY <1>1, Footprint DEF TypeOK
  <2>2. at[s] = "new" => mode'[s] # "none"
    <3>. SUFFICES ASSUME at[s] = "new" PROVE mode'[s] # "none"
      OBVIOUS
    <3>1. PausePolling(s) \/ ServeHook(s)
      BY <1>1 DEF Send, SendRecv, Baseline, Deliver, ReplyLost, NotDelivered, Requests, Echoed,
        ConfirmSubmit, RegisterCallback, Return
    <3>2. PICK m \in {"paused", "unpaused", "direct", "hook"} : mode' = [mode EXCEPT ![s] = m]
      BY <3>1 DEF PausePolling, ServeHook
    <3>. QED BY <3>2 DEF TypeOK, SendsOK
  <2>3. Fresh'
    BY <2>1, <2>2 DEF WholeInv, Fresh
  <2>4. CASE ReplyLost(s) \/ NotDelivered(s)
    <3>1. faults' # 0
      BY <2>4 DEF ReplyLost, NotDelivered, Fault, TypeOK
    <3>. QED BY <2>3, <3>1 DEF WholeInv, Clean
  <2>5. CASE ~(ReplyLost(s) \/ NotDelivered(s))
    <3>. SUFFICES ASSUME Clean' PROVE Alternating' /\ Once' /\ SubmittedWhole'
      BY <2>3 DEF WholeInv
    <3>1. Alternating' /\ Once'
      BY <1>1, <2>5, SilentStepWhole, DeliverWhole DEF Send, SendRecv
    <3>2. faults' = faults
      BY <1>1, <2>5 DEF Send, SendRecv, PausePolling, ServeHook, Baseline, Deliver, Echoed,
        ConfirmSubmit, RegisterCallback, Return
    <3>3. Clean
      BY <2>1, <3>2 DEF Clean, WholeInv, Fresh
    <3>4. SubmittedWhole'
      BY <2>1, <3>3 DEF WholeInv, SubmittedWhole, Clean
    <3>. QED BY <3>1, <3>4
  <2>. QED BY <2>4, <2>5
<1>2. CASE AbsorbText \/ AbsorbEnter
  <2>1. UNCHANGED <<at, mode, faults, pollers>>
    BY <1>2 DEF AbsorbText, AbsorbEnter, sends
  <2>2. Clean' = Clean /\ Fresh'
    BY <2>1 DEF Clean, WholeInv, Fresh
  <2>3. AbsorbText => (Clean => SubmittedWhole')
    BY <2>1 DEF AbsorbText, WholeInv, SubmittedWhole, Clean
  <2>. QED BY <1>2, <2>2, <2>3, AbsorbTextWhole, AbsorbEnterWhole DEF WholeInv
<1>3. CASE SwallowEnter
  <2>1. faults' # 0 /\ UNCHANGED <<at, mode>>
    BY <1>3 DEF SwallowEnter, Fault, TypeOK, sends
  <2>. QED BY <2>1 DEF WholeInv, Fresh, Clean
<1>4. CASE Redraw \/ AnnounceIdle \/ UNCHANGED vars
  <2>1. UNCHANGED <<at, mode, faults, pollers, lane, prompt, submitted>>
    BY <1>4 DEF Redraw, AnnounceIdle, vars, sends, terminal
  <2>2. Fresh' /\ Clean' = Clean /\ Occupying' = Occupying /\ Open' = Open
    BY <2>1 DEF WholeInv, Fresh, Clean, Occupying, Open
  <2>3. \A s \in Sender : Turns(s)' = Turns(s) /\ Untyped(s)' = Untyped(s)
    BY <2>1 DEF Turns, Untyped, Texts
  <2>4. Alternating => Alternating'
    BY <2>1, <2>2 DEF Alternating
  <2>5. Once => Once'
    BY <2>1, <2>3 DEF Once, Texts
  <2>6. SubmittedWhole => SubmittedWhole'
    BY <2>1 DEF SubmittedWhole
  <2>. QED BY <2>2, <2>4, <2>5, <2>6 DEF WholeInv
<1>5. CASE Join
  <2>1. pollers' # 1 /\ UNCHANGED <<at, mode>>
    BY <1>5 DEF Join, TypeOK, sends
  <2>. QED BY <2>1 DEF WholeInv, Fresh, Clean
<1>. QED BY <1>1, <1>2, <1>3, <1>4, <1>5 DEF Next

\* Without faults, with every SEND pausing the session's only Run loop, each message
\* is given to the agent once and in a turn of its own, however many SENDs and hooks
\* there are.
THEOREM WholeSafety == Spec => []SubmittedWhole
<1>1. Init => WholeInv
  BY DEF Init, WholeInv, Fresh, Alternating, Open, Once, Untyped, Turns, Texts, SubmittedWhole
<1>2. TypeOK /\ WholeInv => SubmittedWhole
  BY DEF TypeOK, WholeInv, Clean, SubmittedWhole
<1>. QED BY <1>1, <1>2, WholeStep, TypeCorrect, PTL DEF Spec


-----------------------------------------------------------------------------
(* A divergence that proves the Enter. *)

\* While the sample of a SEND is quiet, its text is in a turn, or still in the
\* prompt of the very screen that ConfirmSubmit compares with.
QuietInv ==
    \A s \in Sender : quiet[s] =>
        /\ at[s] \notin {"new", "base", "type", "echo"}
        /\ \/ Turns(s) # {}
           \/ /\ s \in Texts(prompt)
              /\ result[s] # "ok"
              /\ at[s] \in {"enter", "confirm"} => pre[s] = Screen

\* A step of a SEND changes no screen: Echoed takes the sample of its own, and
\* ConfirmSubmit answers "ok" only where the screen differs from it.
LEMMA QuietSendStep ==
    ASSUME TypeOK, QuietInv, NEW s \in Sender, Send(s)
    PROVE  QuietInv'
<1>1. UNCHANGED <<echo, prompt, submitted, frame>>
  BY Footprint DEF TypeOK
<1>2. Screen' = Screen /\ \A o \in Sender : Turns(o)' = Turns(o) /\ Texts(prompt') = Texts(prompt)
  BY <1>1 DEF Screen, Turns, Texts
<1>3. CASE Echoed(s)
  <2>1. PICK b \in {Screen, base[s]} :
          /\ pre' = [pre EXCEPT ![s] = b]
          /\ quiet' = [quiet EXCEPT ![s] = echo /\ b = Screen /\ s \in Texts(prompt)]
    BY <1>3 DEF Echoed, Reference
  <2>2. /\ at[s] = "echo" /\ result' = result
        /\ at' = [at EXCEPT ![s] = "enter"]
    BY <1>3 DEF Echoed, Goto
  <2>3. result[s] # "ok"
    BY <2>2 DEF TypeOK, SendsOK
  <2>4. ASSUME NEW o \in Sender \ {s}
        PROVE  pre'[o] = pre[o] /\ quiet'[o] = quiet[o] /\ at'[o] = at[o]
    BY <2>1, <2>2 DEF TypeOK, SendsOK
  <2>5. pre'[s] = b /\ (quiet'[s] => b = Screen /\ s \in Texts(prompt))
    <3>1. pre'[s] = b
      BY <2>1 DEF TypeOK
    <3>2. quiet'[s] = (echo /\ b = Screen /\ s \in Texts(prompt))
      BY <2>1 DEF TypeOK, SendsOK
    <3>. QED BY <3>1, <3>2
  <2>6. at'[s] = "enter"
    BY <2>2 DEF TypeOK, SendsOK
  <2>. SUFFICES ASSUME NEW o \in Sender, quiet'[o]
                PROVE  /\ at'[o] \notin {"new", "base", "type", "echo"}
                       /\ \/ Turns(o) # {}
                          \/ /\ o \in Texts(prompt)
                             /\ result[o] # "ok"
                             /\ at'[o] \in {"enter", "confirm"} => pre'[o] = Screen
    BY <1>2, <2>2 DEF QuietInv
  <2>7. CASE o = s
    BY <2>3, <2>5, <2>6, <2>7
  <2>8. CASE o # s
    BY <2>4, <2>8 DEF QuietInv
  <2>. QED BY <2>7, <2>8
<1>4. CASE ConfirmSubmit(s)
  <2>1. UNCHANGED quiet /\ at[s] = "confirm"
    BY <1>4 DEF ConfirmSubmit
  <2>2. \A o \in Sender \ {s} : at'[o] = at[o] /\ result'[o] = result[o] /\ pre'[o] = pre[o]
    BY <1>4 DEF ConfirmSubmit, Decide, Goto, TypeOK, SendsOK
  <2>3. \/ UNCHANGED <<at, result, pre>>
        \/ at'[s] \in {"second", "hook"} /\ (result'[s] = "ok" => Screen # pre[s])
    BY <1>4 DEF ConfirmSubmit, Decide, Goto, TypeOK, SendsOK
  <2>. QED BY <1>2, <2>1, <2>2, <2>3 DEF QuietInv
<1>5. CASE Return(s)
  <2>1. /\ result' = result /\ quiet' = [quiet EXCEPT ![s] = FALSE]
        /\ pre' = [pre EXCEPT ![s] = Blank] /\ at' = [at EXCEPT ![s] = "done"]
    BY <1>5 DEF Return, Goto
  <2>2. ASSUME NEW o \in Sender \ {s}
        PROVE  pre'[o] = pre[o] /\ quiet'[o] = quiet[o] /\ at'[o] = at[o]
    BY <2>1 DEF TypeOK, SendsOK
  <2>3. ~quiet'[s]
    BY <2>1 DEF TypeOK, SendsOK
  <2>. QED BY <1>2, <2>1, <2>2, <2>3 DEF QuietInv
<1>6. CASE PausePolling(s) \/ ServeHook(s) \/ Baseline(s) \/ SendRecv(s) \/ RegisterCallback(s)
  <2>1. UNCHANGED <<quiet, pre>>
    BY <1>6 DEF PausePolling, ServeHook, Baseline, SendRecv, Deliver, ReplyLost, NotDelivered,
      RegisterCallback, samples
  <2>2. \A o \in Sender \ {s} : at'[o] = at[o] /\ result'[o] = result[o]
    BY <1>6 DEF PausePolling, ServeHook, Baseline, SendRecv, Deliver, ReplyLost, NotDelivered, Repeat, Failed,
      RegisterCallback, Goto, TypeOK, SendsOK
  <2>3. result'[s] = "ok" => result[s] = "ok"
    BY <1>6 DEF PausePolling, ServeHook, Baseline, SendRecv, Deliver, ReplyLost, NotDelivered, Repeat, Failed,
      RegisterCallback, TypeOK, SendsOK
  <2>4. /\ at'[s] \in {"enter", "confirm"} => at[s] \in {"type", "enter", "confirm"}
        /\ at'[s] \in {"new", "base", "type", "echo"} => at[s] \in {"new", "base", "type", "echo"}
    <3>1. CASE PausePolling(s) \/ ServeHook(s) \/ Baseline(s) \/ RegisterCallback(s)
      BY <3>1 DEF PausePolling, ServeHook, Baseline, RegisterCallback, Goto, TypeOK, SendsOK
    <3>2. CASE Deliver(s)
      BY <3>2 DEF Deliver, Requests, Replied, Goto, TypeOK, SendsOK
    <3>3. CASE ReplyLost(s) \/ NotDelivered(s)
      BY <3>3 DEF ReplyLost, NotDelivered, Repeat, Failed, Goto, TypeOK, SendsOK
    <3>. QED BY <1>6, <3>1, <3>2, <3>3 DEF SendRecv
  <2>. QED BY <1>2, <2>1, <2>2, <2>3, <2>4 DEF QuietInv
<1>. QED BY <1>3, <1>4, <1>5, <1>6 DEF Send

\* Between the sample and the decision only an Enter has touched a quiet screen,
\* and it can have changed it only by taking the prompt.
LEMMA QuietStep == TypeOK /\ QuietInv /\ [Next]_vars => QuietInv'
<1>. SUFFICES ASSUME TypeOK, QuietInv, [Next]_vars PROVE QuietInv'
  OBVIOUS
<1>1. CASE AbsorbText \/ Redraw
  BY <1>1 DEF AbsorbText, Redraw, Disturb, QuietInv
<1>2. CASE AbsorbEnter
  <2>1. /\ UNCHANGED <<at, result, pre, quiet, echo, frame>>
        /\ submitted' = (IF prompt = <<>> THEN submitted ELSE Append(submitted, prompt))
        /\ prompt' = <<>>
    BY <1>2 DEF AbsorbEnter, sends, samples
  <2>2. prompt \in Seq(Sender) /\ submitted \in Seq(Seq(Sender))
    BY DEF TypeOK, TerminalOK
  <2>3. ASSUME NEW s \in Sender, quiet[s] PROVE Turns(s)' # {}
    <3>1. CASE prompt = <<>>
      <4>1. Turns(s) # {}
        BY <2>3, <3>1 DEF QuietInv, Texts
      <4>. QED BY <2>1, <3>1, <4>1 DEF Turns, Texts
    <3>2. CASE prompt # <<>>
      <4>1. submitted' = Append(submitted, prompt)
        BY <2>1, <3>2
      <4>2. /\ Len(submitted) \in Nat /\ DOMAIN submitted = 1 .. Len(submitted)
            /\ DOMAIN submitted' = 1 .. (Len(submitted) + 1)
            /\ \A i \in DOMAIN submitted : submitted'[i] = submitted[i]
            /\ submitted'[Len(submitted) + 1] = prompt
        BY <2>2, <4>1, LenProperties, AppendProperties
      <4>3. CASE Turns(s) # {}
        BY <4>2, <4>3 DEF Turns, Texts
      <4>4. CASE s \in Texts(prompt)
        <5>1. Len(submitted) + 1 \in Turns(s)'
          BY <4>2, <4>4 DEF Turns, Texts
        <5>. QED BY <5>1
      <4>. QED BY <2>3, <4>3, <4>4 DEF QuietInv
    <3>. QED BY <3>1, <3>2
  <2>. QED BY <2>1, <2>3 DEF QuietInv
<1>3. CASE SwallowEnter \/ Join \/ AnnounceIdle \/ UNCHANGED vars
  <2>1. UNCHANGED <<at, result, pre, quiet, echo, prompt, submitted, frame>>
    BY <1>3 DEF SwallowEnter, Join, AnnounceIdle, vars, sends, samples, terminal
  <2>. QED BY <2>1 DEF QuietInv, Screen, Turns, Texts
<1>. QED BY <1>1, <1>2, <1>3, QuietSendStep DEF Next

\* SEND answers "ok" only if the agent was given its message, where the comparison
\* was with a screen showing the text and nothing but an Enter has changed it since.
THEOREM QuietSafety == Spec => []QuietOkProvesEnter
<1>1. Init => QuietInv
  BY DEF Init, QuietInv
<1>2. QuietInv => QuietOkProvesEnter
  BY DEF QuietInv, QuietOkProvesEnter
<1>. QED BY <1>1, <1>2, QuietStep, TypeCorrect, PTL DEF Spec

-----------------------------------------------------------------------------
(* Whose callback it is. *)

\* A caller resolves to a session of the list, or to nobody.
LEMMA ResolvesToListed ==
    ASSUME NEW caller, NEW snapshots \in Snapshots, NEW r \in ResolveCaller(caller, snapshots)
    PROVE  r \in Names(snapshots) \cup {Nobody}
BY DEF ResolveCaller, Names, Active, MostRecent

\* ShouldRegisterCallback never decides for a callback to the target itself, nor to a
\* session that is not in its list.
THEOREM DecisionSafety == DecisionNotTarget
BY ResolvesToListed DEF DecisionNotTarget, ShouldRegister

\* A caller that is a session in both lists is told itself, unless it is the target.
THEOREM SessionCallerSafety == SessionIsTold
<1>. SUFFICES ASSUME NEW target \in Session, NEW caller \in Caller,
                     NEW first \in Snapshots, NEW second \in Snapshots,
                     caller \in Names(first) \cap Names(second),
                     NEW r \in Registered(target, caller, first, second)
              PROVE  r = caller /\ r # target
  BY DEF SessionIsTold
<1>1. /\ ResolveCaller(caller, first) \subseteq {caller, Nobody}
      /\ ResolveCaller(caller, second) \subseteq {caller, Nobody}
  BY DEF ResolveCaller
<1>. QED BY <1>1 DEF Registered, ShouldRegister

\* With two active sessions and a caller that is neither, registerCallbackHook may
\* register a callback from the target to itself.
THEOREM SelfCallbackPossible ==
    ASSUME NEW a \in Session, NEW b \in Session, a # b,
           NEW c \in Caller, c \notin Session, Nobody \notin Session \cup {c}
    PROVE  SelfCallback
<1>. DEFINE snapshot(n) == [Name |-> n, Status |-> "active", LastPollOK |-> 0]
            list == {snapshot(a), snapshot(b)}
<1>1. list \in Snapshots
  BY DEF Snapshots, SessionSnapshot
<1>2. Active(list) = list /\ Names(list) = {a, b} /\ list # {}
  BY DEF Active, Names
<1>. HIDE DEF list
<1>3. ResolveCaller(c, list) = {a, b}
  BY <1>2 DEF ResolveCaller
<1>4. ShouldRegister(a, c, b, list)
  BY <1>2 DEF ShouldRegister
<1>5. a \in Registered(a, c, list, list)
  BY <1>3, <1>4 DEF Registered
<1>. QED BY <1>1, <1>5 DEF SelfCallback
=============================================================================
