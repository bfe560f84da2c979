----------------------------- MODULE ConductProofs -----------------------------
(***************************************************************************)
(* Proofs about Conduct, for any number of conductors, lines, crashes and  *)
(* resets.                                                                 *)
(*                                                                         *)
(* That a line is dispatched once rests on what a tick may write: the mark *)
(* of a dispatched line, and, when the launch failed, the file as it was   *)
(* read.  Neither makes an unchecked line of one that was dispatched.      *)
(* That the limit holds rests on there being one tick that has counted.    *)
(***************************************************************************)
EXTENDS Conduct, FiniteSetTheorems, WellFoundedInduction, TLAPS

\* Where a conductor has no tick.
Off == {"idle", "ended"}

\* The tick of c is over.
Ends(c) == End(c, "idle") \/ End(c, "ended")

\* Line i may be dispatched once more.
Due(i) == launched[i] <= 0 \/ (launched[i] <= 1 /\ i \in requeued)

\* Ticks that overlapped end the history; until then one conductor ticks.
NoHistory == rivals => launched = Never

OneTick == rivals \/ \A c, d \in Ticking : c = d

\* A tick has a line to dispatch.
HasTodo == \A c \in Ticking : Todos(body[c]) # {}

\* The unchecked lines of the file, and those of a file that a tick may write
\* back, are due.
FileDue == \A i \in Line : file[i] = " " => Due(i)

BodyDue ==
    \A c \in Conductor, i \in Line :
        pc[c] \notin Off /\ body[c][i] = " " =>
            Due(i) \/ (pc[c] # "picked" /\ i = Todo(c))

\* The inductive invariant.
IInv ==
    /\ TypeOK /\ NoHistory /\ OneTick /\ HasTodo
    /\ FileDue /\ BodyDue /\ DispatchedOnce

-----------------------------------------------------------------------------
(* The line a tick picks. *)

LEMMA MinExists ==
    ASSUME NEW S \in SUBSET Nat, S # {}
    PROVE  Min(S) \in S
<1>1. \E x \in S : \A y \in S : ~ (<<y, x>> \in OpToRel(<, Nat))
  BY NatLessThanWellFounded, WFMin, Zenon
<1>2. \E x \in S : \A y \in S : ~ (y < x)
  BY <1>1 DEF OpToRel
<1>3. \E x \in S : \A y \in S : x =< y
  BY <1>2
<1> QED
  BY <1>3 DEF Min

LEMMA LinesNat == Lines \in Nat /\ MaxCrashes \in Nat
BY ConductAssumption, Zenon

LEMMA LineOwns == Line \subseteq Owner /\ 0 \in Owner
BY LinesNat DEF Line, Owner

\* The first unchecked line of a file that has one.
LEMMA FirstTodo ==
    ASSUME NEW f, Todos(f) # {}
    PROVE  Min(Todos(f)) \in Line /\ f[Min(Todos(f))] = " "
<1>1. Todos(f) \in SUBSET Nat
  <2>1. Line \in SUBSET Nat
    BY LinesNat DEF Line
  <2> QED
    BY <2>1, Zenon DEF Todos
<1>2. Min(Todos(f)) \in Todos(f)
  BY <1>1, MinExists
<1> QED
  BY <1>2 DEF Todos

LEMMA TodoIsUnchecked ==
    ASSUME HasTodo, NEW c \in Conductor, pc[c] \notin Off
    PROVE  Todo(c) \in Line /\ body[c][Todo(c)] = " "
<1>1. Todos(body[c]) # {}
  BY DEF HasTodo, Ticking, Off
<1> QED
  BY <1>1, FirstTodo DEF Todo

-----------------------------------------------------------------------------
(* Types. *)

MarkTypes ==
    /\ file \in [Line -> Mark]
    /\ requeued \subseteq Line

WindowTypes ==
    /\ open \in [Owner -> Nat]
    /\ late \in Nat

TickTypes ==
    /\ pc \in [Conductor -> {"idle", "picked", "launching", "failed", "ended"}]
    /\ body \in [Conductor -> [Line -> Mark]]
    /\ crashes \in 0..MaxCrashes

\* A tick dispatches a line that is unchecked in what it read.
PickTypes == \A c \in Ticking : body[c][Todo(c)] = " "

CountTypes == launched \in [Line -> Nat]

FlagTypes == rivals \in BOOLEAN /\ blind \in BOOLEAN

LEMMA TypesSplit ==
    TypeOK <=> /\ MarkTypes /\ WindowTypes /\ TickTypes /\ CountTypes /\ FlagTypes
               /\ PickTypes
BY Zenon DEF TypeOK, PickTypes, MarkTypes, WindowTypes, TickTypes, CountTypes, FlagTypes

LEMMA MarkTypesKept ==
    ASSUME MarkTypes, TickTypes, [Next]_vars
    PROVE  MarkTypes'
<1> USE DEF MarkTypes, TickTypes, Mark
<1>1. CASE UNCHANGED marks
  BY <1>1 DEF marks
<1>2. ASSUME NEW c \in Conductor, Dispatch(c) PROVE MarkTypes'
  <2>1. file' = Marked(body[c], Todo(c)) /\ UNCHANGED requeued
    BY <1>2, Zenon DEF Dispatch
  <2> QED
    BY <2>1 DEF Marked
<1>3. ASSUME NEW c \in Conductor, WriteFailed(c) PROVE MarkTypes'
  <2>1. file' \in {file, [body[c] EXCEPT ![Todo(c)] = "!"]}
    BY <1>3, Zenon DEF WriteFailed
  <2>2. UNCHANGED requeued
    BY <1>3, Zenon DEF WriteFailed
  <2>3. [body[c] EXCEPT ![Todo(c)] = "!"] \in [Line -> Mark]
    OBVIOUS
  <2> QED
    BY <2>1, <2>2, <2>3
<1>4. ASSUME NEW i \in Line, AgentMarks(i) \/ UserMarks(i) PROVE MarkTypes'
  BY <1>4 DEF AgentMarks, UserMarks
<1> QED
  BY <1>1, <1>2, <1>3, <1>4, Zenon
  DEF Next, Tick, Pick, Skip, LaunchSucceeds, LaunchFails, Crash, Start,
      LateWindow, UserOpens, WindowCloses, vars, marks

LEMMA WindowTypesKept ==
    ASSUME WindowTypes, HasTodo, [Next]_vars
    PROVE  WindowTypes'
<1> USE DEF WindowTypes
<1>1. CASE UNCHANGED windows
  BY <1>1 DEF windows
<1>2. ASSUME NEW i \in Owner, open' = [open EXCEPT ![i] = @ + 1], UNCHANGED late
      PROVE  WindowTypes'
  BY <1>2
<1>3. ASSUME NEW c \in Conductor, LaunchSucceeds(c) PROVE WindowTypes'
  <2>1. Todo(c) \in Owner
    BY <1>3, TodoIsUnchecked, LineOwns DEF LaunchSucceeds, Off
  <2>2. open' = [open EXCEPT ![Todo(c)] = @ + 1] /\ UNCHANGED late
    BY <1>3, Zenon DEF LaunchSucceeds
  <2> QED
    BY <1>2, <2>1, <2>2, Zenon
<1>4. ASSUME NEW c \in Conductor, Stops(c) PROVE WindowTypes'
  <2>1. Todo(c) \in Owner
    BY <1>4, TodoIsUnchecked, LineOwns DEF Stops, Off
  <2>2. \/ UNCHANGED windows
        \/ open' = [open EXCEPT ![Todo(c)] = @ + 1] /\ UNCHANGED late
        \/ late' = late + 1 /\ UNCHANGED open
    BY <1>4, Zenon DEF Stops
  <2>3. CASE late' = late + 1 /\ UNCHANGED open
    BY <2>1, <2>3
  <2> QED
    BY <1>1, <1>2, <2>1, <2>2, <2>3, Zenon
<1>5. CASE LateWindow
  <2>1. late > 0 /\ late' = late - 1 /\ open' = [open EXCEPT ![0] = @ + 1]
    BY <1>5, Zenon DEF LateWindow
  <2> QED
    BY <2>1, LineOwns
<1>7. CASE UserOpens
  <2>1. UNCHANGED late /\ open' = [open EXCEPT ![0] = @ + 1]
    BY <1>7, Zenon DEF UserOpens
  <2> QED
    BY <1>2, <2>1, LineOwns
<1>6. ASSUME NEW i \in Owner, WindowCloses(i) PROVE WindowTypes'
  BY <1>6 DEF WindowCloses
<1> QED
  BY <1>1, <1>3, <1>4, <1>5, <1>6, <1>7, Zenon
  DEF Next, Tick, Pick, Skip, Dispatch, WriteFailed, LaunchFails, Crash, Start,
      AgentMarks, UserMarks, vars, windows

LEMMA TickTypesKept ==
    ASSUME MarkTypes, TickTypes, [Next]_vars
    PROVE  TickTypes'
<1> USE DEF MarkTypes, TickTypes, Goto, End, Ends, Unread, Mark
<1>1. CASE UNCHANGED ticks
  BY <1>1 DEF ticks
<1>2. ASSUME NEW c \in Conductor, Pick(c) PROVE TickTypes'
  <2>1. /\ body' = [body EXCEPT ![c] = file] /\ Goto(c, "picked")
        /\ UNCHANGED crashes
    BY <1>2, Zenon DEF Pick
  <2> QED
    BY <2>1
<1>3. ASSUME NEW c \in Conductor, Dispatch(c) PROVE TickTypes'
  <2>1. Goto(c, "launching") /\ UNCHANGED <<body, crashes>>
    BY <1>3, Zenon DEF Dispatch
  <2> QED
    BY <2>1
<1>4. ASSUME NEW c \in Conductor, LaunchFails(c) PROVE TickTypes'
  BY <1>4 DEF LaunchFails
<1>5. ASSUME NEW c \in Conductor,
             Skip(c) \/ LaunchSucceeds(c) \/ WriteFailed(c)
      PROVE  TickTypes'
  <2>1. Ends(c) /\ UNCHANGED crashes
    BY <1>5, Zenon DEF Skip, LaunchSucceeds, WriteFailed, Ends
  <2> QED
    BY <2>1
<1>6. ASSUME NEW c \in Conductor, Crash(c) PROVE TickTypes'
  <2>1. End(c, "ended") /\ crashes < MaxCrashes /\ crashes' = crashes + 1
    BY <1>6, Zenon DEF Crash
  <2>2. crashes' \in 0..MaxCrashes
    <3>1. MaxCrashes \in Nat /\ crashes \in 0..MaxCrashes
      BY LinesNat, Zenon
    <3> HIDE DEF MarkTypes, TickTypes, Mark, End, Goto, Unread
    <3> QED
      BY <2>1, <3>1
  <2> QED
    BY <2>1, <2>2
<1>7. ASSUME NEW c \in Conductor, Start(c) PROVE TickTypes'
  <2>1. Goto(c, "idle") /\ UNCHANGED <<body, crashes>>
    BY <1>7, Zenon DEF Start
  <2> QED
    BY <2>1
<1> QED
  BY <1>1, <1>2, <1>3, <1>4, <1>5, <1>6, <1>7, Zenon
  DEF Next, Tick, LateWindow, UserOpens, Start, WindowCloses, AgentMarks, UserMarks, vars, ticks

\* What a step does to the count of dispatches.
LEMMA CountKept ==
    ASSUME [Next]_vars
    PROVE  \/ UNCHANGED <<launched, rivals>>
           \/ launched' = Never
           \/ \E c \in Conductor :
                /\ Dispatch(c) /\ ~ rivals /\ UNCHANGED rivals
                /\ launched' = [launched EXCEPT ![Todo(c)] = @ + 1]
<1>1. ASSUME NEW c \in Conductor, Pick(c)
      PROVE  UNCHANGED <<launched, rivals>> \/ launched' = Never
  BY <1>1, Zenon DEF Pick
<1>2. ASSUME NEW c \in Conductor, Dispatch(c)
      PROVE  \/ UNCHANGED <<launched, rivals>>
             \/ /\ ~ rivals /\ UNCHANGED rivals
                /\ launched' = [launched EXCEPT ![Todo(c)] = @ + 1]
  BY <1>2, Zenon DEF Dispatch
<1> QED
  BY <1>1, <1>2, Zenon
  DEF Next, Tick, Skip, LaunchSucceeds, LaunchFails, WriteFailed, Crash,
      LateWindow, UserOpens, Start, WindowCloses, AgentMarks, UserMarks, history, vars

LEMMA CountTypesKept ==
    ASSUME CountTypes, [Next]_vars
    PROVE  CountTypes'
<1>1. \/ launched' = launched
      \/ launched' = Never
      \/ \E c \in Conductor : launched' = [launched EXCEPT ![Todo(c)] = @ + 1]
  BY CountKept, Zenon
<1> QED
  BY <1>1 DEF CountTypes, Never

LEMMA FlagTypesKept ==
    ASSUME FlagTypes, [Next]_vars
    PROVE  FlagTypes'
<1>1. ASSUME NEW c \in Conductor, Pick(c) PROVE FlagTypes'
  BY <1>1, Zenon DEF Pick, FlagTypes
<1>2. CASE LateWindow \/ UserOpens
  BY <1>2, Zenon DEF LateWindow, UserOpens, FlagTypes
<1> QED
  BY <1>1, <1>2, Zenon
  DEF Next, Tick, Skip, Dispatch, LaunchSucceeds, LaunchFails, WriteFailed,
      Crash, Start, WindowCloses, AgentMarks, UserMarks, history, vars, FlagTypes

LEMMA TypesKept ==
    ASSUME TypeOK, HasTodo, HasTodo', [Next]_vars
    PROVE  TypeOK'
<1>1. MarkTypes /\ WindowTypes /\ TickTypes /\ CountTypes /\ FlagTypes
  BY TypesSplit, Zenon
<1>3. PickTypes'
  <2> SUFFICES ASSUME NEW c \in Conductor, c \in Ticking'
               PROVE  body'[c][Todo(c)'] = " "
    BY Zenon DEF PickTypes, Ticking
  <2>1. Todos(body'[c]) # {}
    BY DEF HasTodo
  <2> QED
    BY <2>1, FirstTodo DEF Todo
<1>2. MarkTypes' /\ WindowTypes' /\ TickTypes' /\ CountTypes' /\ FlagTypes'
  BY <1>1, MarkTypesKept, WindowTypesKept, TickTypesKept, CountTypesKept,
     FlagTypesKept, Zenon
<1> QED
  BY <1>2, <1>3, Zenon
  DEF TypeOK, MarkTypes, WindowTypes, TickTypes, CountTypes, FlagTypes, PickTypes

-----------------------------------------------------------------------------
(* The history, and whose tick it is. *)

\* What a step does to a tick: it begins, goes on with what it read, or is over.
LEMMA TickKept ==
    ASSUME TickTypes, [Next]_vars, NEW c \in Conductor
    PROVE  \/ pc'[c] = pc[c] /\ body'[c] = body[c]
           \/ Pick(c) /\ pc[c] = "idle" /\ pc'[c] = "picked" /\ body'[c] = file
           \/ /\ pc[c] \notin Off /\ pc'[c] \in {"launching", "failed"}
              /\ body'[c] = body[c]
           \/ pc'[c] \in Off
<1> USE DEF TickTypes, Goto, End, Ends, Off
<1>1. ASSUME NEW d \in Conductor, Pick(d)
      PROVE  \/ pc'[c] = pc[c] /\ body'[c] = body[c]
             \/ Pick(c) /\ pc[c] = "idle" /\ pc'[c] = "picked" /\ body'[c] = file
  <2>1. /\ pc[d] = "idle" /\ body' = [body EXCEPT ![d] = file]
        /\ Goto(d, "picked")
    BY <1>1, Zenon DEF Pick
  <2>2. CASE d = c
    BY <1>1, <2>1, <2>2
  <2>3. CASE d # c
    BY <2>1, <2>3
  <2> QED
    BY <2>2, <2>3
<1>2. ASSUME NEW d \in Conductor, Dispatch(d)
      PROVE  \/ pc'[c] = pc[c] /\ body'[c] = body[c]
             \/ /\ pc[c] \notin Off /\ pc'[c] = "launching"
                /\ body'[c] = body[c]
  <2>1. pc[d] = "picked" /\ UNCHANGED body /\ Goto(d, "launching")
    BY <1>2, Zenon DEF Dispatch
  <2> QED
    BY <2>1
<1>3. ASSUME NEW d \in Conductor, LaunchFails(d)
      PROVE  \/ pc'[c] = pc[c] /\ body'[c] = body[c]
             \/ /\ pc[c] \notin Off /\ pc'[c] = "failed"
                /\ body'[c] = body[c]
  <2>1. pc[d] = "launching" /\ UNCHANGED body /\ Goto(d, "failed")
    BY <1>3, Zenon DEF LaunchFails, Stops
  <2> QED
    BY <2>1
<1>4. ASSUME NEW d \in Conductor, Ends(d)
      PROVE  (pc'[c] = pc[c] /\ body'[c] = body[c]) \/ pc'[c] \in Off
  BY <1>4
<1>5. CASE UNCHANGED ticks
  BY <1>5 DEF ticks
<1> HIDE DEF TickTypes, Goto, End, Ends, Off
<1>6. ASSUME NEW d \in Conductor,
             Skip(d) \/ LaunchSucceeds(d) \/ WriteFailed(d) \/ Crash(d)
      PROVE  Ends(d)
  BY <1>6, Zenon DEF Skip, LaunchSucceeds, WriteFailed, Crash, Ends
<1>7. ASSUME NEW i \in Line,
             AgentMarks(i) \/ UserMarks(i)
      PROVE  UNCHANGED ticks
  BY <1>7, Zenon DEF AgentMarks, UserMarks
<1>8. CASE UNCHANGED vars
  BY <1>5, <1>8 DEF vars
<1>10. ASSUME LateWindow \/ UserOpens \/ \E i \in Owner : WindowCloses(i)
       PROVE  UNCHANGED ticks
  BY <1>10, Zenon DEF LateWindow, UserOpens, WindowCloses
<1>11. ASSUME NEW d \in Conductor, Start(d)
       PROVE  (pc'[c] = pc[c] /\ body'[c] = body[c]) \/ pc'[c] \in Off
  BY <1>11 DEF Start, Goto, TickTypes, Off
<1>9. CASE Next
  <2>1. ASSUME NEW d \in Conductor, Tick(d) \/ Crash(d)
        PROVE  \/ Pick(d) \/ Dispatch(d) \/ LaunchFails(d) \/ Ends(d)
    BY <2>1, <1>6, Zenon DEF Tick
  <2> QED
    BY <1>1, <1>2, <1>3, <1>4, <1>5, <1>7, <1>9, <1>10, <1>11, <2>1 DEF Next
<1> QED
  BY <1>8, <1>9

LEMMA HasTodoKept ==
    ASSUME TickTypes, HasTodo, [Next]_vars
    PROVE  HasTodo'
<1> SUFFICES ASSUME NEW c \in Conductor, pc'[c] \notin Off
             PROVE  Todos(body'[c]) # {}
  BY DEF HasTodo, Ticking, Off
<1>1. Pick(c) => Todos(file) # {}
  BY Zenon DEF Pick
<1> QED
  BY <1>1, TickKept DEF HasTodo, Ticking, Off

\* Overlapping ticks are never forgotten, and begin with a pick.
LEMMA RivalsKept ==
    ASSUME [Next]_vars
    PROVE  /\ rivals => rivals'
           /\ \A c \in Conductor :
                Pick(c) /\ ~ rivals' => Ticking = {} /\ UNCHANGED launched
<1>1. ASSUME NEW c \in Conductor, Pick(c)
      PROVE  /\ rivals => rivals'
             /\ ~ rivals' => Ticking = {} /\ UNCHANGED launched
  BY <1>1, Zenon DEF Pick
<1>2. UNCHANGED rivals \/ \E c \in Conductor : Pick(c)
  BY Zenon
  DEF Next, Tick, Skip, Dispatch, LaunchSucceeds, LaunchFails, WriteFailed,
      Crash, LateWindow, UserOpens, Start, WindowCloses, AgentMarks, UserMarks, history, vars
<1>3. rivals => rivals'
  BY <1>1, <1>2, Zenon
<1> QED
  BY <1>1, <1>3, Zenon

LEMMA OneTickKept ==
    ASSUME TickTypes, OneTick, [Next]_vars
    PROVE  OneTick'
<1> SUFFICES ASSUME ~ rivals', NEW c \in Conductor, NEW d \in Conductor,
                    pc'[c] \notin Off, pc'[d] \notin Off
             PROVE  c = d
  BY DEF OneTick, Ticking, Off
<1>1. ~ rivals
  BY RivalsKept, Zenon
<1>2. \A a, b \in Conductor : pc[a] \notin Off /\ pc[b] \notin Off => a = b
  BY <1>1 DEF OneTick, Ticking, Off
<1>3. ASSUME NEW e \in Conductor, Pick(e) PROVE \A a \in Conductor : pc[a] \in Off
  BY <1>3, RivalsKept DEF Ticking, Off
<1>4. ASSUME NEW e \in Conductor, pc'[e] \notin Off, pc[e] \in Off PROVE Pick(e)
  BY <1>4, TickKept DEF Off
<1>5. ASSUME NEW e \in Conductor, Pick(e), NEW a \in Conductor, a # e
      PROVE  pc'[a] = pc[a]
  <2>1. Goto(e, "picked")
    BY <1>5, Zenon DEF Pick
  <2> QED
    BY <1>5, <2>1 DEF Goto, TickTypes
<1> QED
  BY <1>2, <1>3, <1>4, <1>5

LEMMA NoHistoryKept ==
    ASSUME NoHistory, [Next]_vars
    PROVE  NoHistory'
<1> SUFFICES ASSUME rivals' PROVE launched' = Never'
  BY Zenon DEF NoHistory
<1>1. ASSUME NEW c \in Conductor, Pick(c) PROVE launched' = Never
  BY <1>1, Zenon DEF Pick, NoHistory
<1>2. ASSUME NEW c \in Conductor, Dispatch(c) PROVE launched' = Never
  BY <1>2, Zenon DEF Dispatch, NoHistory
<1> QED
  BY <1>1, <1>2, Zenon
  DEF Next, Tick, Skip, LaunchSucceeds, LaunchFails, WriteFailed,
      Crash, LateWindow, UserOpens, Start, WindowCloses, AgentMarks, UserMarks, history, vars,
      NoHistory, Never

-----------------------------------------------------------------------------
(* How many workers there are. *)

\* A window of line i more, or less.
Opened(i) == open' = [open EXCEPT ![i] = @ + 1]

Closed(i) == open[i] > 0 /\ open' = [open EXCEPT ![i] = @ - 1]

\* A session is a line and the number of its window.
LEMMA SessionsAre ==
    \A w : w \in Sessions <=> \E i \in Owner : \E k \in 1..open[i] : w = <<i, k>>
BY DEF Sessions

\* A window that comes up is one session more.
LEMMA OneMore ==
    ASSUME WindowTypes, IsFiniteSet(Sessions), NEW i \in Owner, Opened(i)
    PROVE  IsFiniteSet(Sessions') /\ Workers' = Workers + 1
<1> DEFINE w == <<i, open[i] + 1>>
<1>1. /\ \A j \in Owner : open[j] \in Nat
      /\ open'[i] = open[i] + 1
      /\ \A j \in Owner : j # i => open'[j] = open[j]
  BY DEF WindowTypes, Opened
<1>2. w \notin Sessions
  <2> SUFFICES ASSUME NEW j \in Owner, NEW k \in 1..open[j], w = <<j, k>>
               PROVE  FALSE
    BY SessionsAre, Zenon
  <2>1. j = i /\ k = open[i] + 1
    OBVIOUS
  <2> QED
    BY <1>1, <2>1
<1>3. ASSUME NEW v
      PROVE  v \in Sessions' <=> v \in Sessions \cup {w}
  <2>1. v \in Sessions' <=> \E j \in Owner : \E k \in 1..open'[j] : v = <<j, k>>
    BY DEF Sessions
  <2>2. ASSUME NEW j \in Owner, NEW k \in 1..open'[j], v = <<j, k>>, v # w
        PROVE  k \in 1..open[j]
    BY <1>1, <2>2
  <2>3. ASSUME NEW j \in Owner, NEW k \in 1..open[j] PROVE k \in 1..open'[j]
    BY <1>1
  <2>4. open[i] + 1 \in 1..open'[i]
    BY <1>1
  <2> QED
    BY <2>1, <2>2, <2>3, <2>4, SessionsAre, Zenon
<1>4. Sessions' = Sessions \cup {w}
  BY <1>3, Zenon
<1> QED
  BY <1>2, <1>4, FS_AddElement, Zenon DEF Workers

\* A window that closes is one session less.
LEMMA OneLess ==
    ASSUME WindowTypes, IsFiniteSet(Sessions), NEW i \in Owner, Closed(i)
    PROVE  IsFiniteSet(Sessions') /\ Workers' = Workers - 1
<1> DEFINE w == <<i, open[i]>>
<1>1. /\ \A j \in Owner : open[j] \in Nat
      /\ open[i] > 0 /\ open'[i] = open[i] - 1
      /\ \A j \in Owner : j # i => open'[j] = open[j]
  BY DEF WindowTypes, Closed
<1>2. w \in Sessions
  <2>1. open[i] \in 1..open[i]
    BY <1>1
  <2> QED
    BY <2>1, SessionsAre, Zenon
<1>3. ASSUME NEW v
      PROVE  v \in Sessions' <=> v \in Sessions \ {w}
  <2>1. v \in Sessions' <=> \E j \in Owner : \E k \in 1..open'[j] : v = <<j, k>>
    BY DEF Sessions
  <2>2. ASSUME NEW j \in Owner, NEW k \in 1..open'[j]
        PROVE  k \in 1..open[j] /\ <<j, k>> # w
    BY <1>1
  <2>3. ASSUME NEW j \in Owner, NEW k \in 1..open[j], <<j, k>> # w
        PROVE  k \in 1..open'[j]
    BY <1>1, <2>3
  <2>4. v \in Sessions <=> \E j \in Owner : \E k \in 1..open[j] : v = <<j, k>>
    BY DEF Sessions
  <2>5. v \in Sessions' => v \in Sessions /\ v # w
    BY <2>1, <2>2, <2>4, Zenon
  <2>6. v \in Sessions /\ v # w => v \in Sessions'
    BY <2>1, <2>3, <2>4, Zenon
  <2> HIDE DEF w
  <2> QED
    BY <2>5, <2>6
<1>4. Sessions' = Sessions \ {w}
  BY <1>3, Zenon
<1> QED
  BY <1>2, <1>4, FS_RemoveElement, Zenon DEF Workers

\* The tick of c has counted the sessions, and its launch is not over.
Counted(c) == pc[c] \in {"picked", "launching"}

\* Until ticks overlap or the count fails, there are no more sessions than the
\* limit, and one fewer while a tick that has counted them may add its own.
Room ==
    \/ rivals \/ blind
    \/ /\ Workers <= MaxWorkers
       /\ \A c \in Conductor : Counted(c) => Workers < MaxWorkers

\* The windows stay, and no tick counts anew.
LEMMA RoomLeft ==
    ASSUME Room, UNCHANGED <<open, rivals, blind>>,
           \A c \in Conductor : Counted(c)' => Counted(c)
    PROVE  Room'
<1>1. Workers' = Workers
  BY Zenon DEF Workers, Sessions
<1>2. rivals' = rivals /\ blind' = blind
  OBVIOUS
<1>3. CASE rivals \/ blind
  <2>1. rivals' \/ blind'
    BY <1>2, <1>3
  <2> QED
    BY <2>1, Zenon DEF Room
<1>4. CASE ~ (rivals \/ blind)
  BY <1>1, <1>4 DEF Room
<1> QED
  BY <1>3, <1>4, Zenon

\* The window of the only tick that goes on comes up, or not, and its tick is
\* past the launch.
LEMMA RoomTaken ==
    ASSUME WindowTypes, TickTypes, OneTick, HasTodo, IsFiniteSet(Sessions),
           Room, UNCHANGED <<rivals, blind>>,
           NEW c \in Conductor, Stops(c) \/ Opened(Todo(c)),
           pc[c] = "launching", Goto(c, "idle") \/ Goto(c, "ended") \/ Goto(c, "failed")
    PROVE  Room' /\ IsFiniteSet(Sessions')
<1>1. Todo(c) \in Owner
  BY TodoIsUnchecked, LineOwns DEF Off
<1>2. UNCHANGED open \/ Opened(Todo(c))
  BY Zenon DEF Stops, Opened, windows
<1>3. CASE UNCHANGED open
  <2>1. \A d \in Conductor : Counted(d)' => Counted(d)
    BY DEF Counted, Goto, TickTypes
  <2>2. Room'
    BY <1>3, <2>1, RoomLeft, Zenon
  <2> QED
    BY <1>3, <2>2, Zenon DEF Sessions
<1>4. CASE Opened(Todo(c))
  <2>1. IsFiniteSet(Sessions') /\ Workers' = Workers + 1
    BY <1>1, <1>4, OneMore
  <2>2. CASE rivals \/ blind
    BY <2>1, <2>2, Zenon DEF Room
  <2>3. CASE ~ (rivals \/ blind)
    <3>1. Workers < MaxWorkers
      BY <2>3, Zenon DEF Room, Counted
    <3>2. \A d \in Conductor : pc[d] \notin Off => d = c
      BY <2>3 DEF OneTick, Ticking, Off
    <3>3. \A d \in Conductor : ~ Counted(d)'
      BY <3>2 DEF Counted, Goto, TickTypes, Off
    <3>4. Workers \in Nat
      BY FS_CardinalityType, Zenon DEF Workers
    <3>5. Workers' <= MaxWorkers
      BY <2>1, <3>1, <3>4, ConductAssumption
    <3> QED
      BY <2>1, <3>3, <3>5, Zenon DEF Room
  <2> QED
    BY <2>2, <2>3, Zenon
<1> QED
  BY <1>2, <1>3, <1>4, Zenon

\* Every step keeps the limit, and the sessions finitely many.
LEMMA RoomKept ==
    ASSUME WindowTypes, TickTypes, OneTick, HasTodo, IsFiniteSet(Sessions),
           Room, [Next]_vars
    PROVE  Room' /\ IsFiniteSet(Sessions')
<1>1. UNCHANGED open => Workers' = Workers /\ IsFiniteSet(Sessions')
  BY Zenon DEF Workers, Sessions
<1>2. ASSUME NEW c \in Conductor, Pick(c) PROVE Room' /\ IsFiniteSet(Sessions')
  <2>1. UNCHANGED open /\ Goto(c, "picked")
    BY <1>2, Zenon DEF Pick, windows
  <2>2. CASE rivals' \/ blind'
    BY <1>1, <2>1, <2>2, Zenon DEF Room
  <2>3. CASE ~ (rivals' \/ blind')
    <3>1. BelowLimit
      BY <1>2, <2>3, Zenon DEF Pick
    <3>2. Workers \in Nat
      BY FS_CardinalityType, Zenon DEF Workers
    <3>3. Workers' < MaxWorkers /\ Workers' <= MaxWorkers
      BY <1>1, <2>1, <3>1, <3>2, ConductAssumption DEF BelowLimit
    <3> QED
      BY <1>1, <2>1, <3>3, Zenon DEF Room
  <2> QED
    BY <2>2, <2>3, Zenon
<1>3. ASSUME UNCHANGED <<open, rivals, blind>>,
             \A c \in Conductor : Counted(c)' => Counted(c)
      PROVE  Room' /\ IsFiniteSet(Sessions')
  BY <1>1, <1>3, RoomLeft, Zenon
<1>4. ASSUME NEW c \in Conductor, Skip(c) \/ Dispatch(c) \/ WriteFailed(c)
      PROVE  Room' /\ IsFiniteSet(Sessions')
  <2>1. UNCHANGED <<open, rivals, blind>>
    BY <1>4, Zenon DEF Skip, Dispatch, WriteFailed, windows, history
  <2>2. Goto(c, "idle") \/ Goto(c, "ended") \/ (pc[c] = "picked" /\ Goto(c, "launching"))
    BY <1>4, Zenon DEF Skip, Dispatch, WriteFailed, End
  <2>3. \A d \in Conductor : Counted(d)' => Counted(d)
    BY <2>2 DEF Counted, Goto, TickTypes
  <2> QED
    BY <1>3, <2>1, <2>3
<1>5. ASSUME NEW c \in Conductor, LaunchSucceeds(c) \/ LaunchFails(c)
      PROVE  Room' /\ IsFiniteSet(Sessions')
  <2>1. /\ Stops(c) \/ Opened(Todo(c))
        /\ Goto(c, "idle") \/ Goto(c, "ended") \/ Goto(c, "failed")
        /\ UNCHANGED <<rivals, blind>>
    BY <1>5, Zenon DEF LaunchSucceeds, LaunchFails, Stops, Opened, End, history
  <2>2. pc[c] = "launching"
    BY <1>5, Zenon DEF LaunchSucceeds, LaunchFails, Stops
  <2> QED
    BY <2>1, <2>2, RoomTaken, Zenon
<1>6. ASSUME NEW c \in Conductor, Crash(c) PROVE Room' /\ IsFiniteSet(Sessions')
  <2>1. Goto(c, "ended") /\ UNCHANGED <<rivals, blind>>
    BY <1>6, Zenon DEF Crash, End, history
  <2>2. CASE Stops(c)
    <3>1. pc[c] = "launching"
      BY <2>2, Zenon DEF Stops
    <3> QED
      BY <2>1, <2>2, <3>1, RoomTaken, Zenon
  <2>3. CASE UNCHANGED windows
    <3>1. UNCHANGED <<open, rivals, blind>>
      BY <2>1, <2>3, Zenon DEF windows
    <3>2. \A d \in Conductor : Counted(d)' => Counted(d)
      BY <2>1 DEF Counted, Goto, TickTypes
    <3> QED
      BY <1>3, <3>1, <3>2
  <2> QED
    BY <1>6, <2>2, <2>3, Zenon DEF Crash
<1>7. ASSUME LateWindow \/ UserOpens PROVE Room' /\ IsFiniteSet(Sessions')
  <2>1. Opened(0) /\ rivals' = rivals /\ blind' = ~rivals
    BY <1>7, Zenon DEF LateWindow, UserOpens, Opened
  <2>3. rivals' \/ blind'
    <3>1. CASE rivals
      BY <2>1, <3>1, Zenon
    <3>2. CASE ~rivals
      BY <2>1, <3>2, Zenon
    <3> QED
      BY <3>1, <3>2
  <2>2. IsFiniteSet(Sessions')
    BY <2>1, OneMore, LineOwns
  <2> QED
    BY <2>2, <2>3, Zenon DEF Room
<1>8. ASSUME NEW i \in Owner, WindowCloses(i) PROVE Room' /\ IsFiniteSet(Sessions')
  <2>1. Closed(i) /\ UNCHANGED <<pc, rivals, blind>>
    BY <1>8, Zenon DEF WindowCloses, Closed, ticks, history
  <2>2. IsFiniteSet(Sessions') /\ Workers' = Workers - 1
    BY <2>1, OneLess
  <2>3. CASE rivals \/ blind
    BY <2>1, <2>2, <2>3, Zenon DEF Room
  <2>4. CASE ~ (rivals \/ blind)
    <3>1. Workers \in Nat
      BY FS_CardinalityType, Zenon DEF Workers
    <3>2. /\ Workers <= MaxWorkers
          /\ \A c \in Conductor : Counted(c) => Workers < MaxWorkers
      BY <2>4, Zenon DEF Room
    <3>3. /\ Workers' <= MaxWorkers
          /\ \A c \in Conductor : Counted(c) => Workers' < MaxWorkers
      BY <2>2, <3>1, <3>2, ConductAssumption
    <3>4. \A c \in Conductor : Counted(c)' <=> Counted(c)
      BY <2>1, Zenon DEF Counted
    <3> QED
      BY <2>2, <3>3, <3>4, Zenon DEF Room
  <2> QED
    BY <2>3, <2>4, Zenon
<1>9. ASSUME UNCHANGED windows, UNCHANGED pc, UNCHANGED history
      PROVE  Room' /\ IsFiniteSet(Sessions')
  <2>1. UNCHANGED <<open, rivals, blind>>
    BY <1>9, Zenon DEF windows, history
  <2>2. \A c \in Conductor : Counted(c)' => Counted(c)
    BY <1>9, Zenon DEF Counted
  <2> QED
    BY <1>3, <2>1, <2>2
<1>10. ASSUME NEW i \in Line, AgentMarks(i) \/ UserMarks(i)
       PROVE  Room' /\ IsFiniteSet(Sessions')
  BY <1>9, <1>10, Zenon DEF AgentMarks, UserMarks, ticks
<1>12. ASSUME NEW c \in Conductor, Start(c) PROVE Room' /\ IsFiniteSet(Sessions')
  <2>1. UNCHANGED <<open, rivals, blind>>
    BY <1>12, Zenon DEF Start, windows, history
  <2>2. Goto(c, "idle")
    BY <1>12, Zenon DEF Start
  <2>3. \A d \in Conductor : Counted(d)' => Counted(d)
    BY <2>2 DEF Counted, Goto, TickTypes
  <2> QED
    BY <1>3, <2>1, <2>3
<1>11. CASE UNCHANGED vars
  BY <1>9, <1>11, Zenon DEF vars, ticks
<1> QED
  BY <1>2, <1>4, <1>5, <1>6, <1>7, <1>8, <1>10, <1>11, <1>12, Zenon DEF Next, Tick

-----------------------------------------------------------------------------
(* What may be dispatched. *)

AllDue == FileDue /\ BodyDue /\ DispatchedOnce

\* A history that is over counts nothing.
LEMMA NoHistoryDue ==
    ASSUME NoHistory', rivals'
    PROVE  AllDue'
<1>1. \A i \in Line : launched'[i] = 0
  BY Zenon DEF NoHistory, Never
<1>2. \A i \in Line : Due(i)'
  BY <1>1 DEF Due
<1>3. DispatchedOnce'
  BY <1>1 DEF DispatchedOnce
<1> QED
  BY <1>2, <1>3, Zenon DEF AllDue, FileDue, BodyDue

\* The conductor that goes on with its tick reads nothing anew.
LEMMA TodoKept ==
    ASSUME NEW c \in Conductor, body'[c] = body[c]
    PROVE  Todo(c)' = Todo(c)
BY DEF Todo

\* A step that leaves the file and the counts alone, or unchecks no line.
LEMMA QuietDue ==
    ASSUME TickTypes, AllDue, [Next]_vars,
           UNCHANGED <<launched, requeued>>,
           \A i \in Line : file'[i] = " " => Due(i)
    PROVE  AllDue'
<1>1. \A i \in Line : Due(i)' <=> Due(i)
  BY DEF Due
<1>2. FileDue'
  BY <1>1 DEF FileDue
<1>3. DispatchedOnce'
  BY DEF AllDue, DispatchedOnce
<1>4. BodyDue'
  <2> SUFFICES ASSUME NEW c \in Conductor, NEW i \in Line,
                      pc'[c] \notin Off, body'[c][i] = " ", ~ Due(i)
               PROVE  pc'[c] # "picked" /\ i = Todo(c)'
    BY <1>1, Zenon DEF BodyDue
  <2>1. CASE pc'[c] = pc[c] /\ body'[c] = body[c]
    BY <2>1, TodoKept DEF AllDue, BodyDue
  <2>2. CASE Pick(c) /\ body'[c] = file
    BY <2>2 DEF AllDue, FileDue, Off
  <2>3. CASE /\ pc[c] \notin Off /\ pc'[c] \in {"launching", "failed"}
             /\ body'[c] = body[c]
    BY <2>3, TodoKept DEF AllDue, BodyDue
  <2> QED
    BY <2>1, <2>2, <2>3, TickKept
<1> QED
  BY <1>2, <1>3, <1>4 DEF AllDue

LEMMA DispatchDue ==
    ASSUME MarkTypes, TickTypes, CountTypes, HasTodo, AllDue, OneTick, ~ rivals,
           [Next]_vars,
           NEW c \in Conductor, Dispatch(c)
    PROVE  AllDue'
<1> DEFINE t == Todo(c)
<1>1. /\ pc[c] = "picked"
      /\ file' = [body[c] EXCEPT ![t] = ">"]
      /\ launched' = [launched EXCEPT ![t] = @ + 1]
      /\ pc' = [pc EXCEPT ![c] = "launching"]
      /\ UNCHANGED <<requeued, body>>
  BY Zenon DEF Dispatch, Marked, Goto
<1>2. t \in Line /\ body[c][t] = " "
  BY <1>1, TodoIsUnchecked DEF Off
<1>3. ASSUME NEW i \in Line, i # t PROVE launched'[i] = launched[i]
  BY <1>1, <1>3 DEF CountTypes
<1>4. launched'[t] = launched[t] + 1
  BY <1>1, <1>2 DEF CountTypes
<1>5. Due(t)
  BY <1>1, <1>2 DEF AllDue, BodyDue, Off
<1>6. ASSUME NEW i \in Line, i # t, Due(i) PROVE Due(i)'
  BY <1>1, <1>3, <1>6 DEF Due
<1>7. ASSUME NEW i \in Line, i # t, body[c][i] = " " PROVE Due(i)'
  BY <1>1, <1>6, <1>7 DEF AllDue, BodyDue, Off
<1>8. FileDue'
  BY <1>1, <1>2, <1>7 DEF FileDue, TickTypes
<1>9. BodyDue'
  <2> SUFFICES ASSUME NEW d \in Conductor, NEW i \in Line,
                      pc'[d] \notin Off, body'[d][i] = " "
               PROVE  Due(i)' \/ (pc'[d] # "picked" /\ i = Todo(d)')
    BY Zenon DEF BodyDue
  <2>1. d = c
    BY <1>1 DEF OneTick, Ticking, Off, TickTypes
  <2>2. pc'[c] = "launching" /\ body'[c] = body[c]
    BY <1>1 DEF TickTypes
  <2>3. i = t => i = Todo(d)'
    BY <2>1, <2>2, TodoKept
  <2> QED
    BY <1>7, <2>1, <2>2, <2>3
<1>10. DispatchedOnce'
  <2> SUFFICES ASSUME NEW i \in Line
               PROVE  launched'[i] <= IF i \in requeued' THEN 2 ELSE 1
    BY DEF DispatchedOnce
  <2>1. CASE i = t
    <3>1. launched[t] \in Nat
      BY <1>2 DEF CountTypes
    <3> QED
      BY <1>1, <1>4, <1>5, <2>1, <3>1 DEF Due
  <2>2. CASE i # t
    BY <1>1, <1>3, <2>2 DEF AllDue, DispatchedOnce
  <2> QED
    BY <2>1, <2>2
<1> QED
  BY <1>8, <1>9, <1>10 DEF AllDue

LEMMA OnceMeans ==
    ASSUME NEW i \in Line, NEW R, NEW n \in Nat
    PROVE  n <= (IF i \in R THEN 2 ELSE 1)
             <=> n <= 1 \/ (n <= 2 /\ i \in R)
<1>1. CASE i \in R
  BY <1>1
<1>2. CASE i \notin R
  BY <1>2
<1> QED
  BY <1>1, <1>2

\* A user's reset makes the line due again, and the others stay so.
LEMMA ResetDue ==
    ASSUME MarkTypes, TickTypes, CountTypes, AllDue,
           NEW j \in Line, j \notin requeued,
           file' = [file EXCEPT ![j] = " "],
           j \in requeued', \A i \in Line : i \in requeued => i \in requeued',
           UNCHANGED launched, UNCHANGED ticks
    PROVE  AllDue'
<1>1. \A i \in Line : launched[i] \in Nat
  BY DEF CountTypes
<1>2. ASSUME NEW i \in Line, Due(i) PROVE Due(i)'
  BY <1>1, <1>2 DEF Due
<1>3. Due(j)'
  <2>1. launched[j] <= 1
    BY DEF AllDue, DispatchedOnce
  <2> QED
    BY <2>1 DEF Due
<1>4. FileDue'
  BY <1>2, <1>3 DEF AllDue, FileDue, MarkTypes
<1>5. BodyDue'
  BY <1>2, TodoKept DEF AllDue, BodyDue, ticks
<1>6. DispatchedOnce'
  <2> SUFFICES ASSUME NEW i \in Line
               PROVE  launched[i] <= IF i \in requeued' THEN 2 ELSE 1
    BY DEF DispatchedOnce
  <2>1. launched[i] <= IF i \in requeued THEN 2 ELSE 1
    BY DEF AllDue, DispatchedOnce
  <2>2. launched[i] <= 1 \/ (launched[i] <= 2 /\ i \in requeued)
    BY <1>1, <2>1, OnceMeans
  <2>3. launched[i] <= 1 \/ (launched[i] <= 2 /\ i \in requeued')
    BY <2>2
  <2> QED
    BY <1>1, <2>3, OnceMeans
<1> QED
  BY <1>4, <1>5, <1>6 DEF AllDue

\* What MarkFailed writes back unchecks no line that was dispatched meanwhile.
LEMMA WriteFailedDue ==
    ASSUME MarkTypes, TickTypes, HasTodo, AllDue,
           NEW c \in Conductor, WriteFailed(c),
           NEW i \in Line, file'[i] = " "
    PROVE  Due(i)
<1>1. pc[c] = "failed" /\ file' \in {file, [body[c] EXCEPT ![Todo(c)] = "!"]}
  BY Zenon DEF WriteFailed
<1>2. CASE file' = file
  BY <1>2 DEF AllDue, FileDue
<1>3. CASE file' = [body[c] EXCEPT ![Todo(c)] = "!"]
  <2>1. i # Todo(c) /\ body[c][i] = " "
    BY <1>3 DEF TickTypes
  <2> QED
    BY <1>1, <2>1 DEF AllDue, BodyDue, Off
<1> QED
  BY <1>1, <1>2, <1>3

LEMMA DueKept ==
    ASSUME MarkTypes, TickTypes, CountTypes, HasTodo, OneTick, NoHistory', AllDue,
           [Next]_vars
    PROVE  AllDue'
<1>1. CASE rivals'
  BY <1>1, NoHistoryDue
<1>2. CASE ~ rivals'
  <2>1. ~ rivals
    BY <1>2, RivalsKept, Zenon
  <2>2. ASSUME NEW c \in Conductor, Dispatch(c) PROVE AllDue'
    BY <2>1, <2>2, DispatchDue
  <2>3. ASSUME UNCHANGED <<file, launched, requeued>> PROVE AllDue'
    BY <2>3, QuietDue DEF AllDue, FileDue
  <2>4. ASSUME NEW c \in Conductor, Pick(c) PROVE AllDue'
    <3>1. UNCHANGED launched
      BY <1>2, <2>4, RivalsKept, Zenon
    <3>2. UNCHANGED <<file, requeued>>
      BY <2>4, Zenon DEF Pick, marks
    <3> QED
      BY <2>3, <3>1, <3>2
  <2>5. ASSUME NEW c \in Conductor, WriteFailed(c) PROVE AllDue'
    <3>1. UNCHANGED <<launched, requeued>>
      BY <2>5, Zenon DEF WriteFailed, history
    <3> QED
      BY <2>5, <3>1, WriteFailedDue, QuietDue
  <2>6. ASSUME NEW i \in Line, AgentMarks(i) PROVE AllDue'
    <3>1. UNCHANGED <<launched, requeued>>
      BY <2>6, Zenon DEF AgentMarks, history
    <3>2. \A k \in Line : file'[k] = " " => file[k] = " "
      BY <2>6 DEF AgentMarks, MarkTypes
    <3> QED
      BY <3>1, <3>2, QuietDue DEF AllDue, FileDue
  <2>7. ASSUME NEW i \in Line, UserMarks(i) PROVE AllDue'
    <3>1. UNCHANGED launched /\ UNCHANGED ticks
      BY <2>7, Zenon DEF UserMarks, history
    <3>2. CASE file' = [file EXCEPT ![i] = "x"] /\ UNCHANGED requeued
      <4>1. \A k \in Line : file'[k] = " " => file[k] = " "
        BY <3>2 DEF MarkTypes
      <4> QED
        BY <3>1, <3>2, <4>1, QuietDue DEF AllDue, FileDue
    <3>3. CASE /\ i \notin requeued /\ file' = [file EXCEPT ![i] = " "]
               /\ requeued' = requeued \cup {i}
      BY <3>1, <3>3, ResetDue
    <3> QED
      BY <2>7, <3>2, <3>3, Zenon DEF UserMarks
  <2>8. ASSUME NEW c \in Conductor,
               Skip(c) \/ LaunchSucceeds(c) \/ LaunchFails(c) \/ Crash(c)
        PROVE  AllDue'
    <3>1. UNCHANGED <<file, launched, requeued>>
      BY <2>8, Zenon
      DEF Skip, LaunchSucceeds, LaunchFails, Crash, marks, history
    <3> QED
      BY <2>3, <3>1
  <2>9. ASSUME LateWindow \/ UserOpens \/ (\E i \in Owner : WindowCloses(i))
               \/ (\E c \in Conductor : Start(c))
        PROVE  AllDue'
    <3>1. UNCHANGED <<file, launched, requeued>>
      BY <2>9, Zenon DEF LateWindow, UserOpens, Start, WindowCloses, marks, history
    <3> QED
      BY <2>3, <3>1
  <2>10. CASE UNCHANGED vars
    <3>1. UNCHANGED <<file, launched, requeued>>
      BY <2>10, Zenon DEF vars, marks, history
    <3> QED
      BY <2>3, <3>1
  <2> QED
    BY <2>2, <2>4, <2>5, <2>6, <2>7, <2>8, <2>9, <2>10, Zenon DEF Next, Tick
<1> QED
  BY <1>1, <1>2, Zenon

-----------------------------------------------------------------------------

LEMMA InitIInv ==
    ASSUME Init
    PROVE  IInv
<1>1. MarkTypes /\ WindowTypes /\ TickTypes
  <2>1. /\ file = Unread /\ open = Nowhere /\ late = 0 /\ requeued = {}
        /\ pc = [c \in Conductor |-> "idle"]
        /\ body = [c \in Conductor |-> Unread]
        /\ crashes = 0
    BY Zenon DEF Init
  <2>2. 0 \in 0..MaxCrashes
    BY LinesNat
  <2>3. Unread \in [Line -> Mark]
    BY DEF Unread, Mark
  <2>4. MarkTypes
    BY <2>1, <2>3 DEF MarkTypes
  <2>5. WindowTypes
    BY <2>1 DEF WindowTypes, Nowhere
  <2>6. TickTypes
    BY <2>1, <2>2, <2>3 DEF TickTypes
  <2> QED
    BY <2>4, <2>5, <2>6
<1>2. launched = Never /\ rivals = FALSE /\ blind = FALSE
  BY Zenon DEF Init
<1>3. CountTypes
  BY <1>2 DEF CountTypes, Never
<1>4. FlagTypes
  BY <1>2, Zenon DEF FlagTypes
<1>6. Ticking = {}
  BY DEF Init, Ticking
<1>5. TypeOK
  BY <1>1, <1>3, <1>4, <1>6, TypesSplit, Zenon DEF PickTypes
<1>7. NoHistory /\ OneTick /\ HasTodo
  BY <1>2, <1>6, Zenon DEF NoHistory, OneTick, HasTodo
<1>8. \A i \in Line : launched[i] = 0
  BY <1>2 DEF Never
<1>9. FileDue /\ BodyDue /\ DispatchedOnce
  <2>1. \A i \in Line : Due(i)
    BY <1>8 DEF Due
  <2>2. FileDue /\ BodyDue
    BY <2>1, Zenon DEF FileDue, BodyDue
  <2>3. DispatchedOnce
    BY <1>8 DEF DispatchedOnce
  <2> QED
    BY <2>2, <2>3
<1> QED
  BY <1>5, <1>7, <1>9, Zenon DEF IInv

LEMMA IInvKept ==
    ASSUME IInv, [Next]_vars
    PROVE  IInv'
<1>1. /\ TypeOK /\ NoHistory /\ OneTick /\ HasTodo /\ AllDue
      /\ MarkTypes /\ TickTypes /\ CountTypes
  BY TypesSplit, Zenon DEF IInv, AllDue
<1>4. HasTodo'
  BY <1>1, HasTodoKept, Zenon
<1>2. TypeOK' /\ NoHistory' /\ OneTick' /\ HasTodo'
  BY <1>1, <1>4, TypesKept, NoHistoryKept, OneTickKept, Zenon
<1>3. AllDue'
  BY <1>1, <1>2, DueKept, Zenon
<1> QED
  BY <1>2, <1>3, Zenon DEF IInv, AllDue

LEMMA Invariance == Spec => []IInv
BY InitIInv, IInvKept, PTL DEF Spec

\* The checklist, its conductors and its windows are well typed, for any number
\* of them.
THEOREM TypeCorrect == Spec => []TypeOK
<1>1. IInv => TypeOK
  BY Zenon DEF IInv
<1> QED
  BY <1>1, Invariance, PTL

\* conductTick dispatches a line once, and once more after a reset, as long as
\* no ticks overlap, whatever crashes, failed launches, agents and users do.
THEOREM DispatchSafety == Spec => []DispatchedOnce
<1>1. IInv => DispatchedOnce
  BY Zenon DEF IInv
<1> QED
  BY <1>1, Invariance, PTL

\* The inductive invariant of the limit.
LimitInv == IInv /\ Room /\ IsFiniteSet(Sessions)

LEMMA InitLimit ==
    ASSUME Init
    PROVE  LimitInv
<1>1. \A i \in Owner : open[i] = 0
  BY Zenon DEF Init, Nowhere
<1>2. Sessions = {}
  BY <1>1 DEF Sessions
<1>3. IsFiniteSet(Sessions) /\ Workers = 0
  BY <1>2, FS_EmptySet, Zenon DEF Workers
<1>4. \A c \in Conductor : ~ Counted(c)
  BY DEF Init, Counted
<1>5. Room
  BY <1>3, <1>4, ConductAssumption DEF Room
<1> QED
  BY <1>3, <1>5, InitIInv, Zenon DEF LimitInv

LEMMA LimitKept ==
    ASSUME LimitInv, [Next]_vars
    PROVE  LimitInv'
<1>1. IInv'
  BY IInvKept, Zenon DEF LimitInv
<1>2. WindowTypes /\ TickTypes /\ OneTick /\ HasTodo
  BY TypesSplit, Zenon DEF LimitInv, IInv
<1>3. Room' /\ IsFiniteSet(Sessions')
  BY <1>2, RoomKept, Zenon DEF LimitInv
<1> QED
  BY <1>1, <1>3, Zenon DEF LimitInv

\* conductTick keeps the sessions within --max-workers, for any limit and any
\* number of lines, as long as no ticks overlap, LIST answers, and no window comes
\* up after its launch was given up.
THEOREM LimitSafety == Spec => []WorkersWithinLimit
<1>1. LimitInv => WorkersWithinLimit
  <2> SUFFICES ASSUME LimitInv, ~ (rivals \/ blind) PROVE ~ (Workers > MaxWorkers)
    BY Zenon DEF WorkersWithinLimit
  <2>1. Workers \in Nat
    BY FS_CardinalityType, Zenon DEF Workers, LimitInv
  <2>2. Workers <= MaxWorkers
    BY Zenon DEF LimitInv, Room
  <2> QED
    BY <2>1, <2>2, ConductAssumption
<1> QED
  BY <1>1, InitLimit, LimitKept, PTL DEF Spec

=============================================================================
