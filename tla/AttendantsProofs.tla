--------------------------- MODULE AttendantsProofs ----------------------------
(***************************************************************************)
(* Proofs about Attendants, for any number of questions: the back-off of   *)
(* auto-approvals is never used, and its Enters answer what they were sent *)
(* for.                                                                    *)
(***************************************************************************)
EXTENDS Attendants, TLAPS

\* Where in s the Enters of auto-approvals are that the pipe client sent once.
Own(s) == {i \in 1..Len(s) : s[i].by = "approvals" /\ ~s[i].again}

\* Auto-approvals has sent its Enter for q: it is on its way, or has answered q.
Spent(q) ==
    \/ q \in 1..shown /\ q \notin others /\ q # asked
    \/ \E i \in Own(queue) : queue[i].read = q

\* An Enter on its way is for what the agent asks, or for what is settled.
QueueInv ==
    /\ \A i \in Own(queue) : /\ queue[i].read \in 1..shown
                             /\ queue[i].read = asked \/ queue[i].read \in others
    /\ \A i, j \in Own(queue) : queue[i].read = queue[j].read => i = j

\* As long as a prompt is in view for which the Enter was sent, sentEnter says so;
\* and auto-approvals has seen what it was sent for.
SeenInv ==
    \A q \in 1..shown : Spent(q) => /\ screen = q => cached = q
                                    /\ cached = q => sentEnter

\* Auto-approvals sends for a prompt it has not sent for.
SendInv ==
    /\ at["approvals"] # "done"
    /\ at["approvals"] = "send" =>
          /\ ~sentEnter /\ looked["approvals"] \in 1..shown
          /\ ~Spent(looked["approvals"])
          /\ screen = looked["approvals"] => cached = screen

\* How many Enters the back-off counts.
CountInv == entersSent = IF sentEnter THEN 1 ELSE 0

IInv == ApprovalsTypeOK /\ QueueInv /\ SeenInv /\ SendInv /\ CountInv

-----------------------------------------------------------------------------
(* The queue. *)

LEMMA OwnTail ==
    ASSUME NEW s \in Seq(AnEnter), s # <<>>
    PROVE  /\ Tail(s) \in Seq(AnEnter)
           /\ \A i \in Own(Tail(s)) : i + 1 \in Own(s) /\ i + 1 # 1 /\ Tail(s)[i] = s[i + 1]
<1>1. Tail(s) \in Seq(AnEnter) /\ Len(Tail(s)) = Len(s) - 1
  OBVIOUS
<1>2. \A i \in 1..Len(Tail(s)) : i + 1 \in 1..Len(s) /\ i + 1 # 1 /\ Tail(s)[i] = s[i + 1]
  BY <1>1
<1>. QED BY <1>1, <1>2 DEF Own

LEMMA OwnAppend ==
    ASSUME NEW s \in Seq(AnEnter), NEW e \in AnEnter
    PROVE  /\ Append(s, e) \in Seq(AnEnter)
           /\ \A i \in Own(s) : i \in Own(Append(s, e)) /\ Append(s, e)[i] = s[i]
           /\ \A i \in Own(Append(s, e)) :
                 \/ i \in Own(s) /\ Append(s, e)[i] = s[i]
                 \/ i = Len(s) + 1 /\ Append(s, e)[i] = e /\ e.by = "approvals" /\ ~e.again
<1>1. Append(s, e) \in Seq(AnEnter) /\ Len(Append(s, e)) = Len(s) + 1
  OBVIOUS
<1>2. \A i \in 1..Len(s) : Append(s, e)[i] = s[i]
  OBVIOUS
<1>3. Append(s, e)[Len(s) + 1] = e
  OBVIOUS
<1>4. 1..Len(Append(s, e)) = 1..Len(s) \cup {Len(s) + 1}
  BY <1>1
<1>. QED BY <1>1, <1>2, <1>3, <1>4 DEF Own

\* A SEND adds at most one Enter that counts, and only for auto-approvals.
LEMMA OwnSend ==
    ASSUME ApprovalsTypeOK, NEW c \in Command, SendEnter(c)
    PROVE  /\ queue' \in Seq(AnEnter)
           /\ \A i \in Own(queue) : i \in Own(queue') /\ queue'[i] = queue[i]
           /\ \A i \in Own(queue') :
                 \/ i \in Own(queue) /\ queue'[i] = queue[i]
                 \/ i = Len(queue) + 1 /\ c = "approvals" /\ queue'[i].read = looked[c]
<1>. DEFINE e == Enter(c, FALSE)
            f == Enter(c, TRUE)
            t == Append(queue, e)
<1>1. e \in AnEnter /\ f \in AnEnter /\ queue \in Seq(AnEnter)
  BY DEF ApprovalsTypeOK, Enter, AnEnter
<1>2. e.by = c /\ e.read = looked[c] /\ f.again
  BY DEF Enter
<1>3. queue' = t \/ queue' = Append(t, f)
  BY DEF SendEnter
<1>. HIDE DEF e, f
<1>4. /\ t \in Seq(AnEnter)
      /\ \A i \in Own(queue) : i \in Own(t) /\ t[i] = queue[i]
      /\ \A i \in Own(t) :
            \/ i \in Own(queue) /\ t[i] = queue[i]
            \/ i = Len(queue) + 1 /\ t[i] = e /\ e.by = "approvals" /\ ~e.again
  BY <1>1, OwnAppend
<1>. HIDE DEF t
<1>5. /\ Append(t, f) \in Seq(AnEnter)
      /\ \A i \in Own(t) : i \in Own(Append(t, f)) /\ Append(t, f)[i] = t[i]
      /\ \A i \in Own(Append(t, f)) :
            \/ i \in Own(t) /\ Append(t, f)[i] = t[i]
            \/ i = Len(t) + 1 /\ Append(t, f)[i] = f /\ f.by = "approvals" /\ ~f.again
  BY <1>1, <1>4, OwnAppend
<1>6. CASE queue' = t
  BY <1>2, <1>4, <1>6
<1>7. CASE queue' = Append(t, f)
  BY <1>2, <1>4, <1>5, <1>7
<1>. QED BY <1>3, <1>6, <1>7

-----------------------------------------------------------------------------
(* The steps of the terminal and of the commands. *)

\* What the invariant says when neither the queue nor sentEnter change, and nothing
\* more is spent or leaves the settled.
LEMMA QueueStays ==
    ASSUME IInv, UNCHANGED queue, others \subseteq others', shown <= shown', shown' \in Nat,
           asked' = asked \/ asked \in others' \cup {0}
    PROVE  QueueInv'
<1>1. Own(queue') = Own(queue)
  OBVIOUS
<1>2. \A i \in Own(queue) : queue[i].read \in 1..shown'
  BY DEF IInv, QueueInv, ApprovalsTypeOK
<1>3. \A i \in Own(queue) : queue[i].read = asked' \/ queue[i].read \in others'
  BY DEF IInv, QueueInv
<1>. QED BY <1>1, <1>2, <1>3 DEF IInv, QueueInv

LEMMA AsksKeeps ==
    ASSUME IInv, Asks
    PROVE  ApprovalsTypeOK' /\ QueueInv' /\ SeenInv' /\ SendInv' /\ CountInv'
<1>1. shown' = shown + 1 /\ shown \in Nat /\ asked = 0 /\ shown' \in Nat
  BY DEF IInv, ApprovalsTypeOK, Asks
<1>2. ApprovalsTypeOK'
  <2>1. shown' \in 0..Questions /\ shown' \in Question /\ shown' \in 0..shown'
    BY <1>1, ApprovalsAssumption DEF IInv, ApprovalsTypeOK, Asks, Question
  <2>2. asked' \in 0..shown' /\ {screen', cached'} \subseteq 0..shown' \cup {Blank}
    BY <1>1, <2>1 DEF IInv, ApprovalsTypeOK, Asks
  <2>. QED BY <2>1, <2>2 DEF IInv, ApprovalsTypeOK, Asks, loops
<1>3. QueueInv'
  BY <1>1, QueueStays DEF Asks
<1>4. \A q \in 1..shown' : Spent(q)' => Spent(q) /\ q \in 1..shown
  <2>1. \A i \in Own(queue) : queue[i].read \in 1..shown
    BY DEF IInv, QueueInv
  <2>2. asked' = shown' \/ shown' \in others'
    BY DEF Asks
  <2>3. \A q \in 1..shown' : q \in 1..shown \/ q = shown'
    BY <1>1
  <2>4. \A q \in 1..shown : q # asked /\ q # shown' /\ (q \in others' <=> q \in others)
    BY <1>1 DEF Asks
  <2>5. shown' \notin 1..shown
    BY <1>1
  <2>. QED BY <2>1, <2>2, <2>3, <2>4, <2>5 DEF Spent, Asks
<1>5. SeenInv'
  BY <1>1, <1>4 DEF IInv, SeenInv, Asks, loops
<1>6. SendInv' /\ CountInv'
  BY <1>1, <1>4 DEF IInv, SendInv, CountInv, Asks, loops
<1>. QED BY <1>2, <1>3, <1>5, <1>6

LEMMA ScrollsKeeps ==
    ASSUME IInv, Scrolls
    PROVE  ApprovalsTypeOK' /\ QueueInv' /\ SeenInv' /\ SendInv' /\ CountInv'
<1>0. screen' \notin 1..shown
  BY ApprovalsAssumption DEF IInv, ApprovalsTypeOK, Scrolls, Blank
<1>1. ApprovalsTypeOK'
  <2>1. 0 \in 0..shown
    BY ApprovalsAssumption DEF IInv, ApprovalsTypeOK
  <2>2. {screen', cached'} \subseteq 0..shown' \cup {Blank}
    BY <2>1 DEF IInv, ApprovalsTypeOK, Scrolls
  <2>. QED BY <2>2 DEF IInv, ApprovalsTypeOK, Scrolls, loops
<1>2. \A q : Spent(q)' <=> Spent(q)
  BY DEF Spent, Scrolls
<1>3. QueueInv'
  BY DEF IInv, QueueInv, Scrolls
<1>4. SeenInv' /\ CountInv'
  BY <1>0, <1>2 DEF IInv, SeenInv, CountInv, Scrolls, loops
<1>5. SendInv'
  BY <1>0, <1>2 DEF IInv, SendInv, Scrolls, loops
<1>. QED BY <1>1, <1>3, <1>4, <1>5

LEMMA UserAnswersKeeps ==
    ASSUME IInv, UserAnswers
    PROVE  ApprovalsTypeOK' /\ QueueInv' /\ SeenInv' /\ SendInv' /\ CountInv'
<1>1. ApprovalsTypeOK'
  BY ApprovalsAssumption DEF IInv, ApprovalsTypeOK, UserAnswers, loops, Question
<1>2. QueueInv'
  BY QueueStays DEF IInv, ApprovalsTypeOK, UserAnswers
<1>3. \A q : Spent(q)' => Spent(q)
  BY DEF Spent, UserAnswers
<1>4. SeenInv' /\ CountInv'
  BY <1>3 DEF IInv, SeenInv, CountInv, UserAnswers, loops
<1>5. SendInv'
  BY <1>3 DEF IInv, SendInv, UserAnswers, loops
<1>. QED BY <1>1, <1>2, <1>4, <1>5

\* The one Enter auto-approvals has sent for a question is gone when it has answered it,
\* so that nothing more is spent than was.
LEMMA TakesEnterKeeps ==
    ASSUME IInv, TakesEnter
    PROVE  ApprovalsTypeOK' /\ QueueInv' /\ SeenInv' /\ SendInv' /\ CountInv'
<1>1. queue \in Seq(AnEnter) /\ queue # <<>> /\ queue' = Tail(queue)
  BY DEF IInv, ApprovalsTypeOK, TakesEnter
<1>2. /\ queue' \in Seq(AnEnter)
      /\ \A i \in Own(queue') : i + 1 \in Own(queue) /\ i + 1 # 1 /\ queue'[i] = queue[i + 1]
  BY <1>1, OwnTail
<1>3. Head(queue) = queue[1] /\ 1 \in 1..Len(queue)
  BY <1>1
<1>4. ApprovalsTypeOK'
  BY <1>2, ApprovalsAssumption DEF IInv, ApprovalsTypeOK, TakesEnter, loops, Question
<1>5. \/ asked = 0 /\ others' = others
      \/ asked # 0 /\ others' = others \cup {asked}
      \/ /\ asked # 0 /\ others' = others
         /\ 1 \in Own(queue) /\ queue[1].read = asked
  BY <1>3 DEF TakesEnter, ReadBy, Own
<1>6. QueueInv'
  <2>1. \A i \in Own(queue') : /\ queue'[i].read \in 1..shown'
                               /\ queue'[i].read = asked' \/ queue'[i].read \in others'
    <3>1. TAKE i \in Own(queue')
    <3>2. queue'[i].read \in 1..shown' /\ queue'[i].read # 0
      <4>1. queue'[i].read \in 1..shown /\ shown' = shown
        BY <1>2 DEF IInv, QueueInv, TakesEnter
      <4>. QED BY <4>1
    <3>3. queue'[i].read = asked \/ queue'[i].read \in others
      BY <1>2 DEF IInv, QueueInv
    <3>4. CASE 1 \in Own(queue) /\ queue[1].read = asked
      BY <1>2, <1>5, <3>2, <3>3, <3>4 DEF IInv, QueueInv
    <3>. QED BY <1>5, <3>2, <3>3, <3>4
  <2>2. \A i \in Own(queue') : i \in Nat
    BY <1>2 DEF Own
  <2>3. \A i, j \in Own(queue') : queue'[i].read = queue'[j].read => i = j
    BY <1>2, <2>2 DEF IInv, QueueInv
  <2>. QED BY <2>1, <2>3 DEF QueueInv
<1>7. \A q : Spent(q)' => Spent(q)
  <2>1. SUFFICES ASSUME NEW q, Spent(q)' PROVE Spent(q)
    OBVIOUS
  <2>2. CASE \E i \in Own(queue') : queue'[i].read = q
    BY <1>2, <2>2 DEF Spent
  <2>3. CASE q \in 1..shown /\ q \notin others' /\ q # asked'
    BY <1>5, <2>3 DEF Spent, TakesEnter
  <2>. QED BY <2>1, <2>2, <2>3 DEF Spent, TakesEnter
<1>8. SeenInv' /\ CountInv'
  BY <1>7 DEF IInv, SeenInv, CountInv, TakesEnter, loops
<1>9. SendInv'
  BY <1>7 DEF IInv, SendInv, TakesEnter, loops
<1>. QED BY <1>4, <1>6, <1>8, <1>9

\* A look or a poll leaves the watcher what it had, or what is on the screen.
LEMMA PollsKeeps ==
    ASSUME IInv, UNCHANGED <<shown, asked, screen, queue, others>>,
           cached' \in {cached, screen},
           UNCHANGED <<sentEnter, entersSent, backoff>>,
           missed' \in BOOLEAN,
           at' \in [Command -> {"look", "send", "done"}],
           looked' \in [Command -> 0..Questions],
           at'["approvals"] = at["approvals"],
           looked'["approvals"] = looked["approvals"]
    PROVE  ApprovalsTypeOK' /\ QueueInv' /\ SeenInv' /\ SendInv' /\ CountInv'
<1>1. ApprovalsTypeOK'
  BY DEF IInv, ApprovalsTypeOK
<1>2. \A q : Spent(q)' <=> Spent(q)
  BY DEF Spent
<1>3. QueueInv'
  BY DEF IInv, QueueInv
<1>4. SeenInv' /\ CountInv'
  BY <1>2 DEF IInv, SeenInv, CountInv
<1>5. SendInv'
  BY <1>2 DEF IInv, SendInv
<1>. QED BY <1>1, <1>3, <1>4, <1>5

\* A prompt for which the Enter was sent is in view only while sentEnter is TRUE.
LEMMA LookKeeps ==
    ASSUME IInv, NEW seen \in Screen, Look(seen)
    PROVE  ApprovalsTypeOK' /\ QueueInv' /\ SeenInv' /\ SendInv' /\ CountInv'
<1>0. 0 \notin Question /\ Blank \notin 0..Questions /\ Blank \notin Question
  BY ApprovalsAssumption DEF Question, Blank
<1>1. /\ Show(seen)
      /\ \/ seen = Blank /\ UNCHANGED <<at, looked, sentEnter, entersSent>>
         \/ /\ seen = 0 /\ PromptGone /\ UNCHANGED at
            /\ looked' = [looked EXCEPT !["approvals"] = 0]
         \/ /\ seen \in Question /\ UNCHANGED <<sentEnter, entersSent>>
            /\ looked' = [looked EXCEPT !["approvals"] = seen]
            /\ at' = at \/ (~sentEnter /\ Goto("approvals", "send"))
  <2>1. Show(seen) /\ LookAt(seen)
    BY DEF Look
  <2>2. CASE seen = Blank /\ UNCHANGED <<at, looked, sentEnter, entersSent>>
    BY <2>1, <2>2
  <2>3. CASE seen \in Question
    BY <2>1, <2>3, <1>0 DEF LookAt
  <2>4. CASE seen = 0 /\ PromptGone
    BY <2>1, <2>4, <1>0 DEF LookAt
  <2>. QED BY <2>1, <2>2, <2>3, <2>4 DEF LookAt
<1>2. /\ UNCHANGED <<shown, asked, screen, queue, backoff, others, missed>>
      /\ at["approvals"] = "look"
  BY DEF Look
<1>3. cached' = seen \/ (cached' = cached /\ seen = cached)
  BY <1>1 DEF Show
<1>4. seen \in 0..shown \cup {Blank} /\ (screen = seen \/ cached = seen) /\ cached' = seen
  BY <1>1 DEF Show, IInv, ApprovalsTypeOK
<1>5. \A q : Spent(q)' <=> Spent(q)
  BY <1>2 DEF Spent
<1>6. ApprovalsTypeOK'
  <2>1. sentEnter' \in BOOLEAN /\ entersSent' \in 0..1
    <3>1. \/ sentEnter' = FALSE /\ entersSent' = 0
          \/ sentEnter' = sentEnter /\ entersSent' = entersSent
      BY <1>1 DEF PromptGone
    <3>2. sentEnter \in BOOLEAN /\ entersSent \in 0..1 /\ 0 \in 0..1
      BY DEF IInv, ApprovalsTypeOK
    <3>3. sentEnter' \in BOOLEAN
      BY <3>1, <3>2, Zenon
    <3>4. entersSent' \in 0..1
      BY <3>1, <3>2
    <3>. QED BY <3>3, <3>4
  <2>2. at' \in [Command -> {"look", "send", "done"}] /\ looked' \in [Command -> 0..Questions]
    <3>1. 0 \in 0..Questions /\ Question \subseteq 0..Questions
      BY ApprovalsAssumption DEF Question
    <3>2. at' \in [Command -> {"look", "send", "done"}]
      BY <1>1 DEF IInv, ApprovalsTypeOK, Goto
    <3>3. looked' \in [Command -> 0..Questions]
      BY <1>1, <3>1 DEF IInv, ApprovalsTypeOK
    <3>. QED BY <3>2, <3>3
  <2>. QED BY <1>2, <1>4, <2>1, <2>2 DEF IInv, ApprovalsTypeOK
<1>7. QueueInv'
  BY <1>2 DEF IInv, QueueInv
<1>8. shown \in Nat /\ shown <= Questions
  BY ApprovalsAssumption DEF IInv, ApprovalsTypeOK
<1>9. \A q \in 1..shown : q # 0 /\ q # Blank /\ q \in Question
  BY <1>8, ApprovalsAssumption DEF Blank, Question
<1>10. ASSUME NEW q \in 1..shown, Spent(q)
       PROVE  /\ screen = q => cached' = q
              /\ cached' = q => sentEnter /\ sentEnter'
  <2>1. screen = q => cached = q
    BY <1>10 DEF IInv, SeenInv
  <2>2. cached = q => sentEnter
    BY <1>10 DEF IInv, SeenInv
  <2>3. screen = q => cached' = q
    BY <1>1, <2>1 DEF Show
  <2>4. cached' = q => sentEnter
    BY <1>4, <2>1, <2>2
  <2>5. cached' = q => sentEnter' = sentEnter
    BY <1>1, <1>4, <1>9
  <2>. QED BY <2>3, <2>4, <2>5
<1>11. SeenInv'
  BY <1>2, <1>5, <1>10 DEF SeenInv
<1>12. CountInv'
  BY <1>1 DEF IInv, CountInv, PromptGone
<1>13. SendInv'
  <2>1. at' = at \/ (seen \in Question /\ ~sentEnter /\ sentEnter' = sentEnter /\ Goto("approvals", "send"))
    BY <1>1
  <2>2. CASE at' = at
    BY <1>2, <2>2 DEF SendInv
  <2>3. CASE seen \in Question /\ ~sentEnter /\ sentEnter' = sentEnter /\ Goto("approvals", "send")
    <3>1. looked'["approvals"] = seen /\ at'["approvals"] = "send"
      BY <1>0, <1>1, <2>3 DEF IInv, ApprovalsTypeOK, Command, Goto
    <3>2. seen \in 1..shown
      BY <1>0, <1>4, <1>8, <2>3 DEF Question
    <3>3. ~Spent(seen)
      BY <1>4, <1>10, <2>3, <3>2
    <3>. QED BY <1>2, <1>4, <1>5, <2>3, <3>1, <3>2, <3>3 DEF SendInv
  <2>. QED BY <2>1, <2>2, <2>3
<1>. QED BY <1>6, <1>7, <1>11, <1>12, <1>13

\* The back-off is out of reach: entersSent is 0 whenever an Enter is sent.
LEMMA ApproveKeeps ==
    ASSUME IInv, Approve
    PROVE  ApprovalsTypeOK' /\ QueueInv' /\ SeenInv' /\ SendInv' /\ CountInv'
<1>. DEFINE q0 == looked["approvals"]
<1>1. /\ at["approvals"] = "send" /\ ~sentEnter /\ q0 \in 1..shown /\ ~Spent(q0)
      /\ screen = q0 => cached = screen
  BY DEF Approve, IInv, SendInv
<1>2. at' = [at EXCEPT !["approvals"] = "look"] /\ UNCHANGED <<shown, asked, screen, cached, looked, others>>
  BY DEF Approve, Goto, terminal
<1>3. entersSent = 0 /\ sentEnter' /\ entersSent' = 1 /\ backoff' = backoff
  <2>1. entersSent = 0
    BY <1>1 DEF IInv, CountInv
  <2>2. ~(entersSent + 1 >= MaxEnters)
    BY <2>1, ApprovalsAssumption
  <2>. QED BY <2>1, <2>2 DEF Approve, Sent
<1>4. q0 = asked \/ q0 \in others
  BY <1>1 DEF Spent
<1>5. /\ queue' \in Seq(AnEnter)
      /\ \A i \in Own(queue') :
            \/ i \in Own(queue) /\ queue'[i] = queue[i]
            \/ i = Len(queue) + 1 /\ queue'[i].read = q0
      /\ missed' \in BOOLEAN
  <2>1. CASE SendEnter("approvals") /\ UNCHANGED missed
    BY <2>1, OwnSend DEF IInv, ApprovalsTypeOK, Command
  <2>2. CASE missed' = TRUE /\ UNCHANGED queue
    BY <2>2 DEF IInv, ApprovalsTypeOK
  <2>. QED BY <2>1, <2>2 DEF Approve
<1>6. \A i \in Own(queue) : queue[i].read # q0
  BY <1>1 DEF Spent
<1>7. ApprovalsTypeOK'
  BY <1>2, <1>3, <1>5 DEF IInv, ApprovalsTypeOK, Command
<1>8. QueueInv'
  <2>1. \A i \in Own(queue') : /\ queue'[i].read \in 1..shown'
                               /\ queue'[i].read = asked' \/ queue'[i].read \in others'
    BY <1>1, <1>2, <1>4, <1>5 DEF IInv, QueueInv
  <2>2. \A i, j \in Own(queue') : queue'[i].read = queue'[j].read => i = j
    BY <1>5, <1>6 DEF IInv, QueueInv
  <2>. QED BY <2>1, <2>2 DEF QueueInv
<1>9. \A q : Spent(q)' => Spent(q) \/ q = q0
  BY <1>2, <1>5 DEF Spent
<1>10. SeenInv'
  BY <1>1, <1>2, <1>3, <1>9 DEF IInv, SeenInv
<1>11. SendInv' /\ CountInv'
  BY <1>2, <1>3 DEF IInv, SendInv, CountInv, ApprovalsTypeOK, Command
<1>. QED BY <1>7, <1>8, <1>10, <1>11

LEMMA WaitForReadyKeeps ==
    ASSUME IInv, WaitForReady
    PROVE  ApprovalsTypeOK' /\ QueueInv' /\ SeenInv' /\ SendInv' /\ CountInv'
<1>1. PICK seen \in Screen :
         /\ Show(seen)
         /\ \E q \in Trust \cup {0} : looked' = [looked EXCEPT !["launch"] = q]
         /\ at' = at \/ \E l \in {"send", "done"} : at' = [at EXCEPT !["launch"] = l]
  BY DEF WaitForReady, Goto
<1>2. Trust \cup {0} \subseteq 0..Questions
  BY ApprovalsAssumption DEF Question
<1>3. /\ looked' \in [Command -> 0..Questions] /\ looked'["approvals"] = looked["approvals"]
      /\ at' \in [Command -> {"look", "send", "done"}] /\ at'["approvals"] = at["approvals"]
  BY <1>1, <1>2 DEF IInv, ApprovalsTypeOK, Command
<1>4. cached' \in {cached, screen}
  BY <1>1 DEF Show
<1>. QED BY <1>3, <1>4, PollsKeeps DEF WaitForReady, IInv, ApprovalsTypeOK

LEMMA AcceptTrustKeeps ==
    ASSUME IInv, AcceptTrust
    PROVE  ApprovalsTypeOK' /\ QueueInv' /\ SeenInv' /\ SendInv' /\ CountInv'
<1>1. /\ at' = [at EXCEPT !["launch"] = "look"]
      /\ UNCHANGED <<shown, asked, screen, cached, looked, sentEnter, entersSent, backoff, others, missed>>
  BY DEF AcceptTrust, Goto, terminal
<1>2. /\ queue' \in Seq(AnEnter)
      /\ \A i \in Own(queue') : i \in Own(queue) /\ queue'[i] = queue[i]
  <2>1. CASE SendEnter("launch")
    BY <2>1, OwnSend DEF IInv, Command
  <2>2. CASE UNCHANGED queue
    BY <2>2 DEF IInv, ApprovalsTypeOK
  <2>. QED BY <2>1, <2>2 DEF AcceptTrust
<1>3. at' \in [Command -> {"look", "send", "done"}] /\ at'["approvals"] = at["approvals"]
  BY <1>1 DEF IInv, ApprovalsTypeOK, Command
<1>4. ApprovalsTypeOK'
  BY <1>1, <1>2, <1>3 DEF IInv, ApprovalsTypeOK
<1>5. \A q : Spent(q)' => Spent(q)
  BY <1>1, <1>2 DEF Spent
<1>6. QueueInv'
  BY <1>1, <1>2 DEF IInv, QueueInv
<1>7. SeenInv' /\ CountInv'
  BY <1>1, <1>5 DEF IInv, SeenInv, CountInv
<1>8. SendInv'
  BY <1>1, <1>3, <1>5 DEF IInv, SendInv
<1>. QED BY <1>4, <1>6, <1>7, <1>8

-----------------------------------------------------------------------------

LEMMA Invariance == Spec => []IInv
<1>1. Init => IInv
  <2>. SUFFICES ASSUME Init PROVE IInv
    OBVIOUS
  <2>1. queue = <<>> /\ Own(queue) = {}
    BY DEF Init, ApprovalsInit, Own
  <2>2. ApprovalsTypeOK
    <3>1. 0 \in 0..Questions /\ 0 \in 0..0 /\ 0 \in 0..1
      BY ApprovalsAssumption
    <3>2. queue \in Seq(AnEnter)
      BY <2>1
    <3>. QED BY <3>1, <3>2 DEF Init, ApprovalsInit, ApprovalsTypeOK
  <2>3. SeenInv
    BY <2>1 DEF Init, ApprovalsInit, SeenInv
  <2>. QED BY <2>1, <2>2, <2>3 DEF Init, ApprovalsInit, IInv, QueueInv, SendInv, CountInv, Command
<1>2. IInv /\ [Next]_vars => IInv'
  <2>. SUFFICES ASSUME IInv, [Next]_vars
                PROVE  ApprovalsTypeOK' /\ QueueInv' /\ SeenInv' /\ SendInv' /\ CountInv'
    BY DEF IInv
  <2>1. CASE UNCHANGED approvalsVars
    BY <2>1, PollsKeeps DEF approvalsVars, terminal, loops, IInv, ApprovalsTypeOK
  <2>2. CASE Agent
    BY <2>2, AsksKeeps, ScrollsKeeps, UserAnswersKeeps, TakesEnterKeeps DEF Agent
  <2>3. CASE Polls
    BY <2>3, PollsKeeps DEF Polls, loops, IInv, ApprovalsTypeOK
  <2>4. CASE AutoApprovals
    BY <2>4, LookKeeps, ApproveKeeps DEF AutoApprovals
  <2>5. CASE Launch
    BY <2>5, WaitForReadyKeeps, AcceptTrustKeeps DEF Launch
  <2>. QED BY <2>1, <2>2, <2>3, <2>4, <2>5 DEF Next, vars
<1>. QED BY <1>1, <1>2, PTL DEF Spec

LEMMA HangTyped == Spec => []HangTypeOK
<1>. Cooldown \in Nat /\ 0 \in 0..Cooldown /\ Cooldown \in 0..Cooldown
  BY HangAssumption
<1>1. Init => HangTypeOK
  BY DEF Init, HangInit, HangTypeOK
<1>2. HangTypeOK /\ [Next]_vars => HangTypeOK'
  <2>. SUFFICES ASSUME HangTypeOK, [Next]_vars PROVE HangTypeOK'
    OBVIOUS
  <2>1. CASE UNCHANGED hangVars
    BY <2>1 DEF hangVars, HangTypeOK
  <2>2. CASE WindowHangs \/ StatusFollows
    BY <2>2 DEF WindowHangs, StatusFollows, HangTypeOK
  <2>3. CASE TimePasses
    <3>1. since' \in 0..Cooldown
      BY <2>3 DEF TimePasses, HangTypeOK
    <3>. QED BY <2>3, <3>1 DEF TimePasses, HangTypeOK
  <2>4. CASE HangDetect
    BY <2>4 DEF HangDetect, Probe, ActionEnds, NextAction, HangTypeOK
  <2>. QED BY <2>1, <2>2, <2>3, <2>4 DEF Next, vars
<1>. QED BY <1>1, <1>2, PTL DEF Spec

\* The variables have their types; among them, the back-off of auto-approvals is never
\* in force, and it never counts a second Enter.
THEOREM TypeCorrect == Spec => []TypeOK
<1>1. IInv /\ HangTypeOK => TypeOK
  BY DEF IInv, TypeOK
<1>. QED BY <1>1, Invariance, HangTyped, PTL

\* However many questions come up, an Enter of auto-approvals answers the one it was
\* sent for, or one whose turn came because that one was settled otherwise, or was
\* sent twice.
THEOREM ApprovalSafety == Spec => AnswersRead
<1>1. IInv /\ [Next]_vars =>
        [Taken /\ asked # 0 /\ Head(queue).by = "approvals" =>
           \/ Head(queue).read = asked
           \/ Head(queue).read \in others
           \/ Head(queue).again]_vars
  <2>. SUFFICES ASSUME IInv, Taken, Head(queue).by = "approvals", ~Head(queue).again
                PROVE  Head(queue).read = asked \/ Head(queue).read \in others
    OBVIOUS
  <2>1. queue \in Seq(AnEnter) /\ queue # <<>>
    BY DEF IInv, ApprovalsTypeOK, Taken
  <2>2. Head(queue) = queue[1] /\ 1 \in 1..Len(queue)
    BY <2>1
  <2>3. 1 \in Own(queue)
    BY <2>2 DEF Own
  <2>. QED BY <2>2, <2>3 DEF IInv, QueueInv
<1>. QED BY <1>1, Invariance, PTL DEF Spec, AnswersRead

=============================================================================
