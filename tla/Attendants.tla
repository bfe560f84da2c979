------------------------------ MODULE Attendants -------------------------------
(***************************************************************************)
(* The commands that attend one session: auto-approvals, a launch that     *)
(* waits for its agent, and hang-detect, with the window they look at.  A  *)
(* window that hangs neither draws nor takes keys.                         *)
(***************************************************************************)
EXTENDS Approvals, HangDetector

vars == <<approvalsVars, hangVars>>

Init == ApprovalsInit /\ HangInit

Agent == ~hung /\ (Asks \/ Scrolls \/ UserAnswers \/ TakesEnter)
AutoApprovals == (\E seen \in Screen : Look(seen)) \/ Approve
Launch == WaitForReady \/ AcceptTrust
HangDetect == Probe \/ ActionEnds

Next ==
    \/ (Agent \/ Polls \/ AutoApprovals \/ Launch) /\ UNCHANGED hangVars
    \/ (WindowHangs \/ StatusFollows \/ TimePasses \/ HangDetect)
          /\ UNCHANGED approvalsVars

Spec == Init /\ [][Next]_vars

\* The loops go on, a look that the watcher can refresh comes in the end, time
\* passes, and a window that is not hung takes its keys.
Fairness ==
    /\ WF_vars(Look(screen) /\ UNCHANGED hangVars)
    /\ WF_vars(Approve /\ UNCHANGED hangVars)
    /\ WF_vars(HangDetect /\ UNCHANGED approvalsVars)
    /\ WF_vars(TimePasses /\ UNCHANGED approvalsVars)
    /\ SF_vars(TakesEnter /\ ~hung /\ UNCHANGED hangVars)

FairSpec == Spec /\ Fairness

-----------------------------------------------------------------------------

TypeOK == ApprovalsTypeOK /\ HangTypeOK

Taken == queue # <<>> /\ queue' = Tail(queue)

\* An Enter of auto-approvals answers the question it was sent for, or none; another
\* one only if somebody else answered that question first, if it had read a
\* text for a question, or if the pipe client had sent the Enter twice.
AnswersRead ==
    [][Taken /\ asked # 0 /\ Head(queue).by = "approvals" =>
          \/ Head(queue).read = asked
          \/ Head(queue).read \in others
          \/ Head(queue).again]_vars

\* A question the agent waits on is answered in the end, if the window does not
\* hang for ever, unless auto-approvals saw no text without a prompt between it and
\* the one before (a blank screen does not count), or its Enter failed: it does not
\* try again.
QuestionAnswered ==
    ([]<>~hung) => \A q \in Question : asked = q ~> asked # q \/ missed

\* A session that stays stalled is acted upon again and again.
HangActedOnAgain == <>[]stalled => []<>(action = "snapshot")

=============================================================================
