------------------------------- MODULE Approvals -------------------------------
(***************************************************************************)
(* Who presses Enter at an agent's questions: deckpilot auto-approvals,    *)
(* which looks at the screen through SHOW and sends Enter once for every   *)
(* appearance of a prompt; deckpilot launch, which does so while the       *)
(* trust dialog is up; and the user.  None knows of the others, and an     *)
(* Enter answers what the agent asks when it takes it.                     *)
(*                                                                         *)
(* A question is its number.  What its prompt says, which pattern matches  *)
(* and the "y" sent to one of gemini's prompts are left out.               *)
(***************************************************************************)
EXTENDS Naturals, Sequences

CONSTANTS
    Questions,    \* bound: prompts that come up, and texts that look like one
    Trust,        \* which of them is the trust dialog
    MaxQueue,     \* bound: Enters the terminal has queued
    MaxEnters     \* maxEntersBeforeBackoff

Question == 1..Questions

\* A screen without text, which the watcher's last content may be.  A screen shows the
\* prompt of a question, 0 for a text without one, or nothing.
Blank == Questions + 1

Screen == 0..Questions \cup {Blank}

ASSUME ApprovalsAssumption ==
    /\ Questions \in Nat /\ Trust \subseteq Question
    /\ MaxQueue \in Nat \ {0} /\ MaxEnters \in Nat \ {0, 1}

VARIABLES
    shown,       \* how many prompts have come up
    asked,       \* the question the agent waits on, or 0
    screen,      \* what the last lines of the screen show
    cached,      \* what the watcher's last content shows
    queue,       \* Enters on their way to the agent
    at,          \* at[c]: where the loop of command c stands
    looked,      \* looked[c]: the prompt its last look at a text showed, or 0
    sentEnter,   \* the variables of AutoApprovals of these names
    entersSent,
    backoff,     \* now is before backoffUntil: never, says ApprovalsTypeOK
    others,      \* history: what something else than its own Enter of auto-approvals
                 \* answered, or was no question
    missed       \* history: the question came up while auto-approvals had another
                 \* in view, or its Enter for it failed

terminal == <<shown, asked, screen, cached>>
loops    == <<at, looked, sentEnter, entersSent, backoff>>
approvalsVars == <<terminal, queue, loops, others, missed>>

Command == {"approvals", "launch"}

Goto(c, l) == at' = [at EXCEPT ![c] = l]

ApprovalsInit ==
    /\ shown = 0 /\ asked = 0 /\ screen = 0 /\ cached = 0
    /\ queue = <<>>
    /\ at = [c \in Command |-> "look"]
    /\ looked = [c \in Command |-> 0]
    /\ sentEnter = FALSE /\ entersSent = 0 /\ backoff = FALSE
    /\ others = {} /\ missed = FALSE

-----------------------------------------------------------------------------
(* The agent, its screen and its user. *)

\* A question comes up; or a text that matches a pattern and asks nothing.
Asks ==
    /\ shown < Questions /\ asked = 0
    /\ shown' = shown + 1
    /\ screen' = shown'
    /\ \/ asked' = shown' /\ UNCHANGED others
       \/ UNCHANGED asked /\ others' = others \cup {shown'}
    /\ missed' = (looked["approvals"] # 0)
    /\ UNCHANGED <<cached, queue, loops>>

\* What was asked scrolls out of the last lines, or the agent clears its screen.
Scrolls ==
    /\ asked = 0
    /\ screen' \in {0, Blank} \ {screen}
    /\ UNCHANGED <<shown, asked, cached, queue, loops, others, missed>>

\* By hand; or the agent goes on without an answer.
UserAnswers ==
    /\ asked # 0
    /\ asked' = 0
    /\ others' = others \cup {asked}
    /\ UNCHANGED <<shown, screen, cached, queue, loops, missed>>

\* The question Enter e was sent for by auto-approvals, and sent once; or 0.
ReadBy(e) == IF e.by = "approvals" /\ ~e.again THEN e.read ELSE 0

\* The agent takes an Enter: it answers what is asked, or does nothing.
TakesEnter ==
    /\ queue # <<>>
    /\ queue' = Tail(queue)
    /\ asked' = 0
    /\ others' = IF asked \in {0, ReadBy(Head(queue))} THEN others
                 ELSE others \cup {asked}
    /\ UNCHANGED <<shown, screen, cached, loops, missed>>

\* The watcher polls.
Polls ==
    /\ cached # screen
    /\ cached' = screen
    /\ UNCHANGED <<shown, asked, screen, queue, loops, others, missed>>

-----------------------------------------------------------------------------
(* SHOW and SEND as these commands use them. *)

\* FreshTail, which refreshes the watcher's content; its last content if the
\* session is dead, the queue full or the request fails.
Show(seen) ==
    \/ seen = screen /\ cached' = screen
    \/ seen = cached /\ UNCHANGED cached

\* DaemonSend of an empty message: the Enter is queued, or twice if the pipe client
\* repeats a request whose answer was lost, or the SEND fails.
Enter(c, again) == [by |-> c, read |-> looked[c], again |-> again]

SendEnter(c) ==
    queue' \in LET sent == Append(queue, Enter(c, FALSE))
               IN {sent, Append(sent, Enter(c, TRUE))}

-----------------------------------------------------------------------------
(* AutoApprovals: one turn of its loop. *)

\* Mutant: what is sent once is sent for ever.
KeepSent == UNCHANGED <<sentEnter, entersSent>>

\* The prompt is gone.
PromptGone == sentEnter' = FALSE /\ entersSent' = 0

\* A blank screen says nothing: the prompt it follows is still the last one.
LookAt(seen) ==
    \/ /\ seen = Blank
       /\ UNCHANGED <<at, looked, sentEnter, entersSent>>
    \/ /\ seen = 0
       /\ looked' = [looked EXCEPT !["approvals"] = 0]
       /\ PromptGone
       /\ UNCHANGED at
    \/ /\ seen \in Question
       /\ looked' = [looked EXCEPT !["approvals"] = seen]
       /\ IF sentEnter THEN UNCHANGED at ELSE Goto("approvals", "send")
       /\ UNCHANGED <<sentEnter, entersSent>>

Look(seen) ==
    /\ at["approvals"] = "look" /\ ~backoff
    /\ Show(seen)
    /\ LookAt(seen)
    /\ UNCHANGED <<shown, asked, screen, queue, backoff, others, missed>>

\* Mutant: the prompt is not marked as answered.
NotSent == UNCHANGED <<sentEnter, entersSent, backoff>>

\* sentEnter and the back-off, whether the SEND failed or not.
Sent ==
    IF entersSent + 1 >= MaxEnters
    THEN backoff' = TRUE /\ sentEnter' = FALSE /\ entersSent' = 0
    ELSE sentEnter' = TRUE /\ entersSent' = entersSent + 1 /\ UNCHANGED backoff

Approve ==
    /\ at["approvals"] = "send"
    /\ \/ /\ Len(queue) < MaxQueue
          /\ SendEnter("approvals")
          /\ UNCHANGED missed
       \/ /\ missed' = TRUE
          /\ UNCHANGED queue
    /\ Sent
    /\ Goto("approvals", "look")
    /\ UNCHANGED <<terminal, looked, others>>

-----------------------------------------------------------------------------
(* waitForReady: as long as the trust dialog is in view, an Enter and a pause. *)

WaitForReady ==
    /\ at["launch"] = "look"
    /\ \E seen \in Screen :
          /\ Show(seen)
          /\ IF seen \in Trust
             THEN /\ looked' = [looked EXCEPT !["launch"] = seen]
                  /\ Goto("launch", "send")
             ELSE /\ looked' = [looked EXCEPT !["launch"] = 0]
                  /\ \/ UNCHANGED at
                     \/ Goto("launch", "done")
    /\ UNCHANGED <<shown, asked, screen, queue, sentEnter, entersSent, backoff,
                   others, missed>>

AcceptTrust ==
    /\ at["launch"] = "send"
    /\ \/ Len(queue) < MaxQueue /\ SendEnter("launch")
       \/ UNCHANGED queue
    /\ Goto("launch", "look")
    /\ UNCHANGED <<terminal, looked, sentEnter, entersSent, backoff, others,
                   missed>>

-----------------------------------------------------------------------------

AnEnter == [by : Command, read : 0..Questions, again : BOOLEAN]

ApprovalsTypeOK ==
    /\ shown \in 0..Questions
    /\ asked \in 0..shown
    /\ {screen, cached} \subseteq 0..shown \cup {Blank}
    /\ queue \in Seq(AnEnter)
    /\ at \in [Command -> {"look", "send", "done"}]
    /\ looked \in [Command -> 0..Questions]
    /\ sentEnter \in BOOLEAN /\ entersSent \in 0..1 /\ ~backoff
    /\ others \subseteq Question /\ missed \in BOOLEAN

=============================================================================
