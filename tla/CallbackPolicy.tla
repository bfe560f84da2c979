---------------------------- MODULE CallbackPolicy -----------------------------
(***************************************************************************)
(* Who is told that a session is idle again after a SEND to it: the caller *)
(* of the SEND, if it is a session, or a session taken for it.             *)
(*                                                                         *)
(* A list of snapshots is a set of records, as snapshotSessions builds it  *)
(* in the order of a map, which is another one each time; so a caller      *)
(* resolves to one of several sessions, and to another one the next time.  *)
(***************************************************************************)
EXTENDS Naturals

CONSTANTS
    Session,
    Caller,      \* what a caller gives for its name: a session or something else
    Nobody       \* ""

\* LastPollOK is a time, or 0 before the first poll.
SessionSnapshot == [Name : Session, Status : {"active", "idle", "stalled", "busy", "dead"},
                    LastPollOK : Nat]

Names(snapshots) == {s.Name : s \in snapshots}

Active(snapshots) == {s \in snapshots : s.Status = "active"}

MostRecent(snapshots) ==
    {s \in snapshots : /\ s.LastPollOK # 0
                       /\ \A t \in snapshots : t.LastPollOK <= s.LastPollOK}

\* What ResolveCaller may answer.
ResolveCaller(caller, snapshots) ==
    IF caller = Nobody THEN {Nobody}
    ELSE IF caller \in Names(snapshots) THEN {caller}
    ELSE IF Active(snapshots) # {} THEN Names(Active(snapshots))
    ELSE IF MostRecent(snapshots) # {} THEN Names(MostRecent(snapshots))
    ELSE {Nobody}

\* ShouldRegisterCallback, when ResolveCaller has answered actual.
ShouldRegister(target, caller, actual, snapshots) ==
    /\ target # caller
    /\ actual # Nobody
    /\ actual # target
    /\ target \in Names(snapshots)

\* shouldRegisterCallback and then registerCallbackHook, each with a snapshot and an
\* answer of its own: whose callback a SEND to target may register.
Registered(target, caller, first, second) ==
    {r \in ResolveCaller(caller, second) :
        /\ r # Nobody
        /\ \E actual \in ResolveCaller(caller, first) :
              ShouldRegister(target, caller, actual, first)}

-----------------------------------------------------------------------------

Snapshots == SUBSET SessionSnapshot

\* The decision never aliases back to the target (policy.go, rule 3).
DecisionNotTarget ==
    \A target \in Session, caller \in Caller, first \in Snapshots :
       \A actual \in ResolveCaller(caller, first) :
          ShouldRegister(target, caller, actual, first) =>
             actual \in Names(first) \ {target}

\* A caller that is a session is the one that is told, and the target is not.
SessionIsTold ==
    \A target \in Session, caller \in Caller, first, second \in Snapshots :
       caller \in Names(first) \cap Names(second) =>
          Registered(target, caller, first, second) \subseteq {caller} \ {target}

\* For any other caller the registration may, of one and the same snapshot, resolve
\* it to the target the decision had ruled out.
SelfCallback ==
    \E target \in Session, caller \in Caller, first \in Snapshots :
       target \in Registered(target, caller, first, first)

=============================================================================
