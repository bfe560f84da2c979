---------------------------- MODULE HookRegistry ----------------------------
(***************************************************************************)
(* What the idle hooks promise while one daemon lives, without the disk,   *)
(* the goroutines or the locks: a notification for a session charges every *)
(* armed hook that matches it, at once, and disarms the one-time ones in   *)
(* the same step.  IdleHooks implements this (its RegistrySpec).           *)
(***************************************************************************)
EXTENDS Naturals

CONSTANTS Hook, OneTime, Session, AnySession, Filter

VARIABLES
    armed,   \* the hooks a notification may fire
    shots    \* shots[h]: firings charged to h in this life of the daemon

vars == <<armed, shots>>

MaxShots == 2            \* bound: two firings are as bad as any number
Once(n) == IF n < MaxShots THEN n + 1 ELSE n

Init ==
    /\ armed = {}
    /\ shots = [h \in Hook |-> 0]

\* A hook is registered once, before it ever fires.
Register(h) ==
    /\ h \notin armed
    /\ shots[h] = 0
    /\ armed' = armed \cup {h}
    /\ UNCHANGED shots

Notify(s) ==
    LET hit == {h \in armed : Filter[h] \in {AnySession, s}}
    IN  /\ shots' = [h \in Hook |-> IF h \in hit THEN Once(shots[h]) ELSE shots[h]]
        /\ armed' = armed \ (hit \cap OneTime)

ForgetAll ==
    /\ armed' = {}
    /\ UNCHANGED shots

\* A new daemon starts from whatever the old one left on disk.
Reload ==
    /\ \E H \in SUBSET Hook : armed' = H
    /\ shots' = [h \in Hook |-> 0]

Next ==
    \/ \E h \in Hook : Register(h)
    \/ \E s \in Session : Notify(s)
    \/ ForgetAll
    \/ Reload

Spec == Init /\ [][Next]_vars
=============================================================================
