---------------------------- MODULE MCIdleHooks ----------------------------
(* Two hooks: a callback filtered on one session, as registerCallbackHook  *)
(* makes them, and an operator's persistent hook for every session.        *)
EXTENDS IdleHooks, TLC

CONSTANTS callback, notify, s1, s2

MCFilter == (callback :> s1) @@ (notify :> AnySession)
=============================================================================
