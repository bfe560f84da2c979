---------------------------- MODULE MCDaemonLocks ----------------------------
(* Every command whose handler takes a lock.                               *)
EXTENDS DaemonLocks

MCCommand == {"list", "show", "send", "hook"}
=============================================================================
