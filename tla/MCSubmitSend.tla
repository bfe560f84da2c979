---------------------------- MODULE MCSubmitSend ----------------------------
(* Two SENDs; they, and what the agent draws, are interchangeable.          *)
EXTENDS SubmitSend, TLC

CONSTANTS s1, s2, f1, f2

Symmetry == Permutations({s1, s2}) \cup Permutations({f1, f2})
=============================================================================
