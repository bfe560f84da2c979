----------------------------- MODULE MCAttendants ------------------------------
(* The first prompt is the trust dialog.                                      *)
EXTENDS Attendants

MCTrust == {1}
=============================================================================
