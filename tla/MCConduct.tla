------------------------------- MODULE MCConduct -------------------------------
(* The prompt of line 1 starts with the text of line 2.                       *)
EXTENDS Conduct

MCCovers == <<{1}, {1, 2}>>
=============================================================================
