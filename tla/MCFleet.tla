-------------------------------- MODULE MCFleet --------------------------------
(* A launch stands for its window and its worktree, and one launch is like    *)
(* another.                                                                   *)
EXTENDS Fleet, TLC

Interchangeable == Permutations(Job)
=============================================================================
