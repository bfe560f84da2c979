------------------------------ MODULE MCSingleton ------------------------------
(* A ghost and processes that differ in nothing.                              *)
EXTENDS Singleton, TLC

MCSymmetry == Permutations(Process \ {Ghost})
=============================================================================
