----------------------------- MODULE MCWatcher -----------------------------
(* Screens by name, and goroutines as interchangeable model values.        *)
EXTENDS Watcher, TLC

CONSTANTS prompt, output, spinner

GoroutineSymmetry == Permutations(Goroutine)
=============================================================================
