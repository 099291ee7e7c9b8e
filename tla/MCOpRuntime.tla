---------------------------- MODULE MCOpRuntime ----------------------------
(* Small instances of OpRuntime for TLC.                                   *)
EXTENDS OpRuntime, TLC

CONSTANTS t1, t2

\* Goroutines are interchangeable.
Symmetry == Permutations(Threads)
============================================================================
