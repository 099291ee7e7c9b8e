-------------------------- MODULE MCObsLifecycle --------------------------
(* Small instances of ObsLifecycle for TLC.                                *)
EXTENDS ObsLifecycle, TLC

CONSTANTS t1, t2

\* Goroutines are interchangeable.
Symmetry == Permutations(Threads)

\* What Config says of the life of an Obs: an exporting one, an asynchronous one with a
\* name, which exports only if the environment asks for it.
Exporting == [explicit |-> TRUE, service |-> TRUE, env |-> FALSE, async |-> FALSE]
Named     == [explicit |-> FALSE, service |-> TRUE, env |-> TRUE, async |-> TRUE]

MCConfigs == {Exporting, Named}
===========================================================================
