-------------------------- MODULE MCAsyncPipeline --------------------------
(* Small instances of AsyncPipeline for TLC.                               *)
EXTENDS AsyncPipeline, TLC

CONSTANTS c1, c2, w1, w2, s1, s2

\* Callers, workers and stoppers are interchangeable: no action names one of them.
Symmetry ==
  Permutations(Callers) \cup Permutations({w1, w2}) \cup Permutations(Stoppers)

NoWorkers  == {}
OneWorker  == {w1}
TwoWorkers == {w1, w2}
UpToTwo    == {NoWorkers, OneWorker, TwoWorkers}
UpToOne    == {NoWorkers, OneWorker}
============================================================================
