----------------------------- MODULE MCMetrics -----------------------------
(* Small instances of Metrics for TLC.                                     *)
EXTENDS Metrics, TLC

CONSTANTS t1, t2

Symmetry == Permutations(Threads)

\* Their metric names are "a" and "b".
MCNames == {<<"A", "-">>, <<"b">>}
MCLowered == [c \in {"A"} |-> "a"]

MCSubjects == {[kind |-> "nilMap", keys |-> {}], [kind |-> "map", keys |-> {"service", "tenant"}]}

MCConfigs == {[statics |-> <<"service", "env">>, labels |-> {"tenant"}, schema |-> "both"],
              [statics |-> <<"env">>, labels |-> {}, schema |-> "labeled"]}
============================================================================
