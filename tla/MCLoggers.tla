----------------------------- MODULE MCLoggers -----------------------------
(* Small instances of Loggers for TLC.                                     *)
EXTENDS Loggers, TLC

CONSTANTS t1, t2

Symmetry == Permutations(Threads)

\* A login is needed, and one of two roles is denied although it is among the allowed.
MCRules == {NoRule, [auth |-> TRUE, denied |-> {"guest"}, allowed |-> {"admin", "guest"}]}

MCUsers == {[role |-> "admin", authed |-> TRUE], [role |-> "guest", authed |-> TRUE]}

MCRootFields ==
  [k \in {"user_id", "note"} |->
     [by |-> Nobody, text |-> IF k = "note" THEN "card" ELSE "plain"]]
MCRanges == {<<1, 1>>, <<2, 2>>}
============================================================================
