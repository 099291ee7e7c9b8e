---------------------------- MODULE LogDelivery ----------------------------
(***************************************************************************)
(* What an asynchronous log pipeline promises its callers, with no queue,  *)
(* no batch and no worker in it.                                           *)
(*                                                                         *)
(* An entry that a caller has logged is pending until it is either written *)
(* to the sinks or given up.  It is written at most once, and never after  *)
(* it was given up.  The pipeline may take over (own) a pending entry      *)
(* while it is open; closing it is finished only when nothing it owned     *)
(* before the close began is still pending.                                *)
(***************************************************************************)
EXTENDS Naturals, Sequences

CONSTANT Ids       \* the entries that can be logged

VARIABLES
  pending,         \* logged, and neither written nor given up
  owned,           \* pending entries the pipeline took over before closing began
  written,         \* the entries in the order the sinks were given them
  lost,            \* entries given up: evicted to make room for newer ones
  phase            \* "open", "closing" or "closed"

vars == <<pending, owned, written, lost, phase>>

Init ==
  /\ pending = {}
  /\ owned = {}
  /\ written = <<>>
  /\ lost = {}
  /\ phase = "open"

\* A caller logs an entry nobody has logged before.
Log(e) ==
  /\ e \notin pending \cup lost
  /\ \A i \in DOMAIN written : written[i] # e
  /\ pending' = pending \cup {e}
  /\ UNCHANGED <<owned, written, lost, phase>>

\* The pipeline takes the entry over.
Own(e) ==
  /\ phase = "open"
  /\ e \in pending
  /\ owned' = owned \cup {e}
  /\ UNCHANGED <<pending, written, lost, phase>>

\* The entry reaches the sinks, from a worker or from the caller itself.
Write(e) ==
  /\ e \in pending
  /\ pending' = pending \ {e}
  /\ owned' = owned \ {e}
  /\ written' = Append(written, e)
  /\ UNCHANGED <<lost, phase>>

\* The entry is given up.
Lose(e) ==
  /\ e \in pending
  /\ pending' = pending \ {e}
  /\ owned' = owned \ {e}
  /\ lost' = lost \cup {e}
  /\ UNCHANGED <<written, phase>>

BeginClose ==
  /\ phase = "open"
  /\ phase' = "closing"
  /\ UNCHANGED <<pending, owned, written, lost>>

\* Closing ends only with nothing left of what was owned.
EndClose ==
  /\ phase = "closing"
  /\ owned = {}
  /\ phase' = "closed"
  /\ UNCHANGED <<pending, owned, written, lost>>

Next ==
  \/ \E e \in Ids : Log(e) \/ Own(e) \/ Write(e) \/ Lose(e)
  \/ BeginClose
  \/ EndClose

Spec == Init /\ [][Next]_vars
============================================================================
