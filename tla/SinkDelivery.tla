---------------------------- MODULE SinkDelivery ----------------------------
(***************************************************************************)
(* What a sink promises whoever writes to it, with no buffer, no goroutine *)
(* and no request in it.                                                   *)
(*                                                                         *)
(* A sink holds the entries it has taken until it stores them or gives     *)
(* them up.  What it has let go of never comes back, so an entry is stored *)
(* at most once, unless it was stored without the sink knowing: then the   *)
(* sink still holds it, and may store it again or give it up.              *)
(***************************************************************************)
CONSTANT Ids       \* the entries that can be written

VARIABLES
  taken,           \* entries written to the sink
  held,            \* those it has not let go of
  stored,          \* those that were stored at least once
  unclear,         \* those whose storing looked like a failure
  lost             \* those given up

vars == <<taken, held, stored, unclear, lost>>

Init == taken = {} /\ held = {} /\ stored = {} /\ unclear = {} /\ lost = {}

\* An entry is written; to make room for it the sink may give up others, or this one.
Take(e, gone) ==
  /\ e \notin taken /\ gone \subseteq held \cup {e}
  /\ taken' = taken \cup {e}
  /\ held' = (held \cup {e}) \ gone
  /\ lost' = lost \cup gone
  /\ UNCHANGED <<stored, unclear>>

\* Entries are stored, which none of them was before but those the sink could not know about.
Store(es) ==
  /\ es \subseteq held /\ es \cap stored \subseteq unclear
  /\ stored' = stored \cup es
  /\ held' = held \ es
  /\ UNCHANGED <<taken, unclear, lost>>

\* The same, but it looks like a failure.
StoreUnclear(es) ==
  /\ es \subseteq held /\ es \cap stored \subseteq unclear
  /\ stored' = stored \cup es
  /\ unclear' = unclear \cup es
  /\ UNCHANGED <<taken, held, lost>>

GiveUp(gone) ==
  /\ gone \subseteq held
  /\ held' = held \ gone
  /\ lost' = lost \cup gone
  /\ UNCHANGED <<taken, stored, unclear>>

Next ==
  \/ \E e \in Ids : \E gone \in SUBSET (held \cup {e}) : Take(e, gone)
  \/ \E es \in SUBSET held : Store(es) \/ StoreUnclear(es) \/ GiveUp(es)

Spec == Init /\ [][Next]_vars

\* What follows for the entries: none vanishes, none that was given up is still held, and
\* one that was stored is held only if the sink does not know.
Accounts ==
  /\ taken = held \cup stored \cup lost
  /\ held \cap lost = {}
  /\ held \cap stored \subseteq unclear
============================================================================
