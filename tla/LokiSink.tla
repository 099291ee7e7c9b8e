------------------------------ MODULE LokiSink ------------------------------
(***************************************************************************)
(* The Loki push sink: internal/adapter/outbound/sink/network/loki.go.     *)
(*                                                                         *)
(* Written entries are buffered and pushed in batches over HTTP, by the    *)
(* writer that fills a batch, by a ticker goroutine, and once more by      *)
(* Close.  A batch that cannot be pushed goes back to the front of the     *)
(* buffer, which is trimmed to a cap, and a backoff gate then keeps every  *)
(* flush away for a while.  The mutex is never held during a push, so the  *)
(* flushes of different goroutines overlap.                                *)
(*                                                                         *)
(* One step is one critical section of s.mu or one HTTP request.  Time is  *)
(* only the gate: retryAfter is in the future (gated) or it is not.  Ids   *)
(* are the written entries in the order in which they entered the buffer.  *)
(***************************************************************************)
EXTENDS Naturals, Sequences, FiniteSets, SequencesExt

CONSTANTS
  Writers,       \* goroutines that call Write
  Closers,       \* goroutines that call Close, once each
  Ticker,        \* the goroutine of start()
  BatchSizes,    \* the values of max that Configure may set
  CapFactor,     \* retryBufferCap in batches: 10 in the code
  Retries,       \* retries of one push: 3 in the code
  MaxEntries     \* bound on the number of writes

ASSUME LokiAssumption ==
  /\ BatchSizes \subseteq Nat \ {0} /\ BatchSizes # {}
  /\ CapFactor \in Nat \ {0}
  /\ Retries \in Nat
  /\ MaxEntries \in Nat
  /\ Ticker \notin Writers \cup Closers
  /\ Writers \cap Closers = {}

Ids == 1..MaxEntries
Flushers == Writers \cup Closers \cup {Ticker}

VARIABLES
  max,           \* the batch size
  values,        \* the buffer
  gated,         \* retryAfter lies in the future
  stopped,       \* stopCh was closed and set to nil
  pc,            \* where each goroutine is
  vals,          \* the batch it took out of the buffer
  tries,         \* failed requests of its current push
  next,          \* the next entry to be written
  \* the server
  received,      \* entries it has stored
  \* history
  droppedOld,    \* entries trimmed from the buffer; the code counts them
  duplicated,    \* entries stored more than once
  unclear        \* entries of a request that was stored but looked failed

buffer == <<max, values, gated, stopped, droppedOld>>
push   == <<vals, tries>>
server == <<received, duplicated, unclear>>
vars   == <<buffer, pc, push, next, server>>

retryBufferCap == max * CapFactor

Init ==
  /\ max \in BatchSizes
  /\ values = <<>> /\ gated = FALSE /\ stopped = FALSE /\ droppedOld = {}
  /\ pc = [f \in Flushers |-> "idle"]
  /\ vals = [f \in Flushers |-> <<>>] /\ tries = [f \in Flushers |-> 0]
  /\ next = 1
  /\ received = {} /\ duplicated = {} /\ unclear = {}

Goto(f, l) == pc' = [pc EXCEPT ![f] = l]

\* Where a flush returns to.
After(f) == IF f \in Closers THEN "closed" ELSE "idle"

\* Trims nothing.
TrimNot(buf) == values' = buf /\ UNCHANGED droppedOld

\* The buffer becomes what fits of buf, from its end; the rest is dropped and counted.
SetBuffer(buf) ==
  LET excess == IF Len(buf) > retryBufferCap THEN Len(buf) - retryBufferCap ELSE 0
  IN  /\ values' = SubSeq(buf, excess + 1, Len(buf))
      /\ droppedOld' = droppedOld \cup ToSet(SubSeq(buf, 1, excess))

\* Write: append, trim, and flush when a batch is full.
Write(w) ==
  /\ pc[w] = "idle"
  /\ next <= MaxEntries
  /\ SetBuffer(Append(values, next))
  /\ next' = next + 1
  /\ Goto(w, IF Len(values') >= max THEN "flush" ELSE "idle")
  /\ UNCHANGED <<max, gated, stopped, push, server>>

\* flush with nothing to do, or while the gate is closed.
FlushNothing(f) ==
  /\ pc[f] = "flush"
  /\ values = <<>> \/ gated
  /\ Goto(f, After(f))
  /\ UNCHANGED <<buffer, push, next, server>>

\* Copies the batch and clears the buffer only once it was pushed.
TakeCopy(f) ==
  /\ pc[f] = "flush"
  /\ values # <<>> /\ ~gated
  /\ vals' = [vals EXCEPT ![f] = values]
  /\ Goto(f, "post")
  /\ UNCHANGED <<buffer, tries, next, server>>

\* flush takes the whole buffer out and lets the lock go.
FlushTake(f) ==
  /\ pc[f] = "flush"
  /\ values # <<>> /\ ~gated
  /\ vals' = [vals EXCEPT ![f] = values]
  /\ values' = <<>>
  /\ Goto(f, "post")
  /\ UNCHANGED <<max, gated, stopped, droppedOld, tries, next, server>>

\* The server stores a batch.
Store(batch) ==
  /\ received' = received \cup batch
  /\ duplicated' = duplicated \cup (batch \cap received)

\* A request succeeds: flush takes the lock once more to clear the gate.
PostOk(f) ==
  /\ pc[f] = "post"
  /\ Store(ToSet(vals[f]))
  /\ vals' = [vals EXCEPT ![f] = <<>>]
  /\ tries' = [tries EXCEPT ![f] = 0]
  /\ Goto(f, "ungate")
  /\ UNCHANGED <<buffer, next, unclear>>

\* Starts over instead of giving up.
AgainForever(f) ==
  /\ tries' = [tries EXCEPT ![f] = IF @ < Retries THEN @ + 1 ELSE 0]
  /\ Goto(f, "post")

\* After a request that may be repeated: the next try, or none is left.
Again(f) ==
  /\ tries' = [tries EXCEPT ![f] = IF @ < Retries THEN @ + 1 ELSE 0]
  /\ Goto(f, IF tries[f] < Retries THEN "post" ELSE "requeue")

\* 429, 5xx or no connection: nothing is stored.
PostRefused(f) ==
  /\ pc[f] = "post"
  /\ Again(f)
  /\ UNCHANGED <<buffer, vals, next, server>>

\* The batch is stored, but the answer is a 5xx or comes after the client's timeout.
PostUnclear(f) ==
  /\ pc[f] = "post"
  /\ Store(ToSet(vals[f]))
  /\ unclear' = unclear \cup ToSet(vals[f])
  /\ Again(f)
  /\ UNCHANGED <<buffer, vals, next>>

\* A 4xx other than 429 ends the push at once.
PostRejected(f) ==
  /\ pc[f] = "post"
  /\ tries' = [tries EXCEPT ![f] = 0]
  /\ Goto(f, "requeue")
  /\ UNCHANGED <<buffer, vals, next, server>>

\* Returns the error without putting the batch back.
RequeueNot(f) ==
  /\ pc[f] = "requeue"
  /\ vals' = [vals EXCEPT ![f] = <<>>]
  /\ gated' = TRUE
  /\ Goto(f, After(f))
  /\ UNCHANGED <<max, values, droppedOld, stopped, tries, next, server>>

\* requeue: the batch goes back in front, the buffer is trimmed, the gate is armed.
Requeue(f) ==
  /\ pc[f] = "requeue"
  /\ SetBuffer(vals[f] \o values)
  /\ vals' = [vals EXCEPT ![f] = <<>>]
  /\ gated' = TRUE
  /\ Goto(f, After(f))
  /\ UNCHANGED <<max, stopped, tries, next, server>>

\* flush succeeded: retryAfter is reset.
Ungate(f) ==
  /\ pc[f] = "ungate"
  /\ gated' = FALSE
  /\ Goto(f, After(f))
  /\ UNCHANGED <<max, values, stopped, droppedOld, push, next, server>>

FlushStep(f) ==
  \/ FlushNothing(f) \/ FlushTake(f) \/ PostOk(f) \/ PostRefused(f) \/ PostUnclear(f)
  \/ PostRejected(f) \/ Requeue(f) \/ Ungate(f)

\* The ticker leaves a partial batch to the writers.
TickFullOnly ==
  /\ pc[Ticker] = "idle"
  /\ Len(values) >= max
  /\ Goto(Ticker, "flush")
  /\ UNCHANGED <<buffer, push, next, server>>

\* The ticker fires; its select may prefer the tick to a closed stop channel.
Tick ==
  /\ pc[Ticker] = "idle"
  /\ Goto(Ticker, "flush")
  /\ UNCHANGED <<buffer, push, next, server>>

TickerExit ==
  /\ pc[Ticker] = "idle"
  /\ stopped
  /\ Goto(Ticker, "done")
  /\ UNCHANGED <<buffer, push, next, server>>

\* Close: stop the ticker and open the gate for the final flush.
Close(c) ==
  /\ pc[c] = "idle"
  /\ stopped' = TRUE
  /\ gated' = FALSE
  /\ Goto(c, "wait")
  /\ UNCHANGED <<max, values, droppedOld, push, next, server>>

\* Close waits for the ticker before its final flush.
CloseFlush(c) ==
  /\ pc[c] = "wait"
  /\ pc[Ticker] = "done"
  /\ Goto(c, "flush")
  /\ UNCHANGED <<buffer, push, next, server>>

\* The backoff is over.
GateExpires ==
  /\ gated
  /\ gated' = FALSE
  /\ UNCHANGED <<max, values, stopped, droppedOld, pc, push, next, server>>

Configure(m) ==
  /\ m # max
  /\ max' = m
  /\ UNCHANGED <<values, gated, stopped, droppedOld, pc, push, next, server>>

\* The run is over.
Finished ==
  /\ next > MaxEntries
  /\ \A f \in Flushers : pc[f] \in {"idle", "closed", "done"}
  /\ \A c \in Closers : pc[c] = "closed"
  /\ pc[Ticker] = "done"
  /\ UNCHANGED vars

Next ==
  \/ \E w \in Writers : Write(w)
  \/ \E f \in Flushers : FlushStep(f)
  \/ Tick
  \/ TickerExit
  \/ \E c \in Closers : Close(c) \/ CloseFlush(c)
  \/ GateExpires
  \/ \E m \in BatchSizes : Configure(m)
  \/ Finished

Spec == Init /\ [][Next]_vars

\* Goroutines go on, a request ends (the client has a timeout), the ticker ticks, time
\* passes.  Nobody has to write or to close, and no request need ever succeed.
Fairness ==
  /\ \A f \in Flushers : WF_vars(FlushStep(f))
  /\ WF_vars(Tick)
  /\ SF_vars(TickerExit)
  /\ \A c \in Closers : WF_vars(CloseFlush(c))
  /\ WF_vars(GateExpires)

FairSpec == Spec /\ Fairness

----------------------------------------------------------------------------
(* Properties.                                                             *)

Labels == {"idle", "flush", "post", "requeue", "ungate", "wait", "closed", "done"}

Flags == gated \in BOOLEAN /\ stopped \in BOOLEAN

\* Every variable has its type; a goroutine holds a batch only while it pushes it.
TypeOK ==
  /\ Flags
  /\ max \in BatchSizes
  /\ values \in Seq(Ids)
  /\ pc \in [Flushers -> Labels]
  /\ vals \in [Flushers -> Seq(Ids)]
  /\ \A f \in Flushers : vals[f] # <<>> <=> pc[f] \in {"post", "requeue"}
  /\ tries \in [Flushers -> 0..Retries]
  /\ next \in 1..(MaxEntries + 1)
  /\ received \subseteq Ids /\ duplicated \subseteq Ids
  /\ droppedOld \subseteq Ids /\ unclear \subseteq Ids

held == ToSet(values) \cup UNION {ToSet(vals[f]) : f \in Flushers}

\* No written entry vanishes: it is in the buffer or in some push, the server has it, or
\* it was trimmed and counted (comments of Write, retryBufferCap and requeue).
NothingVanishes ==
  1..(next - 1) = held \cup received \cup droppedOld

\* The sink never holds an entry twice: a requeued batch was not left in the buffer, and
\* overlapping flushes never take the same entry.
HeldOnce ==
  /\ IsInjective(values)
  /\ \A f \in Flushers : IsInjective(vals[f]) /\ ToSet(vals[f]) \cap ToSet(values) = {}
  /\ \A f, g \in Flushers : f # g => ToSet(vals[f]) \cap ToSet(vals[g]) = {}

\* An entry is stored twice only if a request looked failed although it was stored.
DuplicatesOnlyUnclear == duplicated \subseteq unclear

\* The sink keeps the promise of SinkDelivery: an entry it has let go of never comes back,
\* not from a push that was under way nor by a requeue, and it is stored again only after an
\* unclear answer.
Promise == INSTANCE SinkDelivery WITH
  taken <- 1..(next - 1), stored <- received, lost <- droppedOld

KeepsPromise == Promise!Spec

\* The buffer never grows beyond its cap, however writes and failed pushes interleave.
GrowsWithinCap ==
  [][Len(values') > Len(values) => Len(values') <= retryBufferCap']_vars

\* If the ticker's requests do not all fail, a written entry is stored or trimmed in the
\* end, without any further write, unless the sink is closed first.
EventuallyPushed ==
  SF_vars(PostOk(Ticker)) =>
    \A e \in Ids : e \in held ~> (stopped \/ e \in received \cup droppedOld)

\* Close returns, whatever the server does: every push gives up after its retries.
CloseTerminates ==
  \A c \in Closers : pc[c] = "wait" ~> pc[c] = "closed"
============================================================================
