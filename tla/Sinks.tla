------------------------------- MODULE Sinks -------------------------------
(***************************************************************************)
(* The sinks of internal/adapter/outbound/sink that wrap another one, in a *)
(* chain: the async sink, the buffered sink, the toggle, and at the end a  *)
(* sink that writes: the rotating file, an alert sink (Slack, Telegram,    *)
(* Opsgenie share their delivery), or the Loki sink, which is LokiSink and *)
(* here only something that may return an error for an entry it keeps.     *)
(*                                                                         *)
(* The chain begins with the async or the buffered sink, with or without a *)
(* toggle.  One step is one access of a flag or a channel, one critical    *)
(* section, or one write of one entry by the sink at the end.  A flush     *)
(* holds the mutex of the buffered sink all along.                         *)
(***************************************************************************)
EXTENDS Integers, Sequences, FiniteSets, SequencesExt

CONSTANTS
  Writers,       \* goroutines that call Write
  Workers,       \* goroutines of the async sink
  Flusher,       \* the goroutine of the buffered sink
  Closer,        \* the goroutine that calls Close
  NoOne,         \* nobody holds the mutex
  Fronts, Leaves,\* kinds of the first and of the last sink of a chain
  QueueSize,     \* capacity of the async sink's queue
  MaxSize,       \* maxSize of the buffered sink
  CapFactor,     \* retainCap over maxSize: 10 in the code
  RotateSize,    \* entries that fill a file
  MaxBackups,    \* maxBackups of the file sink
  Unencodable,   \* entries that JSON cannot encode
  MaxAttempts, Budget, MaxGap, \* alertMaxAttempts, alertTotalBudget, alertMaxRetryGap
  Durations,     \* how long a request of an alert sink takes
  MaxEntries, MaxToggles \* bounds on the entries and on the changes of the toggle

ASSUME SinksAssumption ==
  /\ Writers \cap Workers = {} /\ Workers # {} /\ Flusher # Closer
  /\ {Flusher, Closer} \cap (Writers \cup Workers) = {}
  /\ NoOne \notin Writers \cup Workers \cup {Flusher, Closer}
  /\ Fronts \subseteq {"async", "buffered"} /\ Leaves \subseteq {"file", "alert", "loki"}
  /\ QueueSize \in Nat \ {0} /\ MaxSize \in Nat \ {0} /\ CapFactor \in Nat \ {0}
  /\ RotateSize \in Nat \ {0} /\ MaxBackups \in Nat \ {0}
  /\ MaxAttempts \in Nat \ {0} /\ Budget \in Nat /\ MaxGap \in Nat
  /\ IsFiniteSet(Durations) /\ Durations # {} /\ Durations \subseteq Nat
  /\ MaxEntries \in Nat /\ MaxToggles \in Nat

VARIABLES
  front, leaf, toggled, \* the chain
  pc, hand,      \* where each goroutine is, and the entry it holds
  queue,         \* the queue of the async sink
  closed, stopA, \* its flag and its stop channel
  draining,      \* workers that have seen it
  buffer, mu,    \* the buffer of the buffered sink, and who holds its mutex
  flushed,       \* it has been flushed before
  kept,          \* entries whose write failed in the flush in progress
  stopB,         \* its stop channel
  enabled,       \* the toggle
  files, opened, \* the log file and its backups, and whether the sink has it open
  post,          \* the delivery in progress
  \* history
  next,          \* entries written so far
  stored,        \* how often each of them was stored
  written,       \* what was appended to the log file, in order
  refused, raced, late, off, trimmed, failed, unclear, \* entries: see the actions
  misnamed,      \* a rename failed
  toggles

chain   == <<front, leaf, toggled>>
asyncs  == <<queue, closed, stopA, draining>>
buffers == <<buffer, mu, flushed, kept, stopB>>
ends    == <<files, opened, post, stored, written, unclear, misnamed>>
fates   == <<refused, raced, late, off, trimmed, failed>>
vars    == <<chain, pc, hand, asyncs, buffers, enabled, ends, fates, next, toggles>>

Actors == Writers \cup Workers \cup {Flusher, Closer}
Entries == 1..MaxEntries
NoPost == [n |-> 0, elapsed |-> 0, delay |-> 1]

Init ==
  /\ front \in Fronts /\ leaf \in Leaves /\ toggled \in BOOLEAN
  /\ pc = [a \in Actors |-> IF a \in Workers /\ front # "async" THEN "exit" ELSE "idle"]
  /\ hand = [a \in Actors |-> 0]
  /\ queue = <<>> /\ closed = FALSE /\ stopA = FALSE /\ draining = {}
  /\ buffer = <<>> /\ mu = NoOne /\ flushed = FALSE /\ kept = <<>> /\ stopB = FALSE
  /\ enabled = TRUE
  /\ files = [i \in 0..MaxBackups |-> <<>>] /\ opened = FALSE /\ post = NoPost
  /\ next = 0 /\ stored = [e \in Entries |-> 0] /\ written = <<>>
  /\ refused = {} /\ raced = {} /\ late = {} /\ off = {} /\ trimmed = {} /\ failed = {} /\ unclear = {}
  /\ misnamed = FALSE /\ toggles = 0

Go(a, p) == pc' = [pc EXCEPT ![a] = p]

----------------------------------------------------------------------------
(* The async sink.                                                         *)

\* Write: after Close it drops.
Check(w) ==
  /\ front = "async" /\ pc[w] = "idle" /\ next < MaxEntries
  /\ next' = next + 1
  /\ IF closed THEN refused' = refused \cup {next'} /\ UNCHANGED <<pc, hand>>
     ELSE Go(w, "send") /\ hand' = [hand EXCEPT ![w] = next'] /\ UNCHANGED refused
  /\ UNCHANGED <<chain, asyncs, buffers, enabled, ends, raced, late, off, trimmed, failed, toggles>>

\* The send; a full queue drops.
Send(w) ==
  /\ pc[w] = "send"
  /\ IF Len(queue) < QueueSize THEN queue' = Append(queue, hand[w]) /\ UNCHANGED refused
     ELSE refused' = refused \cup {hand[w]} /\ UNCHANGED queue
  /\ hand' = [hand EXCEPT ![w] = 0]
  /\ Go(w, "idle")
  /\ UNCHANGED <<chain, closed, stopA, draining, buffers, enabled, ends, raced, late, off, trimmed, failed,
                 next, toggles>>

\* A worker takes an entry; it chooses freely between the queue and the stop channel.
Take(w) ==
  /\ front = "async" /\ pc[w] = "idle" /\ queue # <<>>
  /\ hand' = [hand EXCEPT ![w] = Head(queue)]
  /\ queue' = Tail(queue)
  /\ Go(w, "lock")
  /\ UNCHANGED <<chain, closed, stopA, draining, buffers, enabled, ends, fates, next, toggles>>

\* Leaves at once.
SeeStopExits(w) ==
  /\ front = "async" /\ pc[w] = "idle" /\ stopA /\ w \notin draining
  /\ draining' = draining \cup {w}
  /\ Go(w, "exit")
  /\ UNCHANGED <<chain, hand, queue, closed, stopA, buffers, enabled, ends, fates, next, toggles>>

SeeStop(w) ==
  /\ front = "async" /\ pc[w] = "idle" /\ stopA /\ w \notin draining
  /\ draining' = draining \cup {w}
  /\ UNCHANGED <<chain, pc, hand, queue, closed, stopA, buffers, enabled, ends, fates, next, toggles>>

\* The queue is drained.
Exit(w) ==
  /\ pc[w] = "idle" /\ w \in draining /\ queue = <<>>
  /\ Go(w, "exit")
  /\ UNCHANGED <<chain, hand, asyncs, buffers, enabled, ends, fates, next, toggles>>

\* Close: the flag, the channel, the wait, then the Close of the buffered sink.
CloseFlag ==
  /\ front = "async" /\ pc[Closer] = "idle"
  /\ closed' = TRUE
  /\ raced' = {hand[w] : w \in {v \in Writers : pc[v] = "send"}}
  /\ Go(Closer, "stop")
  /\ UNCHANGED <<chain, hand, queue, stopA, draining, buffers, enabled, ends, refused, late, off, trimmed, failed,
                 next, toggles>>

CloseStop ==
  /\ pc[Closer] = "stop"
  /\ stopA' = TRUE
  /\ Go(Closer, "wait")
  /\ UNCHANGED <<chain, hand, queue, closed, draining, buffers, enabled, ends, fates, next, toggles>>

----------------------------------------------------------------------------
(* The buffered sink.                                                      *)

\* Write called directly.
WriteBuffered(w) ==
  /\ front = "buffered" /\ pc[w] = "idle" /\ next < MaxEntries
  /\ next' = next + 1
  /\ hand' = [hand EXCEPT ![w] = next']
  /\ Go(w, "lock")
  /\ UNCHANGED <<chain, asyncs, buffers, enabled, ends, fates, toggles>>

\* Write by a writer or a worker: flushes when the buffer is full, or the last flush is
\* longer ago than the timeout.
Put(a) ==
  /\ pc[a] = "lock" /\ a \in Writers \cup Workers /\ mu = NoOne
  /\ buffer' = Append(buffer, hand[a])
  /\ hand' = [hand EXCEPT ![a] = 0]
  /\ late' = IF pc[Closer] = "done" THEN late \cup {hand[a]} ELSE late
  /\ \/ /\ Len(buffer') >= MaxSize \/ flushed
        /\ mu' = a /\ flushed' = TRUE
        /\ Go(a, "flush")
     \/ /\ Len(buffer') < MaxSize
        /\ UNCHANGED <<mu, flushed>>
        /\ Go(a, "idle")
  /\ UNCHANGED <<chain, asyncs, kept, stopB, enabled, ends, refused, raced, off, trimmed, failed, next, toggles>>

\* The ticker, which then waits for the mutex.
Tick ==
  /\ pc[Flusher] = "idle"
  /\ Go(Flusher, "lock")
  /\ UNCHANGED <<chain, hand, asyncs, buffers, enabled, ends, fates, next, toggles>>

FlushTick ==
  /\ pc[Flusher] = "lock" /\ mu = NoOne
  /\ IF buffer = <<>> THEN Go(Flusher, "idle") /\ UNCHANGED <<mu, flushed>>
     ELSE Go(Flusher, "flush") /\ mu' = Flusher /\ flushed' = TRUE
  /\ UNCHANGED <<chain, hand, asyncs, buffer, kept, stopB, enabled, ends, fates, next, toggles>>

\* Leaves an empty buffer only.
FlusherExitEmpty ==
  /\ pc[Flusher] = "idle" /\ stopB /\ buffer = <<>>
  /\ Go(Flusher, "exit")
  /\ UNCHANGED <<chain, hand, asyncs, buffers, enabled, ends, fates, next, toggles>>

\* The stop channel.
FlusherExit ==
  /\ pc[Flusher] = "idle" /\ stopB
  /\ Go(Flusher, "exit")
  /\ UNCHANGED <<chain, hand, asyncs, buffers, enabled, ends, fates, next, toggles>>

\* The first entry of the buffer is dealt with: all stay that were tried.
WrittenKeeps(e, err) ==
  /\ buffer' = Tail(buffer)
  /\ kept' = Append(kept, e)
  /\ failed' = IF err THEN failed \cup {e} ELSE failed \ {e}

\* The first entry of the buffer is dealt with: it stays if the write failed.
Written(e, err) ==
  /\ buffer' = Tail(buffer)
  /\ kept' = IF err THEN Append(kept, e) ELSE kept
  /\ failed' = IF err THEN failed \cup {e} ELSE failed \ {e}

Flushing(a) == pc[a] = "flush" /\ buffer # <<>>

\* The toggle is off: the entry goes nowhere, without an error.
WriteOff(a) ==
  /\ Flushing(a) /\ toggled /\ ~enabled
  /\ Written(Head(buffer), FALSE)
  /\ off' = off \cup {Head(buffer)}
  /\ UNCHANGED <<chain, pc, hand, asyncs, mu, flushed, stopB, enabled, ends, refused, raced, late, trimmed,
                 next, toggles>>

Back(a) == IF a = Closer THEN Go(Closer, "inner") ELSE Go(a, "idle") 

\* Forgets what failed.
FlushEndForgets(a) ==
  /\ pc[a] = "flush" /\ buffer = <<>>
  /\ kept' = <<>> /\ UNCHANGED <<buffer, trimmed>>
  /\ mu' = IF a = Closer THEN Closer ELSE NoOne
  /\ Back(a)
  /\ UNCHANGED <<chain, hand, asyncs, flushed, stopB, enabled, ends, refused, raced, late, off, failed, next, toggles>>

\* The end of a flush: the entries that failed are the buffer, the oldest beyond retainCap
\* dropped.
FlushEnd(a) ==
  LET n    == Len(kept)
      over == IF n > MaxSize * CapFactor THEN n - MaxSize * CapFactor ELSE 0
  IN  /\ pc[a] = "flush" /\ buffer = <<>>
      /\ buffer' = SubSeq(kept, over + 1, n)
      /\ trimmed' = trimmed \cup ToSet(SubSeq(kept, 1, over))
      /\ kept' = <<>>
      /\ mu' = IF a = Closer THEN Closer ELSE NoOne
      /\ Back(a)
      /\ UNCHANGED <<chain, hand, asyncs, flushed, stopB, enabled, ends, refused, raced, late, off, failed,
                     next, toggles>>

\* Close: the stop channel, the wait for the flusher, the final flush, the inner Close.
BufferStop ==
  /\ \/ front = "async" /\ pc[Closer] = "wait" /\ \A w \in Workers : pc[w] = "exit"
     \/ front = "buffered" /\ pc[Closer] = "idle"
  /\ mu = NoOne
  /\ stopB' = TRUE
  /\ Go(Closer, "lock")
  /\ UNCHANGED <<chain, hand, asyncs, buffer, mu, flushed, kept, enabled, ends, fates, next, toggles>>

FinalFlush ==
  /\ pc[Closer] = "lock" /\ pc[Flusher] = "exit" /\ mu = NoOne
  /\ mu' = Closer /\ flushed' = TRUE
  /\ Go(Closer, "flush")
  /\ UNCHANGED <<chain, hand, asyncs, buffer, kept, stopB, enabled, ends, fates, next, toggles>>

\* The toggle does not pass Close on.
CloseInner ==
  /\ pc[Closer] = "inner"
  /\ opened' = (opened /\ toggled)
  /\ mu' = NoOne
  /\ Go(Closer, "done")
  /\ UNCHANGED <<chain, hand, asyncs, buffer, flushed, kept, stopB, enabled, files, post, stored, written, unclear,
                 misnamed, fates, next, toggles>>

----------------------------------------------------------------------------
(* The sinks at the end.                                                   *)

Writing(a, kind) == Flushing(a) /\ (toggled => enabled) /\ leaf = kind
WritingUnchanged == UNCHANGED <<chain, pc, hand, asyncs, mu, flushed, stopB, enabled, refused, raced, late, off, trimmed,
                                next, toggles>>

\* Renames the log file first, then the backups.
RotateUp(failing) ==
  LET Rename(f, i) == IF i \in failing \/ f[i] = <<>> THEN f ELSE [f EXCEPT ![i + 1] = f[i], ![i] = <<>>]
  IN  FoldLeft(Rename, files, [i \in 1..MaxBackups |-> i - 1])

\* rotateFiles: the backups from the last one down, then the log file, so that each takes a
\* name whose file has moved before; a rename that fails is passed over.
Rotate(failing) ==
  LET Moves(i) == i \in 0..MaxBackups - 1 /\ i \notin failing /\ files[i] # <<>>
  IN  [i \in 0..MaxBackups |-> IF Moves(i - 1) THEN files[i - 1]
                                ELSE IF Moves(i) THEN <<>> ELSE files[i]]

\* The file cannot be opened, first or after a rotation; the next Write tries again.
FileRefused(a) ==
  /\ Writing(a, "file")
  /\ \/ ~opened /\ UNCHANGED <<files, opened, misnamed>>
     \/ /\ opened /\ Len(files[0]) >= RotateSize
        /\ opened' = FALSE
        /\ \E failing \in SUBSET (0..MaxBackups - 1) :
             files' = Rotate(failing) /\ misnamed' = (misnamed \/ failing # {})
  /\ Written(Head(buffer), TRUE)
  /\ UNCHANGED <<post, stored, written, unclear>> /\ WritingUnchanged

\* Opened if need be, rotated if full, the line is encoded and appended.
FileWrite(a) ==
  LET e == Head(buffer)
      Append_(f) == IF e \in Unencodable THEN f ELSE [f EXCEPT ![0] = Append(@, e)]
  IN  /\ Writing(a, "file")
      /\ opened' = TRUE
      /\ IF Len(files[0]) < RotateSize
         THEN files' = Append_(files) /\ UNCHANGED misnamed
         ELSE \E failing \in SUBSET (0..MaxBackups - 1) :
                files' = Append_(Rotate(failing)) /\ misnamed' = (misnamed \/ failing # {})
      /\ Written(e, e \in Unencodable)
      /\ IF e \in Unencodable THEN UNCHANGED <<stored, written>>
         ELSE stored' = [stored EXCEPT ![e] = @ + 1] /\ written' = Append(written, e)
      /\ UNCHANGED <<post, unclear>> /\ WritingUnchanged

\* deliver tries again if the failure is worth it, attempts are left, and the next one
\* begins within the budget.
Again(p) == p.n < MaxAttempts /\ p.elapsed + p.delay <= Budget

Requested(d) == [post EXCEPT !.n = @ + 1, !.elapsed = @ + d]

\* One request: stored, refused for good, or failed, after which it may have been stored.
AlertPost(a) ==
  LET e == Head(buffer)
  IN  /\ Writing(a, "alert")
      /\ \E d \in Durations :
           LET p == Requested(d)
           IN  \/ /\ post' = NoPost
                  /\ stored' = [stored EXCEPT ![e] = @ + 1]
                  /\ Written(e, FALSE) /\ UNCHANGED unclear
               \/ /\ post' = NoPost
                  /\ Written(e, TRUE) /\ UNCHANGED <<stored, unclear>>
               \/ /\ \/ UNCHANGED <<stored, unclear>>
                     \/ stored[e] < 2 /\ stored' = [stored EXCEPT ![e] = @ + 1] /\ unclear' = unclear \cup {e}
                  /\ IF Again(p)
                     THEN /\ post' = [p EXCEPT !.elapsed = @ + p.delay,
                                               !.delay = IF @ < MaxGap THEN 2 * @ ELSE @]
                          /\ UNCHANGED <<buffer, kept, failed>>
                     ELSE post' = NoPost /\ Written(e, TRUE)
      /\ UNCHANGED <<files, opened, written, misnamed>> /\ WritingUnchanged

\* Loki: buffered, or the push failed, and both sinks keep the entry.
LokiWrite(a) ==
  LET e == Head(buffer)
  IN  /\ Writing(a, "loki")
      /\ \E err \in BOOLEAN :
           /\ err => stored[e] < 2
           /\ stored' = [stored EXCEPT ![e] = @ + 1]
           /\ unclear' = IF err THEN unclear \cup {e} ELSE unclear
           /\ Written(e, err)
      /\ UNCHANGED <<files, opened, post, written, misnamed>> /\ WritingUnchanged

----------------------------------------------------------------------------
\* Configure of the toggle.
Toggle ==
  /\ toggled /\ toggles < MaxToggles
  /\ toggles' = toggles + 1
  /\ enabled' = ~enabled
  /\ UNCHANGED <<chain, pc, hand, asyncs, buffers, ends, fates, next>>

Flush(a) == WriteOff(a) \/ FileRefused(a) \/ FileWrite(a) \/ AlertPost(a) \/ LokiWrite(a) \/ FlushEnd(a)

WorkerStep(w) == Take(w) \/ SeeStop(w) \/ Exit(w)

CloseStep == CloseStop \/ BufferStop \/ FinalFlush \/ CloseInner

Next ==
  \/ \E w \in Writers : Check(w) \/ Send(w) \/ WriteBuffered(w)
  \/ \E w \in Workers : WorkerStep(w)
  \/ \E a \in Writers \cup Workers : Put(a)
  \/ Tick \/ FlushTick \/ FlusherExit
  \/ \E a \in Actors : Flush(a)
  \/ CloseFlag \/ CloseStep \/ Toggle

Spec == Init /\ [][Next]_vars

\* Goroutines go on; the select of the flusher does not pass the stop channel over for ever,
\* nor the mutex somebody who waits for it.  Nobody has to call Close.
Fairness ==
  /\ \A w \in Writers : WF_vars(Send(w))
  /\ \A w \in Workers : WF_vars(WorkerStep(w))
  /\ \A a \in Writers \cup Workers : SF_vars(Put(a))
  /\ WF_vars(FlushTick) /\ SF_vars(FlusherExit)
  /\ WF_vars(\E a \in Actors : Flush(a))
  /\ SF_vars(CloseStep)

FairSpec == Spec /\ Fairness

----------------------------------------------------------------------------
(* Properties.                                                             *)

Held(e) == e \in ToSet(queue) \cup {hand[a] : a \in Actors} \cup ToSet(buffer) \cup ToSet(kept)

\* No entry vanishes: it is on its way, or stored, or was refused by the async sink, let go
\* by the toggle, or dropped from a buffer that failed writes had filled.
Accounted ==
  \A e \in 1..next : Held(e) \/ stored[e] > 0 \/ e \in refused \cup off \cup trimmed

\* When Close has returned, the queue holds only entries whose Write was under way when it
\* began, the buffer only what the sink at the end refused or what was written since, and
\* the file is closed unless a toggle or a later write has left it open (CHANGELOG.md:245:
\* "Close now drains queued entries").
CloseDrains ==
  pc[Closer] = "done" =>
    /\ ToSet(queue) \subseteq raced
    /\ \A w \in Workers : pc[w] = "exit" /\ hand[w] = 0
    /\ ToSet(buffer) \cup ToSet(kept) \subseteq failed \cup late
    /\ opened => toggled \/ late # {}

\* An entry is stored twice, or stored and still held for another write, only if the sink
\* at the end returned an error for an entry it had stored or kept.
DuplicatesExplained ==
  \A e \in 1..next : stored[e] > 1 \/ (stored[e] = 1 /\ Held(e)) => e \in unclear

\* A chain of sinks keeps the promise of SinkDelivery, as each of its sinks should: an entry
\* that was stored, refused, let go or trimmed is not in any of them again.
Promise == INSTANCE SinkDelivery WITH
  Ids    <- Entries,
  taken  <- 1..next,
  held   <- {e \in 1..next : Held(e)},
  stored <- {e \in 1..next : stored[e] > 0},
  lost   <- refused \cup off \cup trimmed

KeepsPromise == Promise!Spec

\* How many of the first n entries are older than those of the backup i, when r of them are
\* in the log file and every backup is full.
Older(n, r, i) == IF i * RotateSize < n - r THEN n - r - i * RotateSize ELSE 0

\* What was last written is in the log file, in that order (file_test.go,
\* TestOptimal_RotationRenameFailureDoesNotTruncate); and the backups have what was written
\* before, each what would fill a file and none twice, back to the first entry or to what
\* MaxBackups full backups have pushed out, unless a rename failed.
FilesInOrder ==
  LET older(i) == Older(Len(written), Len(files[0]), i)
  IN  /\ files[0] = SubSeq(written, older(0) + 1, Len(written))
      /\ ~misnamed => \A i \in 1..MaxBackups : files[i] = SubSeq(written, older(i) + 1, older(i - 1))

\* Close returns, whatever the sink at the end does.
CloseReturns == pc[Closer] \notin {"idle", "done"} ~> pc[Closer] = "done"
============================================================================
