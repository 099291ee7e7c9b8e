--------------------------- MODULE AsyncPipeline ---------------------------
(***************************************************************************)
(* The asynchronous logging pipeline: AsyncPipeline and AsyncLogBrt of     *)
(* internal/core/service/base/async.go.                                    *)
(*                                                                         *)
(*   callers --logChan--> batch worker --batchChan--> sink workers -> sinks *)
(*      |                                                              ^   *)
(*      +------------- WriteSync, when WriteAsync says no -------------+   *)
(*                                                                         *)
(* A caller is a goroutine inside AsyncLogBrt.log; each step of it is one  *)
(* channel operation or one atomic of WriteAsync.  Entries are the numbers *)
(* 1..MaxEntries, in the order log was called with them.  The select of a  *)
(* goroutine is a choice among its ready cases.  A WaitGroup is the        *)
(* condition it waits for.  Writing one entry to every sink is one step:   *)
(* an error of a sink is counted and changes nothing else.  The errors and *)
(* batches counters are only ever read by Stats and are left out.          *)
(***************************************************************************)
EXTENDS Naturals, Sequences, FiniteSets, SequencesExt

CONSTANTS
  Callers,        \* goroutines that log
  Stoppers,       \* goroutines that call Stop, once each
  WorkerSets,     \* the sets of sink workers start() may launch; {} is workerCount <= 0
  Policies,       \* the back-pressure policies in use
  BatchSize,      \* batchSize of the constructor
  QueueFactor,    \* capacity of logChan in batches: 4 in the code
  BatchFactor,    \* capacity of batchChan per worker: 2 in the code
  MaxEntries      \* bound on the number of log calls

AllPolicies == {"DropLatest", "DropOldest", "BlockShort"}

ASSUME ConstantsAssumption ==
  /\ BatchSize \in Nat \ {0}
  /\ QueueFactor \in Nat \ {0}
  /\ BatchFactor \in Nat \ {0}
  /\ MaxEntries \in Nat
  /\ Policies \subseteq AllPolicies
  /\ Policies # {}
  /\ WorkerSets # {}
  /\ \A W \in WorkerSets : IsFiniteSet(W)

Ids == 1..MaxEntries
Workers == UNION WorkerSets
NoEntry == 0

VARIABLES
  workers,        \* the sink workers start() launched
  policy,         \* the back-pressure policy, an atomic
  \* callers
  at,             \* where in log each caller is
  entry,          \* the entry it carries
  next,           \* the next entry to be logged
  \* the queue
  logChan,
  dropped,        \* the dropped counter
  \* the batch worker
  batcher,        \* where it is
  batch,          \* the batch it fills
  \* the sink workers
  batchChan,
  hand,           \* what is left of the batch each worker is writing
  exited,         \* the workers that have returned
  processed,      \* the processed counter
  \* shutdown
  once,           \* stopOnce
  stopped,
  quit,           \* the quit channel is closed
  batchClosed,    \* batchChan is closed
  stopper,        \* where in Stop each stopper is
  \* history
  accepted,       \* entries put in logChan, in that order
  early,          \* those put there before stopped was set
  evicted,        \* entries a DropOldest caller took out of logChan
  delivered       \* entries in the order the sinks were given them

callerVars   == <<at, entry, next>>
queueVars    == <<logChan, dropped, accepted, early, evicted>>
batcherVars  == <<batcher, batch>>
workerVars   == <<hand, exited, processed>>
shutdownVars == <<once, stopped, quit, batchClosed, stopper>>
config       == <<workers, policy>>
vars == <<config, callerVars, queueVars, batcherVars, batchChan, workerVars,
          shutdownVars, delivered>>

LogCap   == BatchSize * QueueFactor
BatchCap == Cardinality(workers) * BatchFactor

\* NewAsyncPipeline and start: the queues are empty, every goroutine at its top.
Init ==
  /\ workers \in WorkerSets
  /\ policy \in Policies
  /\ at = [c \in Callers |-> "idle"]
  /\ entry = [c \in Callers |-> NoEntry]
  /\ next = 1
  /\ logChan = <<>> /\ dropped = 0
  /\ batcher = "select" /\ batch = <<>>
  /\ batchChan = <<>>
  /\ hand = [w \in Workers |-> <<>>] /\ exited = {} /\ processed = 0
  /\ once = "new" /\ stopped = FALSE /\ quit = FALSE /\ batchClosed = FALSE
  /\ stopper = [s \in Stoppers |-> "idle"]
  /\ accepted = <<>> /\ early = {} /\ evicted = {} /\ delivered = <<>>

----------------------------------------------------------------------------
(* Callers: AsyncLogBrt.log and WriteAsync.                                *)

Goto(c, l) == at' = [at EXCEPT ![c] = l]

\* Every sink is given the entry.
Deliver(e) == delivered' = Append(delivered, e)

\* log: the level passes and the entry is built.
Log(c) ==
  /\ at[c] = "idle"
  /\ next <= MaxEntries
  /\ entry' = [entry EXCEPT ![c] = next]
  /\ next' = next + 1
  /\ Goto(c, "check")
  /\ UNCHANGED <<config, queueVars, batcherVars, batchChan, workerVars,
                 shutdownVars, delivered>>

\* WriteAsync: the stopped check, then the policy that says how to send.
CheckStopped(c) ==
  /\ at[c] = "check"
  /\ Goto(c, IF stopped THEN "sync" ELSE policy)
  /\ UNCHANGED <<config, entry, next, queueVars, batcherVars, batchChan, workerVars,
                 shutdownVars, delivered>>

\* Off by one.
FullLate == Len(logChan) > LogCap

Full == Len(logChan) >= LogCap

\* The send on logChan succeeds and WriteAsync returns true.
Enqueue(c) ==
  /\ at[c] \in AllPolicies \cup {"resend"}
  /\ ~Full
  /\ logChan' = Append(logChan, entry[c])
  /\ accepted' = Append(accepted, entry[c])
  /\ early' = IF stopped THEN early ELSE early \cup {entry[c]}
  /\ entry' = [entry EXCEPT ![c] = NoEntry]
  /\ Goto(c, "idle")
  /\ UNCHANGED <<config, next, dropped, evicted, batcherVars, batchChan, workerVars,
                 shutdownVars, delivered>>

\* WriteAsync counts the incoming entry as dropped and returns false.
Reject(c) ==
  /\ dropped' = dropped + 1
  /\ Goto(c, "sync")
  /\ UNCHANGED <<config, entry, next, logChan, accepted, early, evicted, batcherVars,
                 batchChan, workerVars, shutdownVars, delivered>>

\* DropLatest, and the second try of DropOldest: the queue is full.
RejectFull(c) ==
  /\ at[c] \in {"DropLatest", "resend"}
  /\ Full
  /\ Reject(c)

\* BlockShort: the timer fires, whether or not there is room by now.
BlockTimeout(c) ==
  /\ at[c] = "BlockShort"
  /\ Reject(c)

\* DropOldest: the first try found the queue full.
FindFull(c) ==
  /\ at[c] = "DropOldest"
  /\ Full
  /\ Goto(c, "evict")
  /\ UNCHANGED <<config, entry, next, queueVars, batcherVars, batchChan, workerVars,
                 shutdownVars, delivered>>

\* DropOldest: take the oldest entry out, whoever put it there.
Evict(c) ==
  /\ at[c] = "evict"
  /\ logChan # <<>>
  /\ evicted' = evicted \cup {Head(logChan)}
  /\ logChan' = Tail(logChan)
  /\ dropped' = dropped + 1
  /\ Goto(c, "resend")
  /\ UNCHANGED <<config, entry, next, accepted, early, batcherVars, batchChan,
                 workerVars, shutdownVars, delivered>>

\* The receive has no default case: the caller waits for an entry to evict.
EvictWaits(c) == at[c] = "evict" /\ FALSE /\ Reject(c)

\* DropOldest: others emptied the queue meanwhile, and the incoming entry is dropped.
EvictNothing(c) ==
  /\ at[c] = "evict"
  /\ logChan = <<>>
  /\ Reject(c)

\* log: WriteAsync said no, and the caller writes the entry itself.
WriteSync(c) ==
  /\ at[c] = "sync"
  /\ Deliver(entry[c])
  /\ entry' = [entry EXCEPT ![c] = NoEntry]
  /\ Goto(c, "idle")
  /\ UNCHANGED <<config, next, queueVars, batcherVars, batchChan, workerVars,
                 shutdownVars>>

CallerStep(c) ==
  \/ CheckStopped(c) \/ Enqueue(c) \/ RejectFull(c) \/ BlockTimeout(c)
  \/ FindFull(c) \/ Evict(c) \/ EvictNothing(c) \/ WriteSync(c)

SetBackpressurePolicy(p) ==
  /\ p # policy
  /\ policy' = p
  /\ UNCHANGED <<workers, callerVars, queueVars, batcherVars, batchChan, workerVars,
                 shutdownVars, delivered>>

----------------------------------------------------------------------------
(* The batch worker.  "flush" goes back to the select loop, "drainFlush" to *)
(* the drain loop, and "lastFlush" ends the goroutine.                      *)

FlushLabels == {"flush", "drainFlush", "lastFlush"}
AfterFlush  == [flush |-> "select", drainFlush |-> "drain", lastFlush |-> "done"]

\* The batch is filled at its front.
ReceiveFront(from, flush) ==
  /\ batcher = from
  /\ logChan # <<>>
  /\ batch' = <<Head(logChan)>> \o batch
  /\ logChan' = Tail(logChan)
  /\ batcher' = IF Len(batch') >= BatchSize THEN flush ELSE from
  /\ UNCHANGED <<config, callerVars, dropped, accepted, early, evicted, batchChan,
                 workerVars, shutdownVars, delivered>>

\* An entry arrives; a full batch is flushed.
Receive(from, flush) ==
  /\ batcher = from
  /\ logChan # <<>>
  /\ batch' = Append(batch, Head(logChan))
  /\ logChan' = Tail(logChan)
  /\ batcher' = IF Len(batch') >= BatchSize THEN flush ELSE from
  /\ UNCHANGED <<config, callerVars, dropped, accepted, early, evicted, batchChan,
                 workerVars, shutdownVars, delivered>>

\* The worker goes on to the label l with its batch.
BatcherGoto(l) ==
  /\ batcher' = l
  /\ UNCHANGED <<config, callerVars, queueVars, batch, batchChan, workerVars,
                 shutdownVars, delivered>>

\* Only a full batch is flushed.
TickFullOnly == batcher = "select" /\ Len(batch) >= BatchSize /\ BatcherGoto("flush")
\* The worker leaves without draining the queue.
QuitNoDrain  == batcher = "select" /\ quit /\ BatcherGoto("lastFlush")

BatchReceive == Receive("select", "flush")
BatchTick    == batcher = "select" /\ batch # <<>> /\ BatcherGoto("flush")
BatchQuit    == batcher = "select" /\ quit /\ BatcherGoto("drain")
DrainReceive == Receive("drain", "drainFlush")
DrainEnd     == batcher = "drain" /\ logChan = <<>> /\ BatcherGoto("lastFlush")

\* flushBatch with sink workers: send a copy of the batch, blocking while batchChan is full.
SendBatch ==
  /\ batcher \in FlushLabels
  /\ workers # {}
  /\ batch # <<>>
  /\ Len(batchChan) < BatchCap
  /\ batchChan' = Append(batchChan, batch)
  /\ batch' = <<>>
  /\ batcher' = AfterFlush[batcher]
  /\ UNCHANGED <<config, callerVars, queueVars, workerVars, shutdownVars, delivered>>

\* flushBatch without sink workers: write the next entry of the batch here.
WriteInline ==
  /\ batcher \in FlushLabels
  /\ workers = {}
  /\ batch # <<>>
  /\ Deliver(Head(batch))
  /\ processed' = processed + 1
  /\ batch' = Tail(batch)
  /\ UNCHANGED <<config, callerVars, queueVars, batcher, batchChan, hand, exited,
                 shutdownVars>>

\* flushBatch is done with the batch, or had none to begin with.
FlushEmpty ==
  /\ batcher \in FlushLabels
  /\ batch = <<>>
  /\ BatcherGoto(AfterFlush[batcher])

BatcherStep ==
  \/ BatchReceive \/ BatchTick \/ BatchQuit \/ DrainReceive \/ DrainEnd
  \/ SendBatch \/ WriteInline \/ FlushEmpty

----------------------------------------------------------------------------
(* The sink workers: for batch := range ap.batchChan.                      *)

TakeBatch(w) ==
  /\ w \in workers \ exited
  /\ hand[w] = <<>>
  /\ batchChan # <<>>
  /\ hand' = [hand EXCEPT ![w] = Head(batchChan)]
  /\ batchChan' = Tail(batchChan)
  /\ UNCHANGED <<config, callerVars, queueVars, batcherVars, exited, processed,
                 shutdownVars, delivered>>

\* Counts batches instead of entries.
WriteUncounted(w) ==
  /\ hand[w] # <<>>
  /\ Deliver(Head(hand[w]))
  /\ processed' = IF Len(hand[w]) = 1 THEN processed + 1 ELSE processed
  /\ hand' = [hand EXCEPT ![w] = Tail(@)]
  /\ UNCHANGED <<config, callerVars, queueVars, batcherVars, batchChan, exited,
                 shutdownVars>>

WriteEntry(w) ==
  /\ hand[w] # <<>>
  /\ Deliver(Head(hand[w]))
  /\ processed' = processed + 1
  /\ hand' = [hand EXCEPT ![w] = Tail(@)]
  /\ UNCHANGED <<config, callerVars, queueVars, batcherVars, batchChan, exited,
                 shutdownVars>>

\* The range ends: batchChan is closed and empty.
WorkerExit(w) ==
  /\ w \in workers \ exited
  /\ hand[w] = <<>>
  /\ batchChan = <<>> /\ batchClosed
  /\ exited' = exited \cup {w}
  /\ UNCHANGED <<config, callerVars, queueVars, batcherVars, batchChan, hand,
                 processed, shutdownVars, delivered>>

WorkerStep(w) == TakeBatch(w) \/ WriteEntry(w) \/ WorkerExit(w)

----------------------------------------------------------------------------
(* Stop.  sync.Once runs the body in its first caller; the others wait.    *)

StopperGoto(s, l) ==
  /\ stopper' = [stopper EXCEPT ![s] = l]
  /\ UNCHANGED <<config, callerVars, queueVars, batcherVars, batchChan, workerVars,
                 delivered>>

\* The first call: stopped.Store(true).
StopFirst(s) ==
  /\ stopper[s] = "idle"
  /\ once = "new"
  /\ once' = "running"
  /\ stopped' = TRUE
  /\ StopperGoto(s, "closeQuit")
  /\ UNCHANGED <<quit, batchClosed>>

\* Another call returns at once, as with an atomic flag instead of sync.Once.
StopAgainReturns(s) ==
  /\ stopper[s] = "idle"
  /\ once # "new"
  /\ StopperGoto(s, "returned")
  /\ UNCHANGED <<once, stopped, quit, batchClosed>>

\* Another call waits inside Once.
StopAgain(s) ==
  /\ stopper[s] = "idle"
  /\ once # "new"
  /\ StopperGoto(s, "onceWait")
  /\ UNCHANGED <<once, stopped, quit, batchClosed>>

\* Forgets to tell the batch worker.
ForgetQuit(s) ==
  /\ stopper[s] = "closeQuit"
  /\ StopperGoto(s, "batchWait")
  /\ UNCHANGED <<once, stopped, quit, batchClosed>>

CloseQuit(s) ==
  /\ stopper[s] = "closeQuit"
  /\ quit' = TRUE
  /\ StopperGoto(s, "batchWait")
  /\ UNCHANGED <<once, stopped, batchClosed>>

\* Does not wait for the batch worker.
CloseEarly(s) ==
  /\ stopper[s] = "batchWait"
  /\ batchClosed' = TRUE
  /\ StopperGoto(s, "sinkWait")
  /\ UNCHANGED <<once, stopped, quit>>

\* batchWg.Wait, then close(batchChan).
CloseBatchChan(s) ==
  /\ stopper[s] = "batchWait"
  /\ batcher = "done"
  /\ batchClosed' = TRUE
  /\ StopperGoto(s, "sinkWait")
  /\ UNCHANGED <<once, stopped, quit>>

\* sinkWg.Wait, then the Once is done.
StopReturn(s) ==
  /\ stopper[s] = "sinkWait"
  /\ exited = workers
  /\ once' = "done"
  /\ StopperGoto(s, "returned")
  /\ UNCHANGED <<stopped, quit, batchClosed>>

OnceReturn(s) ==
  /\ stopper[s] = "onceWait"
  /\ once = "done"
  /\ StopperGoto(s, "returned")
  /\ UNCHANGED <<once, stopped, quit, batchClosed>>

StopStep(s) == CloseQuit(s) \/ CloseBatchChan(s) \/ StopReturn(s) \/ OnceReturn(s)

----------------------------------------------------------------------------
\* The run is over: every call was made and has returned.
Finished ==
  /\ next > MaxEntries
  /\ \A c \in Callers : at[c] = "idle"
  /\ \A s \in Stoppers : stopper[s] = "returned"
  /\ UNCHANGED vars

Next ==
  \/ \E c \in Callers : Log(c) \/ CallerStep(c)
  \/ \E p \in Policies : SetBackpressurePolicy(p)
  \/ BatcherStep
  \/ \E w \in Workers : WorkerStep(w)
  \/ \E s \in Stoppers : StopFirst(s) \/ StopAgain(s) \/ StopStep(s)
  \/ Finished

Spec == Init /\ [][Next]_vars

\* The Go scheduler runs every goroutine that can go on; sinks return from Write.
\* Nobody has to log, to change the policy or to call Stop.
Fairness ==
  /\ \A c \in Callers : WF_vars(CallerStep(c))
  /\ WF_vars(BatcherStep)
  /\ WF_vars(BatchTick)
  /\ WF_vars(BatchQuit)
  /\ \A w \in Workers : WF_vars(WorkerStep(w))
  /\ \A s \in Stoppers : WF_vars(StopStep(s))

FairSpec == Spec /\ Fairness
----------------------------------------------------------------------------
(* Properties.                                                             *)

CallerLabels  == {"idle", "check", "evict", "resend", "sync"} \cup AllPolicies
BatcherLabels == {"select", "drain", "done"} \cup FlushLabels
StopperLabels == {"idle", "closeQuit", "batchWait", "sinkWait", "onceWait", "returned"}

\* Every variable has its type, and neither channel holds more than its capacity.
TypeOK ==
  /\ workers \in WorkerSets /\ policy \in Policies
  /\ at \in [Callers -> CallerLabels]
  /\ entry \in [Callers -> Ids \cup {NoEntry}]
  /\ \A c \in Callers : at[c] # "idle" => entry[c] \in Ids
  /\ next \in 1..(MaxEntries + 1)
  /\ logChan \in Seq(Ids) /\ Len(logChan) <= LogCap /\ dropped \in Nat
  /\ batcher \in BatcherLabels
  /\ batch \in Seq(Ids) /\ Len(batch) <= BatchSize
  /\ batcher \in {"select", "drain"} => Len(batch) < BatchSize
  /\ batchChan \in Seq(Seq(Ids)) /\ Len(batchChan) <= BatchCap
  /\ hand \in [Workers -> Seq(Ids)] /\ exited \subseteq workers /\ processed \in Nat
  /\ once \in {"new", "running", "done"}
  /\ stopped \in BOOLEAN /\ quit \in BOOLEAN /\ batchClosed \in BOOLEAN
  /\ stopper \in [Stoppers -> StopperLabels]
  /\ accepted \in Seq(Ids) /\ delivered \in Seq(Ids)
  /\ early \subseteq Ids /\ evicted \subseteq Ids

\* The batch worker never sends on batchChan after Stop closed it, which would panic, and
\* a sink worker leaves only when no batch can come any more (comment in flushBatch).
NoSendOnClosed ==
  /\ batchClosed => batcher = "done"
  /\ exited # {} => batchClosed /\ batchChan = <<>>

\* When Stop has returned, to its first caller or to any other, no entry is left between
\* the queue and the sinks: every goroutine is gone and none of them kept anything.
StopLeavesNothingBehind ==
  (\E s \in Stoppers : stopper[s] = "returned") =>
    /\ batcher = "done" /\ batch = <<>>
    /\ batchChan = <<>>
    /\ exited = workers
    /\ \A w \in Workers : hand[w] = <<>>

\* d comes before e in s.
Before(s, d, e) == \E i, j \in DOMAIN s : i < j /\ s[i] = d /\ s[j] = e

\* With at most one sink worker, what passes through the queue reaches the sinks in the
\* order in which it was accepted, also across evictions, drain and partial batches.
SingleWorkerFIFO ==
  Cardinality(workers) <= 1 =>
    \A d, e \in ToSet(accepted) : Before(delivered, d, e) => Before(accepted, d, e)

\* After shutdown the counters of Stats explain every accepted entry: it was processed,
\* evicted (part of dropped), or it is still counted by QueueSize.
StatsReconcile ==
  (once = "done" /\ \A c \in Callers : at[c] = "idle") =>
    processed + Cardinality(evicted) + Len(logChan) = Len(accepted)

\* The pipeline keeps the promise of LogDelivery: an entry is written at most once, never
\* after it was given up, and Stop does not return before every entry that was accepted
\* before it was called has been written or evicted.
pendingIds == {e \in 1..(next - 1) : e \notin ToSet(delivered) \cup evicted}

Promise == INSTANCE LogDelivery WITH
  pending <- pendingIds,
  owned   <- early \cap pendingIds,
  written <- delivered,
  lost    <- evicted,
  phase   <- IF ~stopped THEN "open" ELSE IF once = "done" THEN "closed" ELSE "closing"

KeepsPromise == Promise!Spec

\* Stop returns to every caller, whatever is queued and whatever the callers do.
StopTerminates ==
  \A s \in Stoppers : stopper[s] # "idle" ~> stopper[s] = "returned"

\* A log call always returns: no policy waits for room that may never come.
LogReturns ==
  \A c \in Callers : at[c] # "idle" ~> at[c] = "idle"

\* Without any Stop, and without later traffic to fill the batch, an accepted entry is
\* written or evicted in the end: the ticker flushes a batch that stays partial.
AcceptedIsResolved ==
  \A e \in Ids : e \in early ~> e \in ToSet(delivered) \cup evicted

\* No accepted entry is left in the queue once Stop has returned (comment of Stop: pending
\* entries in logChan are batched and flushed).
NothingStranded ==
  once = "done" => logChan = <<>>
============================================================================
