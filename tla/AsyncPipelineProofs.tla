------------------------ MODULE AsyncPipelineProofs ------------------------
(***************************************************************************)
(* Proofs about AsyncPipeline, for any callers, stoppers, worker sets and  *)
(* bounds that satisfy ConstantsAssumption: its types, its shutdown, and   *)
(* that it implements LogDelivery.                                         *)
(*                                                                         *)
(* The refinement rests on an account of where the pending entries are: a  *)
(* caller carries it, or it is in logChan, in the batch being filled, in a *)
(* batch of batchChan or in the hand of a worker, and in one of them only. *)
(***************************************************************************)
EXTENDS AsyncPipeline, SequenceLemmas, FiniteSetTheorems, SequenceTheorems, TLAPS

\* The capacities are natural numbers, whatever workers start() launched.
LEMMA CapacityType ==
  ASSUME workers \in WorkerSets
  PROVE  LogCap \in Nat /\ BatchCap \in Nat
<1>1. LogCap \in Nat
  BY ConstantsAssumption DEF LogCap
<1>2. Cardinality(workers) \in Nat
  BY ConstantsAssumption, FS_CardinalityType
<1>. QED
  BY <1>1, <1>2, ConstantsAssumption DEF BatchCap

LEMMA InitTypeOK == Init => TypeOK
<1>. SUFFICES ASSUME Init PROVE TypeOK
  OBVIOUS
<1>1. LogCap \in Nat /\ BatchCap \in Nat
  BY CapacityType DEF Init
<1>2. \A S : <<>> \in Seq(S) /\ Len(<<>>) = 0
  BY EmptySeq
<1>3. policy \in Policies /\ at \in [Callers -> CallerLabels]
  BY DEF Init, CallerLabels
<1>4. next \in 1..(MaxEntries + 1) /\ entry \in [Callers -> Ids \cup {NoEntry}]
  BY ConstantsAssumption DEF Init
<1>5. hand \in [Workers -> Seq(Ids)]
  BY <1>2 DEF Init
<1>6. Len(logChan) <= LogCap /\ Len(batchChan) <= BatchCap /\ Len(batch) < BatchSize
  BY <1>1, <1>2, ConstantsAssumption DEF Init
<1>7. stopper \in [Stoppers -> StopperLabels]
  BY DEF Init, StopperLabels
<1>8. batcher \in BatcherLabels
  BY DEF Init, BatcherLabels
<1>9. Len(batch) <= BatchSize
  BY <1>2, ConstantsAssumption DEF Init
<1>. QED
  BY <1>2, <1>3, <1>4, <1>5, <1>6, <1>7, <1>8, <1>9 DEF Init, TypeOK

LEMMA NextTypeOK == TypeOK /\ [Next]_vars => TypeOK'
<1>. SUFFICES ASSUME TypeOK, [Next]_vars PROVE TypeOK'
  OBVIOUS
<1>. USE DEF TypeOK, CallerLabels, BatcherLabels, StopperLabels, FlushLabels, AfterFlush,
             callerVars, queueVars, batcherVars, workerVars, shutdownVars, config
<1>0. LogCap \in Nat /\ BatchCap \in Nat /\ LogCap' = LogCap
  BY CapacityType DEF LogCap
<1>c. workers' = workers => BatchCap' = BatchCap
  BY DEF BatchCap
<1>1. ASSUME NEW c \in Callers, Log(c) PROVE TypeOK'
  BY <1>0, <1>c, <1>1, ConstantsAssumption DEF Log, Goto, Ids, NoEntry
<1>2. ASSUME NEW c \in Callers, CheckStopped(c) PROVE TypeOK'
  BY <1>0, <1>c, <1>2, ConstantsAssumption DEF CheckStopped, Goto
<1>3. ASSUME NEW c \in Callers, Enqueue(c) PROVE TypeOK'
  <2>1. entry[c] \in Ids
    BY <1>3 DEF Enqueue, AllPolicies
  <2>2. logChan' \in Seq(Ids) /\ Len(logChan') <= LogCap
    BY <1>0, <1>3, <2>1 DEF Enqueue, Full
  <2>3. accepted' \in Seq(Ids) /\ early' \subseteq Ids
    BY <1>3, <2>1 DEF Enqueue
  <2>. QED
    BY <1>0, <1>c, <1>3, <2>2, <2>3 DEF Enqueue, Goto
<1>4. ASSUME NEW c \in Callers, Reject(c), at[c] # "idle" PROVE TypeOK'
  BY <1>0, <1>c, <1>4 DEF Reject, Goto
<1>5. ASSUME NEW c \in Callers, FindFull(c) PROVE TypeOK'
  BY <1>0, <1>c, <1>5 DEF FindFull, Goto
<1>6. ASSUME NEW c \in Callers, Evict(c) PROVE TypeOK'
  <2>1. Head(logChan) \in Ids /\ Tail(logChan) \in Seq(Ids)
        /\ Len(Tail(logChan)) <= LogCap
    BY <1>0, <1>6 DEF Evict
  <2>. QED
    BY <1>0, <1>c, <1>6, <2>1 DEF Evict, Goto
<1>7. ASSUME NEW c \in Callers, WriteSync(c) PROVE TypeOK'
  <2>1. delivered' \in Seq(Ids)
    BY <1>7 DEF WriteSync, Deliver
  <2>. QED
    BY <1>0, <1>c, <1>7, <2>1 DEF WriteSync, Goto
<1>8. ASSUME NEW p \in Policies, SetBackpressurePolicy(p) PROVE TypeOK'
  BY <1>0, <1>c, <1>8 DEF SetBackpressurePolicy
<1>9. ASSUME NEW from \in {"select", "drain"}, NEW flush \in FlushLabels,
             Receive(from, flush)
      PROVE  TypeOK'
  <2>1. Head(logChan) \in Ids /\ Tail(logChan) \in Seq(Ids)
        /\ Len(Tail(logChan)) <= LogCap
    BY <1>0, <1>9 DEF Receive
  <2>2. batch' \in Seq(Ids) /\ Len(batch') = Len(batch) + 1
    BY <1>9, <2>1 DEF Receive
  <2>3. Len(batch) \in Nat /\ Len(batch) < BatchSize
    BY <1>9 DEF Receive
  <2>4. Len(batch') <= BatchSize
    BY <2>2, <2>3, ConstantsAssumption
  <2>5. batcher' \in {"select", "drain"} => Len(batch') < BatchSize
    BY <1>9, <2>2, <2>3, ConstantsAssumption DEF Receive
  <2>6. batcher' \in BatcherLabels
    BY <1>9 DEF Receive
  <2>. QED
    BY <1>0, <1>c, <1>9, <2>1, <2>2, <2>4, <2>5, <2>6 DEF Receive
<1>10. ASSUME NEW l \in BatcherLabels, BatcherGoto(l),
              l \in {"select", "drain"} => Len(batch) < BatchSize
       PROVE  TypeOK'
  BY <1>0, <1>c, <1>10 DEF BatcherGoto
<1>11. ASSUME SendBatch PROVE TypeOK'
  <2>1. batchChan' \in Seq(Seq(Ids)) /\ Len(batchChan') <= BatchCap
    BY <1>0, <1>11 DEF SendBatch
  <2>2. batch' \in Seq(Ids) /\ Len(batch') < BatchSize /\ Len(batch') <= BatchSize
    BY <1>11, EmptySeq, ConstantsAssumption DEF SendBatch
  <2>3. batcher' \in BatcherLabels
    BY <1>11 DEF SendBatch
  <2>. QED
    BY <1>0, <1>c, <1>11, <2>1, <2>2, <2>3 DEF SendBatch
<1>12. ASSUME WriteInline PROVE TypeOK'
  <2>1. Head(batch) \in Ids /\ Tail(batch) \in Seq(Ids) /\ Len(Tail(batch)) <= BatchSize
    BY <1>12, ConstantsAssumption DEF WriteInline
  <2>2. delivered' \in Seq(Ids)
    BY <1>12, <2>1 DEF WriteInline, Deliver
  <2>3. batcher \in FlushLabels /\ batcher' \notin {"select", "drain"}
    BY <1>12 DEF WriteInline
  <2>. QED
    BY <1>0, <1>c, <1>12, <2>1, <2>2, <2>3 DEF WriteInline
<1>13. ASSUME NEW w \in Workers, TakeBatch(w) PROVE TypeOK'
  <2>1. Head(batchChan) \in Seq(Ids) /\ Tail(batchChan) \in Seq(Seq(Ids))
        /\ Len(Tail(batchChan)) <= BatchCap
    BY SMTT(30), <1>0, <1>13 DEF TakeBatch
  <2>. QED
    BY <1>0, <1>c, <1>13, <2>1 DEF TakeBatch
<1>14. ASSUME NEW w \in Workers, WriteEntry(w) PROVE TypeOK'
  <2>1. Head(hand[w]) \in Ids /\ Tail(hand[w]) \in Seq(Ids)
    BY <1>14 DEF WriteEntry
  <2>2. delivered' \in Seq(Ids)
    BY <1>14, <2>1 DEF WriteEntry, Deliver
  <2>. QED
    BY <1>0, <1>c, <1>14, <2>1, <2>2 DEF WriteEntry
<1>15. ASSUME NEW w \in Workers, WorkerExit(w) PROVE TypeOK'
  BY <1>0, <1>c, <1>15 DEF WorkerExit
<1>16. ASSUME NEW s \in Stoppers, StopFirst(s) \/ StopAgain(s) \/ StopStep(s) PROVE TypeOK'
  BY ZenonT(40), <1>0, <1>c, <1>16 DEF StopFirst, StopAgain, StopStep, CloseQuit, CloseBatchChan,
     StopReturn, OnceReturn, StopperGoto
<1>17. CASE UNCHANGED vars
  BY <1>0, <1>c, <1>17 DEF vars
<1>18. ASSUME NEW c \in Callers, CallerStep(c) PROVE TypeOK'
  BY <1>18, <1>2, <1>3, <1>4, <1>5, <1>6, <1>7
  DEF CallerStep, RejectFull, BlockTimeout, EvictNothing
<1>19. ASSUME BatcherStep PROVE TypeOK'
  <2>1. CASE BatchReceive
    BY <2>1, <1>9 DEF BatchReceive
  <2>2. CASE DrainReceive
    BY <2>2, <1>9 DEF DrainReceive
  <2>3. CASE BatchTick \/ BatchQuit \/ DrainEnd
    BY <2>3, <1>10 DEF BatchTick, BatchQuit, DrainEnd
  <2>4. CASE FlushEmpty
    BY SMTT(30), <2>4, <1>10, EmptySeq, ConstantsAssumption DEF FlushEmpty
  <2>. QED
    BY <1>19, <1>11, <1>12, <2>1, <2>2, <2>3, <2>4 DEF BatcherStep
<1>20. ASSUME NEW w \in Workers, WorkerStep(w) PROVE TypeOK'
  BY <1>13, <1>14, <1>15, <1>20 DEF WorkerStep
<1>. QED
  BY <1>1, <1>8, <1>16, <1>17, <1>18, <1>19, <1>20 DEF Next, Finished

\* Every variable keeps its type and neither channel ever exceeds its capacity.
THEOREM TypeCorrect == Spec => []TypeOK
<1>. QED
  BY InitTypeOK, NextTypeOK, PTL DEF Spec

----------------------------------------------------------------------------
(* Shutdown.  Stop closes quit, waits for the batch worker, closes         *)
(* batchChan and waits for the sink workers; the invariant says how far    *)
(* each of the others has got by then, and what it can no longer hold.     *)

\* Who has left, and what the ones that left left behind.
LeaversInv ==
  /\ batchClosed => batcher = "done"
  /\ batcher = "done" => batch = <<>>
  /\ exited # {} => batchClosed /\ batchChan = <<>>
  /\ workers = {} => batchChan = <<>>
  /\ \A w \in Workers : w \notin workers \ exited => hand[w] = <<>>

\* How far Stop is.
StopInv ==
  /\ \A s \in Stoppers : stopper[s] = "sinkWait" => batchClosed
  /\ \A s \in Stoppers : stopper[s] = "returned" => once = "done"
  /\ once = "done" => batchClosed /\ exited = workers

ShutdownInv == TypeOK /\ LeaversInv /\ StopInv

LEMMA InitShutdown == Init => ShutdownInv
<1>. SUFFICES ASSUME Init PROVE ShutdownInv
  OBVIOUS
<1>. QED
  BY InitTypeOK DEF Init, ShutdownInv, LeaversInv, StopInv

LEMMA NextShutdown == ShutdownInv /\ [Next]_vars => ShutdownInv'
<1>. SUFFICES ASSUME ShutdownInv, [Next]_vars PROVE LeaversInv' /\ StopInv'
  BY NextTypeOK DEF ShutdownInv
<1>. USE DEF ShutdownInv, LeaversInv, StopInv, callerVars, queueVars, batcherVars,
             workerVars, shutdownVars, config
<1>1. ASSUME NEW c \in Callers, Log(c) \/ CallerStep(c) PROVE LeaversInv' /\ StopInv'
  BY <1>1 DEF Log, CallerStep, CheckStopped, Enqueue, RejectFull, BlockTimeout, Reject,
     FindFull, Evict, EvictNothing, WriteSync
<1>2. ASSUME NEW p \in Policies, SetBackpressurePolicy(p) PROVE LeaversInv' /\ StopInv'
  BY <1>2 DEF SetBackpressurePolicy
<1>3. CASE BatcherStep
  \* The batch worker is not done before its step, so batchChan is open and nobody left.
  <2>1. batcher # "done"
    BY <1>3 DEF BatcherStep, BatchReceive, BatchTick, BatchQuit, DrainReceive, DrainEnd,
       Receive, SendBatch, WriteInline, FlushEmpty, FlushLabels
  <2>2. ~batchClosed /\ exited = {}
    BY <2>1
  <2>3. CASE BatchReceive \/ DrainReceive \/ BatchTick \/ BatchQuit \/ DrainEnd
    BY <2>2, <2>3 DEF BatchReceive, DrainReceive, Receive, BatchTick, BatchQuit, DrainEnd,
       BatcherGoto
  <2>4. CASE SendBatch
    BY <2>2, <2>4 DEF SendBatch
  <2>5. CASE WriteInline
    BY <2>1, <2>2, <2>5 DEF WriteInline
  <2>6. CASE FlushEmpty
    BY <2>2, <2>6 DEF FlushEmpty, BatcherGoto
  <2>. QED
    BY <1>3, <2>3, <2>4, <2>5, <2>6 DEF BatcherStep
<1>4. ASSUME NEW w \in Workers, WorkerStep(w) PROVE LeaversInv' /\ StopInv'
  <2>1. CASE TakeBatch(w)
    \* There is a batch to take, so no worker has left and Stop has not returned.
    <3>1. exited = {} /\ w \in workers /\ exited' = {}
      BY <2>1 DEF TakeBatch
    <3>2. \A v \in Workers : v \notin workers => hand'[v] = hand[v]
      BY <2>1, <3>1 DEF TakeBatch, TypeOK
    <3>. QED
      BY <2>1, <3>1, <3>2 DEF TakeBatch
  <2>2. CASE WriteEntry(w)
    <3>1. w \in workers \ exited
      BY <2>2 DEF WriteEntry
    <3>2. \A v \in Workers : v \notin workers \ exited => hand'[v] = hand[v]
      BY <2>2, <3>1 DEF WriteEntry, TypeOK
    <3>. QED
      BY <2>2, <3>2 DEF WriteEntry
  <2>3. CASE WorkerExit(w)
    BY <2>3 DEF WorkerExit, TypeOK
  <2>. QED
    BY <1>4, <2>1, <2>2, <2>3 DEF WorkerStep
<1>5. ASSUME NEW s \in Stoppers, StopFirst(s) \/ StopAgain(s) \/ StopStep(s)
      PROVE  LeaversInv' /\ StopInv'
  <2>1. LeaversInv'
    BY <1>5 DEF StopFirst, StopAgain, StopStep, CloseQuit, CloseBatchChan, StopReturn,
       OnceReturn, StopperGoto
  <2>2. StopInv'
    BY <1>5 DEF StopFirst, StopAgain, StopStep, CloseQuit, CloseBatchChan, StopReturn,
       OnceReturn, StopperGoto, TypeOK
  <2>. QED
    BY <2>1, <2>2
<1>6. CASE UNCHANGED vars
  BY <1>6 DEF vars
<1>. QED
  BY <1>1, <1>2, <1>3, <1>4, <1>5, <1>6 DEF Next, Finished

THEOREM ShutdownCorrect == Spec => []ShutdownInv
<1>. QED
  BY InitShutdown, NextShutdown, PTL DEF Spec

\* flushBatch never sends on the batchChan that Stop has closed.
THEOREM NeverSendsOnClosed == Spec => []NoSendOnClosed
<1>1. ShutdownInv => NoSendOnClosed
  BY DEF ShutdownInv, LeaversInv, NoSendOnClosed
<1>. QED
  BY <1>1, ShutdownCorrect, PTL

\* Whichever call of Stop returns, nothing is left between the queue and the sinks.
THEOREM StopDrains == Spec => []StopLeavesNothingBehind
<1>1. ShutdownInv => StopLeavesNothingBehind
  <2>. SUFFICES ASSUME ShutdownInv, NEW s \in Stoppers, stopper[s] = "returned"
                PROVE  /\ batcher = "done" /\ batch = <<>>
                       /\ batchChan = <<>>
                       /\ exited = workers
                       /\ \A w \in Workers : hand[w] = <<>>
    BY DEF StopLeavesNothingBehind
  <2>1. batchClosed /\ exited = workers
    BY DEF ShutdownInv, StopInv
  <2>. QED
    BY <2>1 DEF ShutdownInv, LeaversInv
<1>. QED
  BY <1>1, ShutdownCorrect, PTL

----------------------------------------------------------------------------
(* Where the entries are.                                                  *)

Queued    == ToSet(logChan)
Filling   == ToSet(batch)
Sent      == Flat(batchChan)
HeldBy(w) == ToSet(hand[w])
Inside    == Queued \cup Filling \cup Sent \cup UNION {HeldBy(w) : w \in Workers}
Gone      == ToSet(delivered) \cup evicted
Entered   == ToSet(accepted)
Processed == ToSet(delivered) \cap Entered

\* An entry that was handed out, and neither written nor evicted, is pending; nothing else
\* is carried, queued or batched, and what was accepted before Stop is inside or gone.
PlacesInv ==
  /\ Gone \cup early \subseteq 1..(next - 1)
  /\ Inside \subseteq pendingIds
  /\ \A c \in Callers : at[c] # "idle" => entry[c] \in pendingIds \ (Inside \cup early)
  /\ early \subseteq Inside \cup Gone

\* No entry is in two places, or twice in one.
OnceInv ==
  /\ IsInjective(logChan) /\ IsInjective(batch) /\ Apart(batchChan)
  /\ \A w \in Workers : IsInjective(hand[w])
  /\ Queued \cap Filling = {} /\ Queued \cap Sent = {} /\ Filling \cap Sent = {}
  /\ \A w \in Workers : HeldBy(w) \cap (Queued \cup Filling \cup Sent) = {}
  /\ \A w, v \in Workers : w # v => HeldBy(w) \cap HeldBy(v) = {}
  /\ \A c, d \in Callers :
       at[c] # "idle" /\ at[d] # "idle" /\ entry[c] = entry[d] => c = d

\* The batch worker drains only after Stop set stopped, and leaves no early entry behind.
DrainInv ==
  /\ stopped <=> once # "new"
  /\ \A s \in Stoppers : stopper[s] # "idle" => stopped
  /\ quit => stopped
  /\ batcher \in {"drain", "drainFlush", "lastFlush", "done"} => quit
  /\ batcher \in {"lastFlush", "done"} => Queued \cap early = {}

\* What was accepted is inside, evicted or processed, and the counters count that.
CountInv ==
  /\ Entered \subseteq 1..(next - 1)
  /\ Entered \subseteq Inside \cup Gone
  /\ Inside \cup evicted \subseteq Entered
  /\ evicted \cap ToSet(delivered) = {}
  /\ \A c \in Callers : at[c] # "idle" => entry[c] \notin Entered
  /\ Len(accepted) = Cardinality(Entered)
  /\ Len(logChan) = Cardinality(Queued)
  /\ processed = Cardinality(Processed)

DeliveryInv == PlacesInv /\ OnceInv /\ DrainInv /\ CountInv

USE DEF callerVars, queueVars, batcherVars, workerVars, shutdownVars, config

\* The places that a step leaves alone.
LEMMA SamePlaces ==
  /\ logChan' = logChan => Queued' = Queued
  /\ batch' = batch => Filling' = Filling
  /\ batchChan' = batchChan => Sent' = Sent
  /\ hand' = hand => \A w \in Workers : HeldBy(w)' = HeldBy(w)
  /\ delivered' = delivered /\ evicted' = evicted => Gone' = Gone
BY DEF Queued, Filling, Sent, HeldBy, Gone

\* Sets of entries are finite, and one more entry makes one more.
LEMMA OneMore ==
  ASSUME NEW S \in SUBSET Ids
  PROVE  /\ IsFiniteSet(S) /\ Cardinality(S) \in Nat
         /\ \A e : e \notin S => Cardinality(S \cup {e}) = Cardinality(S) + 1
<1>1. IsFiniteSet(Ids)
  BY FS_Interval, ConstantsAssumption DEF Ids
<1>2. IsFiniteSet(S)
  BY <1>1, FS_Subset
<1>. QED
  BY <1>2, FS_CardinalityType, FS_AddElement

LEMMA DisjointSum ==
  ASSUME NEW S \in SUBSET Ids, NEW T \in SUBSET Ids, S \cap T = {}
  PROVE  S \cup T \in SUBSET Ids /\ Cardinality(S \cup T) = Cardinality(S) + Cardinality(T)
<1>1. IsFiniteSet(S) /\ Cardinality(S) \in Nat
  BY OneMore
<1>2. IsFiniteSet(T) /\ Cardinality(T) \in Nat
  BY OneMore
<1>3. Cardinality(S \cup T) = Cardinality(S) + Cardinality(T) - Cardinality(S \cap T)
  BY <1>1, <1>2, FS_Union
<1>4. Cardinality(S \cap T) = 0
  BY FS_EmptySet
<1>. QED
  BY <1>1, <1>2, <1>3, <1>4

LEMMA InIds ==
  TypeOK => Queued \in SUBSET Ids /\ Entered \in SUBSET Ids /\ Processed \in SUBSET Ids
<1>. SUFFICES ASSUME TypeOK PROVE Queued \subseteq Ids /\ Entered \subseteq Ids
  BY DEF Processed
<1>1. \A s \in Seq(Ids) : \A i \in DOMAIN s : s[i] \in Ids
  BY LenProperties, ElementOfSeq
<1>. QED
  BY <1>1 DEF Queued, Entered, ToSet, TypeOK

LEMMA Pending ==
  /\ pendingIds = (1..(next - 1)) \ Gone
  /\ pendingIds' = (1..(next' - 1)) \ Gone'
BY DEF pendingIds, Gone

\* log: the entry is new.
LEMMA LogStep ==
  ASSUME TypeOK, DeliveryInv, NEW c \in Callers, Log(c)
  PROVE  DeliveryInv' /\ Promise!Log(next)
<1>1. /\ Queued' = Queued /\ Filling' = Filling /\ Sent' = Sent /\ Gone' = Gone
      /\ \A w \in Workers : HeldBy(w)' = HeldBy(w)
      /\ Inside' = Inside /\ early' = early
  BY SamePlaces DEF Log, Inside
<1>2. next \in Nat /\ next \in Ids /\ 1..(next' - 1) = 1..(next - 1) \cup {next}
  BY ConstantsAssumption DEF Log, TypeOK, Ids
<1>3. next \notin 1..(next - 1)
  BY <1>2
<1>4. /\ next \notin pendingIds \cup Gone \cup early \cup Inside
      /\ pendingIds' = pendingIds \cup {next}
  BY <1>1, <1>2, <1>3, Pending DEF DeliveryInv, PlacesInv
<1>5. \A d \in Callers : IF d = c THEN at[d] = "idle" /\ entry'[d] = next
                         ELSE at'[d] = at[d] /\ entry'[d] = entry[d]
  BY DEF Log, Goto, TypeOK
<1>6. PlacesInv'
  BY <1>1, <1>2, <1>4, <1>5 DEF DeliveryInv, PlacesInv
<1>7. OnceInv'
  <2>1. ASSUME NEW a \in Callers, NEW b \in Callers,
               at'[a] # "idle", at'[b] # "idle", entry'[a] = entry'[b]
        PROVE  a = b
    BY <1>4, <1>5, <2>1 DEF DeliveryInv, PlacesInv, OnceInv
  <2>. QED
    BY <1>1, <2>1 DEF DeliveryInv, OnceInv, Log
<1>8. DrainInv'
  BY <1>1 DEF DeliveryInv, DrainInv, Log
<1>n. CountInv'
  <2>1. UNCHANGED <<accepted, delivered, logChan, processed, evicted>>
    BY DEF Log
  <2>2. Entered' = Entered /\ Processed' = Processed
    BY <2>1 DEF Entered, Processed
  <2>3. \A d \in Callers : at'[d] # "idle" => entry'[d] \notin Entered'
    BY <2>2, <1>3, <1>5 DEF DeliveryInv, CountInv
  <2>. QED
    BY <1>1, <1>2, <2>1, <2>2, <2>3 DEF DeliveryInv, CountInv
<1>9. Promise!Log(next)
  BY <1>1, <1>4 DEF Promise!Log, Log, Gone, ToSet
<1>. QED
  BY <1>n, <1>6, <1>7, <1>8, <1>9 DEF DeliveryInv

\* Steps that move no entry.
LEMMA QuietStep ==
  ASSUME PlacesInv, OnceInv, CountInv,
         UNCHANGED <<logChan, batch, batchChan, hand, delivered, evicted>>,
         UNCHANGED <<next, early, accepted, processed>>, entry' = entry,
         \A c \in Callers : at'[c] = "idle" <=> at[c] = "idle"
  PROVE  PlacesInv' /\ OnceInv' /\ CountInv' /\ Queued' = Queued /\ pendingIds' = pendingIds
<1>1. /\ Queued' = Queued /\ Filling' = Filling /\ Sent' = Sent /\ Gone' = Gone
      /\ \A w \in Workers : HeldBy(w)' = HeldBy(w)
      /\ Inside' = Inside /\ pendingIds' = pendingIds
  BY SamePlaces, Pending DEF Inside
<1>2. Entered' = Entered /\ Processed' = Processed
  BY DEF Entered, Processed
<1>. QED
  BY <1>1, <1>2 DEF PlacesInv, OnceInv, CountInv

\* WriteAsync: the entry goes from its caller to the queue, early or not.
LEMMA EnqueueStep ==
  ASSUME TypeOK, DeliveryInv, NEW c \in Callers, Enqueue(c)
  PROVE  DeliveryInv' /\ (Promise!Own(entry[c]) \/ UNCHANGED Promise!vars)
<1>. DEFINE e == entry[c]
<1>1. at[c] # "idle" /\ e \in Ids /\ e \in pendingIds \ (Inside \cup early)
  BY DEF Enqueue, AllPolicies, TypeOK, DeliveryInv, PlacesInv
<1>2. Queued' = Queued \cup {e} /\ (IsInjective(logChan) => IsInjective(logChan'))
  BY <1>1, Appended DEF Enqueue, Queued, TypeOK, Inside
<1>3. /\ Filling' = Filling /\ Sent' = Sent /\ Gone' = Gone
      /\ \A w \in Workers : HeldBy(w)' = HeldBy(w)
      /\ pendingIds' = pendingIds /\ next' = next
  BY SamePlaces, Pending DEF Enqueue
<1>4. Inside' = Inside \cup {e}
  BY <1>2, <1>3 DEF Inside
<1>5. early' = IF stopped THEN early ELSE early \cup {e}
  BY DEF Enqueue
<1>6. \A d \in Callers : IF d = c THEN at'[d] = "idle"
                         ELSE at'[d] = at[d] /\ entry'[d] = entry[d]
  BY DEF Enqueue, Goto, TypeOK
<1>. HIDE DEF e
<1>7. PlacesInv'
  <2>1. \A d \in Callers : at'[d] # "idle" => entry'[d] # e
    BY <1>1, <1>6 DEF DeliveryInv, OnceInv, e
  <2>2. e \in 1..(next - 1)
    BY <1>1, Pending
  <2>3. \A d \in Callers : at'[d] # "idle" => entry'[d] \in pendingIds \ (Inside \cup early)
    BY <1>6 DEF DeliveryInv, PlacesInv
  <2>4. Gone' \cup early' \subseteq 1..(next' - 1) /\ Inside' \subseteq pendingIds'
        /\ early' \subseteq Inside' \cup Gone'
    BY <1>1, <1>3, <1>4, <1>5, <2>2 DEF DeliveryInv, PlacesInv
  <2>. QED
    BY <1>3, <1>4, <1>5, <2>1, <2>3, <2>4 DEF PlacesInv
<1>8. OnceInv'
  <2>1. ASSUME NEW a \in Callers, NEW b \in Callers,
               at'[a] # "idle", at'[b] # "idle", entry'[a] = entry'[b]
        PROVE  a = b
    BY <1>6, <2>1 DEF DeliveryInv, OnceInv
  <2>2. e \notin Filling \cup Sent /\ \A w \in Workers : e \notin HeldBy(w)
    BY <1>1 DEF Inside
  <2>3. batch' = batch /\ batchChan' = batchChan /\ hand' = hand
    BY DEF Enqueue
  <2>. QED
    BY <1>2, <1>3, <2>1, <2>2, <2>3 DEF DeliveryInv, OnceInv
<1>9. DrainInv'
  BY <1>1, <1>2, <1>5 DEF DeliveryInv, DrainInv, Enqueue
<1>n. CountInv'
  <2>1. e \notin Entered /\ e \notin ToSet(delivered) /\ e \in 1..(next - 1)
    BY <1>1, Pending DEF DeliveryInv, CountInv, Gone, e
  <2>2. Entered' = Entered \cup {e} /\ Len(accepted') = Len(accepted) + 1
    BY <1>1, Appended DEF Enqueue, Entered, TypeOK, e
  <2>3. Processed' = Processed /\ processed' = processed
    BY <2>1, <2>2 DEF Processed, Enqueue
  <2>4. Cardinality(Entered') = Cardinality(Entered) + 1
    BY <2>1, <2>2, InIds, OneMore
  <2>5. Cardinality(Queued') = Cardinality(Queued) + 1
    BY <1>1, <1>2, InIds, OneMore DEF Inside
  <2>6. Len(logChan') = Len(logChan) + 1
    BY <1>1 DEF Enqueue, TypeOK, e
  <2>7. \A d \in Callers : at'[d] # "idle" => entry'[d] # e /\ entry'[d] \notin Entered
    BY <1>1, <1>6 DEF DeliveryInv, OnceInv, CountInv, e
  <2>8. evicted' = evicted /\ delivered' = delivered
    BY DEF Enqueue
  <2>. QED
    BY <1>3, <1>4, <2>1, <2>2, <2>3, <2>4, <2>5, <2>6, <2>7, <2>8 DEF DeliveryInv, CountInv
<1>10. Promise!Own(e) \/ UNCHANGED Promise!vars
  <2>1. CASE stopped
    BY <2>1, <1>3, <1>5 DEF Promise!vars, Enqueue
  <2>2. CASE ~stopped
    <3>1. early' \cap pendingIds' = (early \cap pendingIds) \cup {e}
      BY <1>1, <1>3, <1>5, <2>2
    <3>. QED
      BY <2>2, <3>1, <1>1, <1>3 DEF Promise!Own, Enqueue
  <2>. QED
    BY <2>1, <2>2
<1>. QED
  BY <1>n, <1>7, <1>8, <1>9, <1>10 DEF DeliveryInv, e

\* DropOldest: the oldest entry of the queue is given up.
LEMMA EvictStep ==
  ASSUME TypeOK, DeliveryInv, NEW c \in Callers, Evict(c)
  PROVE  DeliveryInv' /\ Promise!Lose(Head(logChan))
<1>. DEFINE e == Head(logChan)
<1>1. /\ Queued = Queued' \cup {e} /\ e \notin Queued' /\ IsInjective(logChan')
  BY TailOf DEF Evict, Queued, TypeOK, DeliveryInv, OnceInv
<1>2. /\ Filling' = Filling /\ Sent' = Sent /\ Gone' = Gone \cup {e}
      /\ \A w \in Workers : HeldBy(w)' = HeldBy(w)
      /\ next' = next /\ early' = early /\ entry' = entry
      /\ batch' = batch /\ batchChan' = batchChan /\ hand' = hand
  BY SamePlaces DEF Evict, Gone
<1>3. e \notin Filling \cup Sent /\ \A w \in Workers : e \notin HeldBy(w)
  BY <1>1 DEF DeliveryInv, OnceInv
<1>4. Inside = Inside' \cup {e} /\ e \notin Inside'
  BY <1>1, <1>2, <1>3 DEF Inside
<1>5. e \in pendingIds /\ pendingIds' = pendingIds \ {e}
  BY <1>2, <1>4, Pending DEF DeliveryInv, PlacesInv
<1>6. \A d \in Callers : at'[d] # "idle" => at[d] # "idle"
  BY DEF Evict, Goto, TypeOK
<1>. HIDE DEF e
<1>7. PlacesInv'
  BY <1>2, <1>4, <1>5, <1>6, Pending DEF DeliveryInv, PlacesInv
<1>8. OnceInv'
  BY <1>1, <1>2, <1>6 DEF DeliveryInv, OnceInv
<1>9. DrainInv'
  BY <1>1, <1>2 DEF DeliveryInv, DrainInv, Evict
<1>n. CountInv'
  <2>1. e \notin ToSet(delivered) /\ e \in Entered
    BY <1>4, <1>5, Pending DEF DeliveryInv, CountInv, Gone
  <2>2. UNCHANGED <<accepted, delivered, processed>> /\ evicted' = evicted \cup {e}
    BY DEF Evict, e
  <2>3. Entered' = Entered /\ Processed' = Processed
    BY <2>2 DEF Entered, Processed
  <2>4. Cardinality(Queued) = Cardinality(Queued') + 1 /\ Cardinality(Queued') \in Nat
    <3>1. Queued' \in SUBSET Ids
      BY <1>1, InIds
    <3>. QED
      BY <1>1, <3>1, OneMore
  <2>5. Len(logChan) = Len(logChan') + 1 /\ Len(logChan') \in Nat
    BY DEF Evict, TypeOK
  <2>6. Len(logChan') = Cardinality(Queued')
    BY <2>4, <2>5 DEF DeliveryInv, CountInv
  <2>. QED
    BY <1>2, <1>4, <1>6, <2>1, <2>2, <2>3, <2>6 DEF DeliveryInv, CountInv
<1>10. Promise!Lose(e)
  BY <1>2, <1>5 DEF Promise!Lose, Evict, e
<1>. QED
  BY <1>n, <1>7, <1>8, <1>9, <1>10 DEF DeliveryInv, e

\* A write: some place loses the entry, which was only there, and the sinks get it.
LEMMA Delivered ==
  ASSUME TypeOK, NEW e \in Ids, Deliver(e), evicted' = evicted
  PROVE  Gone' = Gone \cup {e}
BY Appended DEF Deliver, Gone, TypeOK

\* log: the caller writes the entry itself.
LEMMA WriteSyncStep ==
  ASSUME TypeOK, DeliveryInv, NEW c \in Callers, WriteSync(c)
  PROVE  DeliveryInv' /\ Promise!Write(entry[c])
<1>. DEFINE e == entry[c]
<1>1. at[c] # "idle" /\ e \in Ids /\ e \in pendingIds \ (Inside \cup early)
  BY DEF WriteSync, TypeOK, DeliveryInv, PlacesInv
<1>2. /\ Queued' = Queued /\ Filling' = Filling /\ Sent' = Sent
      /\ \A w \in Workers : HeldBy(w)' = HeldBy(w)
      /\ Inside' = Inside /\ early' = early /\ next' = next
      /\ logChan' = logChan /\ batch' = batch /\ batchChan' = batchChan /\ hand' = hand
  BY SamePlaces DEF WriteSync, Inside
<1>3. Gone' = Gone \cup {e}
  BY <1>1, Delivered DEF WriteSync
<1>4. pendingIds' = pendingIds \ {e}
  BY <1>2, <1>3, Pending
<1>5. \A d \in Callers : IF d = c THEN at'[d] = "idle"
                         ELSE at'[d] = at[d] /\ entry'[d] = entry[d]
  BY DEF WriteSync, Goto, TypeOK
<1>. HIDE DEF e
<1>6. \A d \in Callers : at'[d] # "idle" => entry'[d] # e
  BY <1>1, <1>5 DEF DeliveryInv, OnceInv, e
<1>7. PlacesInv'
  BY <1>1, <1>2, <1>3, <1>4, <1>5, <1>6, Pending DEF DeliveryInv, PlacesInv
<1>8. OnceInv'
  BY <1>2, <1>5 DEF DeliveryInv, OnceInv
<1>9. DrainInv'
  BY <1>2 DEF DeliveryInv, DrainInv, WriteSync
<1>n. CountInv'
  <2>1. e \notin Entered /\ e \notin evicted
    BY <1>1, Pending DEF DeliveryInv, CountInv, Gone, e
  <2>2. ToSet(delivered') = ToSet(delivered) \cup {e}
    BY <1>1, Appended DEF WriteSync, Deliver, TypeOK, e
  <2>3. UNCHANGED <<accepted, evicted, processed>>
    BY DEF WriteSync
  <2>4. Entered' = Entered
    BY <2>3 DEF Entered
  <2>5. Processed' = Processed
    BY <2>1, <2>2, <2>4 DEF Processed
  <2>. QED
    BY <1>2, <1>3, <1>5, <2>1, <2>2, <2>3, <2>4, <2>5 DEF DeliveryInv, CountInv
<1>10. Promise!Write(e)
  <2>1. delivered' = Append(delivered, e)
    BY DEF WriteSync, Deliver, e
  <2>. QED
    BY <1>1, <1>2, <1>4, <2>1 DEF Promise!Write, WriteSync
<1>. QED
  BY <1>n, <1>7, <1>8, <1>9, <1>10 DEF DeliveryInv, e

----------------------------------------------------------------------------
(* The batch worker.                                                       *)

\* An entry moves from the queue to the batch.
LEMMA ReceiveStep ==
  ASSUME TypeOK, DeliveryInv, NEW from, NEW flush,
         \/ from = "select" /\ flush = "flush"
         \/ from = "drain" /\ flush = "drainFlush",
         Receive(from, flush)
  PROVE  DeliveryInv' /\ UNCHANGED Promise!vars
<1>. DEFINE e == Head(logChan)
<1>1. /\ Queued = Queued' \cup {e} /\ e \notin Queued' /\ IsInjective(logChan')
  BY TailOf DEF Receive, Queued, TypeOK, DeliveryInv, OnceInv
<1>2. e \in Ids /\ e \notin Filling \cup Sent /\ \A w \in Workers : e \notin HeldBy(w)
  BY <1>1 DEF DeliveryInv, OnceInv, Receive, TypeOK
<1>3. Filling' = Filling \cup {e} /\ IsInjective(batch')
  BY <1>2, Appended DEF Receive, Filling, TypeOK, DeliveryInv, OnceInv
<1>4. /\ Sent' = Sent /\ Gone' = Gone
      /\ \A w \in Workers : HeldBy(w)' = HeldBy(w)
      /\ next' = next /\ early' = early /\ entry' = entry /\ at' = at
      /\ pendingIds' = pendingIds /\ batchChan' = batchChan /\ hand' = hand
  BY SamePlaces, Pending DEF Receive
<1>5. Inside' = Inside
  BY <1>1, <1>3, <1>4 DEF Inside
<1>. HIDE DEF e
<1>6. PlacesInv'
  BY <1>4, <1>5 DEF DeliveryInv, PlacesInv
<1>7. OnceInv'
  BY <1>1, <1>2, <1>3, <1>4 DEF DeliveryInv, OnceInv
<1>8. DrainInv'
  BY DEF DeliveryInv, DrainInv, Receive
<1>n. CountInv'
  <2>1. UNCHANGED <<accepted, delivered, processed, evicted>>
    BY DEF Receive
  <2>2. Entered' = Entered /\ Processed' = Processed
    BY <2>1 DEF Entered, Processed
  <2>3. Cardinality(Queued) = Cardinality(Queued') + 1 /\ Cardinality(Queued') \in Nat
    <3>1. Queued' \in SUBSET Ids
      BY <1>1, InIds
    <3>. QED
      BY <1>1, <3>1, OneMore
  <2>4. Len(logChan) = Len(logChan') + 1 /\ Len(logChan') \in Nat
    BY DEF Receive, TypeOK
  <2>5. Len(logChan') = Cardinality(Queued')
    BY <2>3, <2>4 DEF DeliveryInv, CountInv
  <2>. QED
    BY <1>4, <1>5, <2>1, <2>2, <2>5 DEF DeliveryInv, CountInv
<1>9. UNCHANGED Promise!vars
  BY <1>4 DEF Promise!vars, Receive
<1>. QED
  BY <1>n, <1>6, <1>7, <1>8, <1>9 DEF DeliveryInv

\* A copy of the batch moves to the sink workers' channel.
LEMMA SendStep ==
  ASSUME TypeOK, DeliveryInv, SendBatch
  PROVE  DeliveryInv' /\ UNCHANGED Promise!vars
<1>1. /\ Sent' = Sent \cup Filling /\ Apart(batchChan')
      /\ Filling' = {} /\ IsInjective(batch')
  <2>1. Filling' = {} /\ IsInjective(batch')
    BY DEF SendBatch, Filling, ToSet, IsInjective
  <2>. QED
    BY <2>1, FlatAppended DEF SendBatch, Sent, Filling, TypeOK, DeliveryInv, OnceInv
<1>2. /\ Queued' = Queued /\ Gone' = Gone
      /\ \A w \in Workers : HeldBy(w)' = HeldBy(w)
      /\ next' = next /\ early' = early /\ entry' = entry /\ at' = at
      /\ pendingIds' = pendingIds /\ logChan' = logChan /\ hand' = hand
  BY SamePlaces, Pending DEF SendBatch
<1>3. Inside' = Inside
  BY <1>1, <1>2 DEF Inside
<1>4. PlacesInv'
  BY <1>2, <1>3 DEF DeliveryInv, PlacesInv
<1>5. OnceInv'
  BY <1>1, <1>2 DEF DeliveryInv, OnceInv
<1>6. DrainInv'
  BY <1>2 DEF DeliveryInv, DrainInv, SendBatch, FlushLabels, AfterFlush
<1>n. CountInv'
  <2>1. UNCHANGED <<accepted, delivered, processed, evicted, logChan>>
    BY DEF SendBatch
  <2>2. Entered' = Entered /\ Processed' = Processed
    BY <2>1 DEF Entered, Processed
  <2>. QED
    BY <1>2, <1>3, <2>1, <2>2 DEF DeliveryInv, CountInv
<1>7. UNCHANGED Promise!vars
  BY <1>2 DEF Promise!vars, SendBatch
<1>. QED
  BY <1>n, <1>4, <1>5, <1>6, <1>7 DEF DeliveryInv

\* Without sink workers, the batch worker writes the entry.
LEMMA InlineStep ==
  ASSUME TypeOK, DeliveryInv, WriteInline
  PROVE  DeliveryInv' /\ Promise!Write(Head(batch))
<1>. DEFINE e == Head(batch)
<1>1. /\ Filling = Filling' \cup {e} /\ e \notin Filling' /\ IsInjective(batch')
  BY TailOf DEF WriteInline, Filling, TypeOK, DeliveryInv, OnceInv
<1>2. e \in Ids /\ e \notin Queued \cup Sent /\ \A w \in Workers : e \notin HeldBy(w)
  BY <1>1 DEF DeliveryInv, OnceInv, WriteInline, TypeOK
<1>3. /\ Queued' = Queued /\ Sent' = Sent /\ Gone' = Gone \cup {e}
      /\ \A w \in Workers : HeldBy(w)' = HeldBy(w)
      /\ next' = next /\ early' = early /\ entry' = entry /\ at' = at
      /\ logChan' = logChan /\ batchChan' = batchChan /\ hand' = hand
  BY <1>2, SamePlaces, Delivered DEF WriteInline
<1>4. Inside = Inside' \cup {e} /\ e \notin Inside'
  BY <1>1, <1>2, <1>3 DEF Inside
<1>5. e \in pendingIds /\ pendingIds' = pendingIds \ {e}
  BY <1>3, <1>4, Pending DEF DeliveryInv, PlacesInv
<1>. HIDE DEF e
<1>6. PlacesInv'
  BY <1>3, <1>4, <1>5, Pending DEF DeliveryInv, PlacesInv
<1>7. OnceInv'
  BY <1>1, <1>3 DEF DeliveryInv, OnceInv
<1>8. DrainInv'
  BY <1>3 DEF DeliveryInv, DrainInv, WriteInline
<1>n. CountInv'
  <2>1. e \in Entered /\ e \notin ToSet(delivered) /\ e \notin evicted
    BY <1>4, <1>5, Pending DEF DeliveryInv, CountInv, Gone
  <2>2. ToSet(delivered') = ToSet(delivered) \cup {e}
    BY <1>2, Appended DEF WriteInline, Deliver, TypeOK, e
  <2>3. UNCHANGED <<accepted, evicted, logChan>> /\ processed' = processed + 1
    BY DEF WriteInline
  <2>4. Entered' = Entered
    BY <2>3 DEF Entered
  <2>5. Processed' = Processed \cup {e} /\ e \notin Processed
    BY <2>1, <2>2, <2>4 DEF Processed
  <2>6. Cardinality(Processed') = Cardinality(Processed) + 1
    <3>1. Processed \in SUBSET Ids
      BY InIds
    <3>. QED
      BY <2>5, <3>1, OneMore
  <2>. QED
    BY <1>3, <1>4, <2>1, <2>2, <2>3, <2>4, <2>6 DEF DeliveryInv, CountInv
<1>9. Promise!Write(e)
  <2>1. delivered' = Append(delivered, e)
    BY DEF WriteInline, Deliver, e
  <2>. QED
    BY <1>3, <1>5, <2>1 DEF Promise!Write, WriteInline
<1>. QED
  BY <1>n, <1>6, <1>7, <1>8, <1>9 DEF DeliveryInv, e

\* The other steps of the batch worker; it leaves the drain loop with the queue empty.
LEMMA BatcherQuietStep ==
  ASSUME TypeOK, DeliveryInv, BatchTick \/ BatchQuit \/ DrainEnd \/ FlushEmpty
  PROVE  DeliveryInv' /\ UNCHANGED Promise!vars
<1>1. /\ UNCHANGED <<logChan, batch, batchChan, hand, delivered, evicted>>
      /\ UNCHANGED <<next, early, accepted, processed>> /\ entry' = entry /\ at' = at
      /\ UNCHANGED <<once, stopped, quit, stopper>>
  BY DEF BatchTick, BatchQuit, DrainEnd, FlushEmpty, BatcherGoto
<1>2. PlacesInv' /\ OnceInv' /\ CountInv' /\ Queued' = Queued /\ pendingIds' = pendingIds
  BY <1>1, QuietStep DEF DeliveryInv
<1>3. DrainInv'
  <2>1. CASE BatchTick \/ BatchQuit \/ FlushEmpty
    BY <2>1, <1>1, <1>2 DEF DeliveryInv, DrainInv, BatchTick, BatchQuit, FlushEmpty, BatcherGoto,
       FlushLabels, AfterFlush
  <2>2. CASE DrainEnd
    <3>1. Queued = {}
      BY <2>2 DEF DrainEnd, Queued, ToSet
    <3>. QED
      BY <2>2, <3>1, <1>1, <1>2 DEF DeliveryInv, DrainInv, DrainEnd, BatcherGoto
  <2>. QED
    BY <2>1, <2>2
<1>4. UNCHANGED Promise!vars
  BY <1>1, <1>2 DEF Promise!vars
<1>. QED
  BY <1>2, <1>3, <1>4 DEF DeliveryInv

----------------------------------------------------------------------------
(* The sink workers.                                                       *)

\* A batch moves to the hand of a worker, which is empty.
LEMMA TakeStep ==
  ASSUME TypeOK, DeliveryInv, NEW w \in Workers, TakeBatch(w)
  PROVE  DeliveryInv' /\ UNCHANGED Promise!vars
<1>. DEFINE b == ToSet(Head(batchChan))
<1>1. /\ Sent = Sent' \cup b /\ Sent' \cap b = {}
      /\ Apart(batchChan') /\ IsInjective(Head(batchChan))
  BY FlatTailOf DEF TakeBatch, Sent, TypeOK, DeliveryInv, OnceInv
<1>2. /\ HeldBy(w) = {} /\ HeldBy(w)' = b /\ IsInjective(hand'[w])
      /\ \A v \in Workers : v # w => HeldBy(v)' = HeldBy(v) /\ hand'[v] = hand[v]
  <2>1. hand'[w] = Head(batchChan) /\ \A v \in Workers : v # w => hand'[v] = hand[v]
    BY DEF TakeBatch, TypeOK
  <2>. QED
    BY <1>1, <2>1 DEF TakeBatch, HeldBy, ToSet
<1>3. /\ Queued' = Queued /\ Filling' = Filling /\ Gone' = Gone
      /\ next' = next /\ early' = early /\ entry' = entry /\ at' = at
      /\ pendingIds' = pendingIds /\ logChan' = logChan /\ batch' = batch
  BY SamePlaces, Pending DEF TakeBatch
<1>. HIDE DEF b
<1>4. Inside' = Inside
  <2>1. \A v \in Workers : HeldBy(v)' \subseteq Inside
    BY <1>1, <1>2 DEF Inside
  <2>2. \A v \in Workers : HeldBy(v) \subseteq HeldBy(v)'
    BY <1>2
  <2>3. b \subseteq Inside'
    BY <1>2 DEF Inside
  <2>4. Inside' \subseteq Inside
    BY <2>1, <1>1, <1>3 DEF Inside
  <2>5. Inside \subseteq Inside'
    BY <2>2, <2>3, <1>1, <1>3 DEF Inside
  <2>. QED
    BY <2>4, <2>5
<1>5. PlacesInv'
  BY <1>3, <1>4 DEF DeliveryInv, PlacesInv
<1>6. OnceInv'
  <2>1. \A v \in Workers : v # w => HeldBy(v) \cap b = {}
    BY <1>1 DEF DeliveryInv, OnceInv
  <2>2. b \cap (Queued \cup Filling \cup Sent') = {}
    BY <1>1 DEF DeliveryInv, OnceInv
  <2>3. \A v \in Workers : IsInjective(hand'[v])
    BY <1>2 DEF DeliveryInv, OnceInv
  <2>4. \A v \in Workers : HeldBy(v)' \cap (Queued \cup Filling \cup Sent') = {}
    BY <1>1, <1>2, <2>2 DEF DeliveryInv, OnceInv
  <2>5. \A u, v \in Workers : u # v => HeldBy(u)' \cap HeldBy(v)' = {}
    BY <1>2, <2>1 DEF DeliveryInv, OnceInv
  <2>. QED
    BY <1>1, <1>3, <2>3, <2>4, <2>5 DEF DeliveryInv, OnceInv
<1>7. DrainInv'
  BY <1>3 DEF DeliveryInv, DrainInv, TakeBatch
<1>n. CountInv'
  <2>1. UNCHANGED <<accepted, delivered, processed, evicted, logChan>>
    BY DEF TakeBatch
  <2>2. Entered' = Entered /\ Processed' = Processed
    BY <2>1 DEF Entered, Processed
  <2>. QED
    BY <1>3, <1>4, <2>1, <2>2 DEF DeliveryInv, CountInv
<1>8. UNCHANGED Promise!vars
  BY <1>3 DEF Promise!vars, TakeBatch
<1>. QED
  BY <1>n, <1>5, <1>6, <1>7, <1>8 DEF DeliveryInv

\* A sink worker writes the next entry of its batch.
LEMMA WriteStep ==
  ASSUME TypeOK, DeliveryInv, NEW w \in Workers, WriteEntry(w)
  PROVE  DeliveryInv' /\ Promise!Write(Head(hand[w]))
<1>. DEFINE e == Head(hand[w])
<1>1. hand'[w] = Tail(hand[w]) /\ \A v \in Workers : v # w => hand'[v] = hand[v]
  BY DEF WriteEntry, TypeOK
<1>2. /\ HeldBy(w) = HeldBy(w)' \cup {e} /\ e \notin HeldBy(w)' /\ IsInjective(hand'[w])
      /\ \A v \in Workers : v # w => HeldBy(v)' = HeldBy(v) /\ hand'[v] = hand[v]
  BY <1>1, TailOf DEF WriteEntry, HeldBy, TypeOK, DeliveryInv, OnceInv
<1>3. /\ e \in Ids /\ e \notin Queued \cup Filling \cup Sent
      /\ \A v \in Workers : v # w => e \notin HeldBy(v)
  BY <1>2 DEF DeliveryInv, OnceInv, WriteEntry, TypeOK
<1>4. /\ Queued' = Queued /\ Filling' = Filling /\ Sent' = Sent /\ Gone' = Gone \cup {e}
      /\ next' = next /\ early' = early /\ entry' = entry /\ at' = at
      /\ logChan' = logChan /\ batch' = batch /\ batchChan' = batchChan
  BY <1>3, SamePlaces, Delivered DEF WriteEntry
<1>. HIDE DEF e
<1>5. Inside = Inside' \cup {e} /\ e \notin Inside'
  <2>1. \A v \in Workers : e \notin HeldBy(v)' /\ HeldBy(v)' \subseteq HeldBy(v)
                            /\ HeldBy(v) \subseteq HeldBy(v)' \cup {e}
    BY <1>2, <1>3
  <2>. QED
    BY <1>2, <1>3, <1>4, <2>1 DEF Inside
<1>6. e \in pendingIds /\ pendingIds' = pendingIds \ {e}
  BY <1>4, <1>5, Pending DEF DeliveryInv, PlacesInv
<1>7. PlacesInv'
  BY <1>4, <1>5, <1>6, Pending DEF DeliveryInv, PlacesInv
<1>8. OnceInv'
  <2>1. \A v \in Workers : HeldBy(v)' \subseteq HeldBy(v) /\ IsInjective(hand'[v])
    BY <1>2 DEF DeliveryInv, OnceInv
  <2>2. ASSUME NEW u \in Workers, NEW v \in Workers, u # v
        PROVE  HeldBy(u)' \cap HeldBy(v)' = {}
    <3>1. HeldBy(u) \cap HeldBy(v) = {}
      BY <2>2 DEF DeliveryInv, OnceInv
    <3>. QED
      BY <2>1, <3>1
  <2>3. \A v \in Workers : HeldBy(v)' \cap (Queued' \cup Filling' \cup Sent') = {}
    BY <1>4, <2>1 DEF DeliveryInv, OnceInv
  <2>4. \A c, d \in Callers :
          at'[c] # "idle" /\ at'[d] # "idle" /\ entry'[c] = entry'[d] => c = d
    BY <1>4 DEF DeliveryInv, OnceInv
  <2>. QED
    BY <1>4, <2>1, <2>2, <2>3, <2>4 DEF DeliveryInv, OnceInv
<1>9. DrainInv'
  BY <1>4 DEF DeliveryInv, DrainInv, WriteEntry
<1>n. CountInv'
  <2>1. e \in Entered /\ e \notin ToSet(delivered) /\ e \notin evicted
    BY <1>5, <1>6, Pending DEF DeliveryInv, CountInv, Gone
  <2>2. ToSet(delivered') = ToSet(delivered) \cup {e}
    BY <1>3, Appended DEF WriteEntry, Deliver, TypeOK, e
  <2>3. UNCHANGED <<accepted, evicted, logChan>> /\ processed' = processed + 1
    BY DEF WriteEntry
  <2>4. Entered' = Entered
    BY <2>3 DEF Entered
  <2>5. Processed' = Processed \cup {e} /\ e \notin Processed
    BY <2>1, <2>2, <2>4 DEF Processed
  <2>6. Cardinality(Processed') = Cardinality(Processed) + 1
    <3>1. Processed \in SUBSET Ids
      BY InIds
    <3>. QED
      BY <2>5, <3>1, OneMore
  <2>. QED
    BY <1>4, <1>5, <2>1, <2>2, <2>3, <2>4, <2>6 DEF DeliveryInv, CountInv
<1>10. Promise!Write(e)
  <2>1. delivered' = Append(delivered, e)
    BY DEF WriteEntry, Deliver, e
  <2>. QED
    BY <1>4, <1>6, <2>1 DEF Promise!Write, WriteEntry
<1>. QED
  BY <1>n, <1>7, <1>8, <1>9, <1>10 DEF DeliveryInv, e

----------------------------------------------------------------------------
(* Stop, and every step together.                                          *)

\* Stop begins the close when it sets stopped, and ends it when the workers have left.
LEMMA StopSteps ==
  ASSUME ShutdownInv, DeliveryInv, NEW s \in Stoppers,
         StopFirst(s) \/ StopAgain(s) \/ StopStep(s)
  PROVE  DeliveryInv' /\ (Promise!BeginClose \/ Promise!EndClose \/ UNCHANGED Promise!vars)
<1>. USE DEF StopStep, StopperGoto
<1>1. /\ UNCHANGED <<logChan, batch, batchChan, hand, delivered, evicted>>
      /\ UNCHANGED <<next, early, accepted, processed>> /\ entry' = entry /\ at' = at /\ batcher' = batcher
  BY DEF StopFirst, StopAgain, CloseQuit, CloseBatchChan, StopReturn, OnceReturn
<1>2. PlacesInv' /\ OnceInv' /\ CountInv' /\ Queued' = Queued /\ pendingIds' = pendingIds
  BY <1>1, QuietStep DEF DeliveryInv
<1>3. DrainInv'
  BY <1>1, <1>2 DEF DeliveryInv, DrainInv, StopFirst, StopAgain, CloseQuit, CloseBatchChan,
     StopReturn, OnceReturn, ShutdownInv, TypeOK
<1>d. DeliveryInv'
  BY <1>2, <1>3 DEF DeliveryInv
<1>4. CASE StopFirst(s)
  BY <1>d, <1>1, <1>2, <1>4 DEF StopFirst, Promise!BeginClose, DeliveryInv, DrainInv
<1>5. CASE StopAgain(s) \/ CloseQuit(s) \/ CloseBatchChan(s) \/ OnceReturn(s)
  BY <1>d, <1>1, <1>2, <1>5 DEF StopAgain, CloseQuit, CloseBatchChan, OnceReturn, Promise!vars
<1>6. CASE StopReturn(s)
  \* All that Stop waited for is empty, and no early entry is left in the queue.
  <2>1. stopped /\ once' = "done" /\ stopped' = stopped
    BY <1>6 DEF StopReturn, DeliveryInv, DrainInv
  <2>2. batcher = "done" /\ batch = <<>> /\ exited = workers
    BY <1>6 DEF StopReturn, ShutdownInv, StopInv, LeaversInv
  <2>3. batchChan = <<>> /\ \A w \in Workers : hand[w] = <<>>
    BY <2>2 DEF ShutdownInv, LeaversInv
  <2>4. Filling = {} /\ Sent = {} /\ \A w \in Workers : HeldBy(w) = {}
    BY <2>2, <2>3 DEF Filling, Sent, HeldBy, Flat, ToSet
  <2>5. early \cap pendingIds = {}
    BY <2>2, <2>4, Pending DEF DeliveryInv, PlacesInv, DrainInv, Inside
  <2>6. CASE once = "done"
    BY <1>d, <1>1, <1>2, <2>1, <2>6 DEF Promise!vars
  <2>7. CASE once # "done"
    BY <1>d, <1>1, <1>2, <2>1, <2>5, <2>7 DEF Promise!EndClose
  <2>. QED
    BY <2>6, <2>7
<1>. QED
  BY <1>4, <1>5, <1>6 DEF StopStep

\* The steps of a caller that move nothing.
LEMMA CallerQuietStep ==
  ASSUME TypeOK, DeliveryInv, NEW c \in Callers,
         CheckStopped(c) \/ FindFull(c) \/ (at[c] # "idle" /\ Reject(c))
  PROVE  DeliveryInv' /\ UNCHANGED Promise!vars
<1>1. /\ UNCHANGED <<logChan, batch, batchChan, hand, delivered, evicted>>
      /\ UNCHANGED <<next, early, accepted, processed>> /\ entry' = entry
      /\ UNCHANGED <<once, stopped, quit, stopper, batcher>>
  BY DEF CheckStopped, FindFull, Reject
<1>2. \A d \in Callers : at'[d] = "idle" <=> at[d] = "idle"
  BY ConstantsAssumption DEF CheckStopped, FindFull, Reject, Goto, TypeOK, AllPolicies
<1>3. PlacesInv' /\ OnceInv' /\ CountInv' /\ Queued' = Queued /\ pendingIds' = pendingIds
  BY <1>1, <1>2, QuietStep DEF DeliveryInv
<1>4. DrainInv'
  BY <1>1, <1>3 DEF DeliveryInv, DrainInv
<1>5. UNCHANGED Promise!vars
  BY <1>1, <1>3 DEF Promise!vars
<1>. QED
  BY <1>3, <1>4, <1>5 DEF DeliveryInv

\* Steps that change nothing the account or the promise mentions.
LEMMA OtherStep ==
  ASSUME DeliveryInv, UNCHANGED <<logChan, batch, batchChan, hand, delivered, evicted>>,
         UNCHANGED <<next, early, accepted, processed>>, entry' = entry, at' = at,
         UNCHANGED <<once, stopped, quit, stopper, batcher>>
  PROVE  DeliveryInv' /\ UNCHANGED Promise!vars
<1>1. PlacesInv' /\ OnceInv' /\ CountInv' /\ Queued' = Queued /\ pendingIds' = pendingIds
  BY QuietStep DEF DeliveryInv
<1>2. DrainInv'
  BY <1>1 DEF DeliveryInv, DrainInv
<1>. QED
  BY <1>1, <1>2 DEF DeliveryInv, Promise!vars

LEMMA InitDelivery == Init => DeliveryInv /\ Promise!Init
<1>. SUFFICES ASSUME Init PROVE DeliveryInv /\ Promise!Init
  OBVIOUS
<1>1. /\ Queued = {} /\ Filling = {} /\ Sent = {} /\ Gone = {}
      /\ \A w \in Workers : HeldBy(w) = {}
  BY DEF Init, Queued, Filling, Sent, Gone, HeldBy, Flat, ToSet
<1>2. pendingIds = {} /\ Inside = {}
  <2>1. 1..(next - 1) = {}
    BY DEF Init
  <2>. QED
    BY <1>1, <2>1, Pending DEF Inside
<1>3. PlacesInv
  BY <1>1, <1>2 DEF Init, PlacesInv
<1>4. OnceInv
  BY <1>1 DEF Init, OnceInv, IsInjective, Apart
<1>5. DrainInv
  BY DEF Init, DrainInv
<1>n. CountInv
  <2>1. Entered = {} /\ Processed = {} /\ Len(<<>>) = 0
    BY DEF Init, Entered, Processed, ToSet
  <2>. QED
    BY <1>1, <1>2, <2>1, FS_EmptySet DEF Init, CountInv, Gone
<1>6. Promise!Init
  BY <1>2 DEF Init, Promise!Init
<1>. QED
  BY <1>3, <1>4, <1>5, <1>n, <1>6 DEF DeliveryInv

LEMMA NextDelivery ==
  ShutdownInv /\ DeliveryInv /\ [Next]_vars => DeliveryInv' /\ [Promise!Next]_(Promise!vars)
<1>. SUFFICES ASSUME ShutdownInv, DeliveryInv, [Next]_vars
              PROVE  DeliveryInv' /\ [Promise!Next]_(Promise!vars)
  OBVIOUS
<1>. DEFINE Kept == DeliveryInv' /\ [Promise!Next]_(Promise!vars)
<1>0. TypeOK
  BY DEF ShutdownInv
<1>1. ASSUME NEW c \in Callers, Log(c) PROVE Kept
  <2>1. next \in Ids
    BY <1>0, <1>1, ConstantsAssumption DEF Log, TypeOK, Ids
  <2>. QED
    BY <1>0, <1>1, <2>1, LogStep DEF Promise!Next
<1>2. ASSUME NEW c \in Callers, CallerStep(c) PROVE Kept
  <2>1. CASE Enqueue(c)
    <3>1. entry[c] \in Ids
      BY <1>0, <2>1 DEF Enqueue, TypeOK, AllPolicies
    <3>. QED
      BY <1>0, <2>1, <3>1, EnqueueStep DEF Promise!Next
  <2>2. CASE Evict(c)
    <3>1. Head(logChan) \in Ids
      BY <1>0, <2>2 DEF Evict, TypeOK
    <3>. QED
      BY <1>0, <2>2, <3>1, EvictStep DEF Promise!Next
  <2>3. CASE WriteSync(c)
    <3>1. entry[c] \in Ids
      BY <1>0, <2>3 DEF WriteSync, TypeOK
    <3>. QED
      BY <1>0, <2>3, <3>1, WriteSyncStep DEF Promise!Next
  <2>4. CASE CheckStopped(c) \/ FindFull(c) \/ RejectFull(c) \/ BlockTimeout(c) \/ EvictNothing(c)
    <3>1. CheckStopped(c) \/ FindFull(c) \/ (at[c] # "idle" /\ Reject(c))
      BY <2>4 DEF RejectFull, BlockTimeout, EvictNothing
    <3>. QED
      BY <1>0, <3>1, CallerQuietStep
  <2>. QED
    BY <1>2, <2>1, <2>2, <2>3, <2>4 DEF CallerStep
<1>3. ASSUME NEW p \in Policies, SetBackpressurePolicy(p) PROVE Kept
  BY <1>3, OtherStep DEF SetBackpressurePolicy
<1>4. CASE BatcherStep
  <2>1. CASE BatchReceive
    BY <1>0, <2>1, ReceiveStep DEF BatchReceive
  <2>2. CASE DrainReceive
    BY <1>0, <2>2, ReceiveStep DEF DrainReceive
  <2>3. CASE BatchTick \/ BatchQuit \/ DrainEnd \/ FlushEmpty
    BY <1>0, <2>3, BatcherQuietStep
  <2>4. CASE SendBatch
    BY <1>0, <2>4, SendStep
  <2>5. CASE WriteInline
    <3>1. Head(batch) \in Ids
      BY <1>0, <2>5 DEF WriteInline, TypeOK
    <3>. QED
      BY <1>0, <2>5, <3>1, InlineStep DEF Promise!Next
  <2>. QED
    BY <1>4, <2>1, <2>2, <2>3, <2>4, <2>5 DEF BatcherStep
<1>5. ASSUME NEW w \in Workers, WorkerStep(w) PROVE Kept
  <2>1. CASE TakeBatch(w)
    BY <1>0, <2>1, TakeStep
  <2>2. CASE WriteEntry(w)
    <3>1. Head(hand[w]) \in Ids
      BY <1>0, <2>2 DEF WriteEntry, TypeOK
    <3>. QED
      BY <1>0, <2>2, <3>1, WriteStep DEF Promise!Next
  <2>3. CASE WorkerExit(w)
    BY <2>3, OtherStep DEF WorkerExit
  <2>. QED
    BY <1>5, <2>1, <2>2, <2>3 DEF WorkerStep
<1>6. ASSUME NEW s \in Stoppers, StopFirst(s) \/ StopAgain(s) \/ StopStep(s) PROVE Kept
  BY <1>6, StopSteps DEF Promise!Next
<1>7. CASE UNCHANGED vars
  BY <1>7, OtherStep DEF vars
<1>. QED
  BY <1>1, <1>2, <1>3, <1>4, <1>5, <1>6, <1>7 DEF Next, Finished

THEOREM EntriesInOnePlace == Spec => []DeliveryInv
<1>. QED
  BY InitDelivery, NextDelivery, ShutdownCorrect, PTL DEF Spec

\* The pipeline implements LogDelivery: whatever the policy, the workers and the callers,
\* an entry is written at most once and never after it was evicted, and no call of Stop
\* returns before what was accepted before the first call has been written or evicted.
THEOREM Implements == Spec => KeepsPromise
<1>. QED
  BY InitDelivery, NextDelivery, EntriesInOnePlace, ShutdownCorrect, PTL
  DEF Spec, KeepsPromise, Promise!Spec

\* Whenever Stop is over, the counters of Stats explain every accepted entry.
THEOREM StatsExplain == Spec => []StatsReconcile
<1>1. ShutdownInv /\ DeliveryInv => StatsReconcile
  <2>. SUFFICES ASSUME ShutdownInv, DeliveryInv, once = "done"
                PROVE  processed + Cardinality(evicted) + Len(logChan) = Len(accepted)
    BY DEF StatsReconcile
  <2>1. batcher = "done" /\ batch = <<>> /\ exited = workers /\ TypeOK
    BY DEF ShutdownInv, StopInv, LeaversInv
  <2>2. batchChan = <<>> /\ \A w \in Workers : hand[w] = <<>>
    BY <2>1 DEF ShutdownInv, LeaversInv
  <2>3. Filling = {} /\ Sent = {} /\ \A w \in Workers : HeldBy(w) = {}
    BY <2>1, <2>2 DEF Filling, Sent, HeldBy, Flat, ToSet
  <2>4. Inside = Queued
    BY <2>3 DEF Inside
  <2>5. Entered = Queued \cup (evicted \cup Processed)
    BY <2>4 DEF DeliveryInv, CountInv, Gone, Processed
  <2>6. Queued \cap (evicted \cup Processed) = {} /\ evicted \cap Processed = {}
    BY <2>4, Pending DEF DeliveryInv, PlacesInv, CountInv, Gone, Processed
  <2>7. /\ Queued \in SUBSET Ids /\ evicted \in SUBSET Ids /\ Processed \in SUBSET Ids
        /\ evicted \cup Processed \in SUBSET Ids
    <3>1. evicted \in SUBSET Ids
      BY <2>1 DEF TypeOK
    <3>. QED
      BY <2>1, <3>1, InIds
  <2>8. Cardinality(evicted \cup Processed) = Cardinality(evicted) + Cardinality(Processed)
    BY <2>6, <2>7, DisjointSum
  <2>9. Cardinality(Entered) = Cardinality(Queued) + Cardinality(evicted \cup Processed)
    BY <2>5, <2>6, <2>7, DisjointSum
  <2>10. /\ Cardinality(Queued) \in Nat /\ Cardinality(evicted) \in Nat
         /\ Cardinality(Processed) \in Nat
    BY <2>7, OneMore
  <2>. QED
    BY <2>8, <2>9, <2>10 DEF DeliveryInv, CountInv
<1>. QED
  BY <1>1, ShutdownCorrect, EntriesInOnePlace, PTL

----------------------------------------------------------------------------
(* The order of the entries.                                               *)

\* An appended element comes after all others, and nothing else changes its place.
LEMMA BeforeAppended ==
  ASSUME NEW S, NEW s \in Seq(S), NEW x, NEW d, NEW e
  PROVE  Before(Append(s, x), d, e) <=> Before(s, d, e) \/ (d \in ToSet(s) /\ e = x)
<1>. DEFINE t == Append(s, x)
<1>1. /\ Len(s) \in Nat /\ DOMAIN s = 1..Len(s) /\ DOMAIN t = 1..(Len(s) + 1)
      /\ \A i \in 1..Len(s) : t[i] = s[i]
      /\ t[Len(s) + 1] = x
  OBVIOUS
<1>. HIDE DEF t
<1>2. Before(s, d, e) => Before(t, d, e)
  BY <1>1 DEF Before
<1>3. d \in ToSet(s) /\ e = x => Before(t, d, e)
  BY <1>1 DEF Before, ToSet
<1>4. ASSUME NEW i \in 1..(Len(s) + 1), NEW j \in 1..(Len(s) + 1), i < j, t[i] = d, t[j] = e
      PROVE  Before(s, d, e) \/ (d \in ToSet(s) /\ e = x)
  <2>1. i \in 1..Len(s) /\ d \in ToSet(s)
    BY <1>1, <1>4 DEF ToSet
  <2>2. j = Len(s) + 1 \/ j \in 1..Len(s)
    BY <1>1
  <2>. QED
    BY <1>1, <1>4, <2>1, <2>2 DEF Before
<1>5. Before(t, d, e) => Before(s, d, e) \/ (d \in ToSet(s) /\ e = x)
  BY <1>1, <1>4 DEF Before
<1>. QED
  BY <1>2, <1>3, <1>5 DEF t

\* The head comes before all others.
LEMMA BeforeTailOf ==
  ASSUME NEW S, NEW s \in Seq(S), s # <<>>, NEW d, NEW e
  PROVE  Before(s, d, e) <=> Before(Tail(s), d, e) \/ (d = Head(s) /\ e \in ToSet(Tail(s)))
<1>. DEFINE h == Head(s)  t == Tail(s)
<1>1. /\ Len(s) \in Nat /\ Len(s) # 0 /\ DOMAIN s = 1..Len(s) /\ DOMAIN t = 1..(Len(s) - 1)
      /\ \A i \in 1..(Len(s) - 1) : t[i] = s[i + 1]
      /\ h = s[1]
  BY HeadTailProperties, LenProperties, EmptySeq
<1>. HIDE DEF h, t
<1>2. ASSUME NEW i \in 1..(Len(s) - 1), NEW j \in 1..(Len(s) - 1), i < j, t[i] = d, t[j] = e
      PROVE  Before(s, d, e)
  <2>1. i + 1 \in 1..Len(s) /\ j + 1 \in 1..Len(s) /\ i + 1 < j + 1
    BY <1>1, <1>2
  <2>. QED
    BY <1>1, <1>2, <2>1 DEF Before
<1>3. ASSUME d = h, NEW j \in 1..(Len(s) - 1), t[j] = e
      PROVE  Before(s, d, e)
  <2>1. 1 \in 1..Len(s) /\ j + 1 \in 1..Len(s) /\ 1 < j + 1
    BY <1>1
  <2>. QED
    BY <1>1, <1>3, <2>1 DEF Before
<1>4. ASSUME NEW i \in 1..Len(s), NEW j \in 1..Len(s), i < j, s[i] = d, s[j] = e
      PROVE  Before(t, d, e) \/ (d = h /\ e \in ToSet(t))
  <2>1. j - 1 \in 1..(Len(s) - 1) /\ t[j - 1] = e
    <3>1. j - 1 \in 1..(Len(s) - 1) /\ (j - 1) + 1 = j
      BY <1>1, <1>4
    <3>. QED
      BY <1>1, <1>4, <3>1
  <2>2. CASE i = 1
    BY <1>1, <1>4, <2>1, <2>2 DEF ToSet
  <2>3. CASE i # 1
    <3>1. i - 1 \in 1..(Len(s) - 1) /\ (i - 1) + 1 = i /\ i - 1 < j - 1
      BY <1>1, <1>4, <2>3
    <3>2. t[i - 1] = d
      BY <1>1, <1>4, <3>1
    <3>. QED
      BY <1>1, <2>1, <3>1, <3>2 DEF Before
  <2>. QED
    BY <2>2, <2>3
<1>5. Before(t, d, e) => Before(s, d, e)
  BY <1>1, <1>2 DEF Before
<1>6. d = h /\ e \in ToSet(t) => Before(s, d, e)
  BY <1>1, <1>3 DEF ToSet
<1>7. Before(s, d, e) => Before(t, d, e) \/ (d = h /\ e \in ToSet(t))
  BY <1>1, <1>4 DEF Before
<1>. QED
  BY <1>5, <1>6, <1>7 DEF h, t

\* d comes before e in the batches of ss, one after the other.
BatchedBefore(ss, d, e) ==
  \E i \in DOMAIN ss :
    \/ Before(ss[i], d, e)
    \/ \E j \in DOMAIN ss : i < j /\ d \in ToSet(ss[i]) /\ e \in ToSet(ss[j])

LEMMA BatchedAppended ==
  ASSUME NEW S, NEW ss \in Seq(Seq(S)), NEW s \in Seq(S), NEW d, NEW e
  PROVE  BatchedBefore(Append(ss, s), d, e) <=>
           BatchedBefore(ss, d, e) \/ Before(s, d, e) \/ (d \in Flat(ss) /\ e \in ToSet(s))
<1>. DEFINE tt == Append(ss, s)
<1>1. /\ Len(ss) \in Nat /\ DOMAIN ss = 1..Len(ss) /\ DOMAIN tt = 1..(Len(ss) + 1)
      /\ \A i \in 1..Len(ss) : tt[i] = ss[i]
      /\ tt[Len(ss) + 1] = s
  BY AppendProperties, LenProperties
<1>. HIDE DEF tt
<1>2. \A i \in 1..(Len(ss) + 1) : i \in 1..Len(ss) \/ i = Len(ss) + 1
  BY <1>1
<1>3. 1..Len(ss) \subseteq 1..(Len(ss) + 1) /\ Len(ss) + 1 \in 1..(Len(ss) + 1)
  BY <1>1
<1>4. \A i \in 1..Len(ss) : i < Len(ss) + 1 /\ ~(Len(ss) + 1 < i) /\ ~(Len(ss) + 1 < Len(ss) + 1)
  BY <1>1
<1>5. BatchedBefore(ss, d, e) => BatchedBefore(tt, d, e)
  BY <1>1, <1>3 DEF BatchedBefore
<1>6. Before(s, d, e) => BatchedBefore(tt, d, e)
  BY <1>1, <1>3 DEF BatchedBefore
<1>7. ASSUME NEW i \in 1..Len(ss), d \in ToSet(ss[i]), e \in ToSet(s)
      PROVE  BatchedBefore(tt, d, e)
  <2>1. i \in DOMAIN tt /\ Len(ss) + 1 \in DOMAIN tt /\ i < Len(ss) + 1
    BY <1>1, <1>3, <1>4
  <2>2. d \in ToSet(tt[i]) /\ e \in ToSet(tt[Len(ss) + 1])
    BY <1>1, <1>7
  <2>. QED
    BY <2>1, <2>2 DEF BatchedBefore
<1>8. ASSUME NEW i \in 1..(Len(ss) + 1), Before(tt[i], d, e)
      PROVE  BatchedBefore(ss, d, e) \/ Before(s, d, e)
  BY <1>1, <1>2, <1>8 DEF BatchedBefore
<1>9. ASSUME NEW i \in 1..(Len(ss) + 1), NEW j \in 1..(Len(ss) + 1), i < j,
             d \in ToSet(tt[i]), e \in ToSet(tt[j])
      PROVE  BatchedBefore(ss, d, e) \/ (d \in Flat(ss) /\ e \in ToSet(s))
  <2>1. i \in 1..Len(ss)
    BY <1>1, <1>9
  <2>2. d \in ToSet(ss[i]) /\ d \in Flat(ss)
    BY <1>1, <1>9, <2>1 DEF Flat
  <2>3. CASE j = Len(ss) + 1
    BY <1>1, <1>9, <2>2, <2>3
  <2>4. CASE j \in 1..Len(ss)
    BY <1>1, <1>9, <2>1, <2>2, <2>4 DEF BatchedBefore
  <2>. QED
    BY <1>2, <2>3, <2>4
<1>10. BatchedBefore(tt, d, e) =>
         BatchedBefore(ss, d, e) \/ Before(s, d, e) \/ (d \in Flat(ss) /\ e \in ToSet(s))
  BY <1>1, <1>8, <1>9 DEF BatchedBefore
<1>11. d \in Flat(ss) /\ e \in ToSet(s) => BatchedBefore(tt, d, e)
  BY <1>1, <1>7 DEF Flat
<1>. QED
  BY <1>5, <1>6, <1>10, <1>11 DEF tt

LEMMA BatchedTailOf ==
  ASSUME NEW S, NEW ss \in Seq(Seq(S)), ss # <<>>, NEW d, NEW e
  PROVE  /\ BatchedBefore(Tail(ss), d, e) => BatchedBefore(ss, d, e)
         /\ Before(Head(ss), d, e) => BatchedBefore(ss, d, e)
         /\ d \in ToSet(Head(ss)) /\ e \in Flat(Tail(ss)) => BatchedBefore(ss, d, e)
<1>. DEFINE h == Head(ss)  tt == Tail(ss)
<1>1. /\ Len(ss) \in Nat /\ Len(ss) # 0 /\ DOMAIN ss = 1..Len(ss)
      /\ DOMAIN tt = 1..(Len(ss) - 1)
      /\ \A i \in 1..(Len(ss) - 1) : tt[i] = ss[i + 1]
      /\ h = ss[1]
  BY HeadTailProperties, LenProperties, EmptySeq
<1>. HIDE DEF h, tt
<1>2. \A i \in 1..(Len(ss) - 1) : i + 1 \in 1..Len(ss) /\ 1 < i + 1
  BY <1>1
<1>3. 1 \in 1..Len(ss)
  BY <1>1
<1>4. ASSUME NEW i \in 1..(Len(ss) - 1), Before(tt[i], d, e) PROVE BatchedBefore(ss, d, e)
  BY <1>1, <1>2, <1>4 DEF BatchedBefore
<1>5. ASSUME NEW i \in 1..(Len(ss) - 1), NEW j \in 1..(Len(ss) - 1), i < j,
             d \in ToSet(tt[i]), e \in ToSet(tt[j])
      PROVE  BatchedBefore(ss, d, e)
  <2>1. i + 1 < j + 1
    BY <1>1, <1>5
  <2>2. d \in ToSet(ss[i + 1]) /\ e \in ToSet(ss[j + 1])
    BY <1>1, <1>5
  <2>. QED
    BY <1>1, <1>2, <2>1, <2>2 DEF BatchedBefore
<1>6. BatchedBefore(tt, d, e) => BatchedBefore(ss, d, e)
  BY <1>1, <1>4, <1>5 DEF BatchedBefore
<1>7. Before(h, d, e) => BatchedBefore(ss, d, e)
  BY <1>1, <1>3 DEF BatchedBefore
<1>8. ASSUME d \in ToSet(h), NEW j \in 1..(Len(ss) - 1), e \in ToSet(tt[j])
      PROVE  BatchedBefore(ss, d, e)
  <2>1. e \in ToSet(ss[j + 1]) /\ d \in ToSet(ss[1])
    BY <1>1, <1>8
  <2>. QED
    BY <1>1, <1>2, <1>3, <2>1 DEF BatchedBefore
<1>9. d \in ToSet(h) /\ e \in Flat(tt) => BatchedBefore(ss, d, e)
  BY <1>1, <1>8 DEF Flat
<1>. QED
  BY <1>6, <1>7, <1>9 DEF h, tt

\* d is nearer to the sinks than e.  With one sink worker, or none, the entries move in a line.
Ahead(d, e) ==
  \/ Before(delivered, d, e)
  \/ d \in ToSet(delivered) /\ e \in Inside
  \/ \E w \in Workers : \/ Before(hand[w], d, e)
                        \/ d \in HeldBy(w) /\ e \in Sent \cup Filling \cup Queued
  \/ BatchedBefore(batchChan, d, e)
  \/ d \in Sent /\ e \in Filling \cup Queued
  \/ Before(batch, d, e)
  \/ d \in Filling /\ e \in Queued
  \/ Before(logChan, d, e)

\* What is ahead was accepted first.
OrderInv ==
  Cardinality(workers) <= 1 => \A d, e \in Entered : Ahead(d, e) => Before(accepted, d, e)

\* A step that accepts nothing keeps the order if it puts nobody ahead.
LEMMA OrderKept ==
  ASSUME OrderInv, UNCHANGED <<workers, accepted>>,
         \A d, e \in Entered : Ahead(d, e)' => Ahead(d, e)
  PROVE  OrderInv'
BY DEF OrderInv, Entered

\* Only one worker has anything in hand.
LEMMA OneHand ==
  ASSUME ShutdownInv, Cardinality(workers) <= 1, NEW w \in workers
  PROVE  \A v \in Workers : v # w => hand[v] = <<>>
<1>1. IsFiniteSet(workers) /\ w \in Workers /\ Cardinality(workers) \in Nat
  BY ConstantsAssumption, FS_CardinalityType DEF ShutdownInv, TypeOK, Workers
<1>2. Cardinality(workers) # 0
  BY <1>1, FS_EmptySet
<1>c. Cardinality(workers) = 1
  BY <1>1, <1>2
<1>3. \E v : workers = {v}
  BY <1>1, <1>c, FS_Singleton
<1>. QED
  BY <1>3 DEF ShutdownInv, LeaversInv

LEMMA InitOrder == Init => OrderInv
BY DEF Init, OrderInv, Entered, ToSet

\* Who comes before another is there, and so is the other.
LEMMA BeforeMembers ==
  \A s, d, e : /\ Before(s, d, e) => d \in ToSet(s) /\ e \in ToSet(s)
               /\ BatchedBefore(s, d, e) => d \in Flat(s) /\ e \in Flat(s)
<1>1. \A s, d, e : Before(s, d, e) => d \in ToSet(s) /\ e \in ToSet(s)
  BY DEF Before, ToSet
<1>2. \A s, d, e : BatchedBefore(s, d, e) => d \in Flat(s) /\ e \in Flat(s)
  BY <1>1 DEF BatchedBefore, Flat
<1>. QED
  BY <1>1, <1>2

\* The new entry is behind all others, in the queue as in the order of acceptance.
LEMMA EnqueueOrder ==
  ASSUME ShutdownInv, DeliveryInv, OrderInv, NEW c \in Callers, Enqueue(c)
  PROVE  OrderInv'
<1>. PICK x : x = entry[c]
  OBVIOUS
<1>1. at[c] # "idle" /\ x \in Ids /\ x \notin Entered /\ x \notin Inside /\ x \notin ToSet(delivered)
  BY Pending DEF Enqueue, AllPolicies, ShutdownInv, TypeOK, DeliveryInv, PlacesInv, CountInv, Gone
<1>2. /\ logChan' = Append(logChan, x) /\ accepted' = Append(accepted, x)
      /\ UNCHANGED <<workers, delivered, hand, batchChan, batch>>
  BY DEF Enqueue
<1>3. Queued' = Queued \cup {x} /\ Entered' = Entered \cup {x}
  BY <1>1, <1>2, Appended DEF Queued, Entered, ShutdownInv, TypeOK
<1>4. /\ Filling' = Filling /\ Sent' = Sent /\ Inside' = Inside \cup {x}
      /\ \A w \in Workers : HeldBy(w)' = HeldBy(w)
  BY <1>2, <1>3, SamePlaces DEF Inside
<1>5. \A d, e : Before(logChan', d, e) <=> Before(logChan, d, e) \/ (d \in Queued /\ e = x)
  BY <1>2, BeforeAppended DEF Queued, ShutdownInv, TypeOK
<1>6. \A d, e : Before(accepted', d, e) <=> Before(accepted, d, e) \/ (d \in Entered /\ e = x)
  BY <1>2, BeforeAppended DEF Entered, ShutdownInv, TypeOK
<1>7. x \notin Queued \cup Sent \cup Filling /\ \A w \in Workers : x \notin HeldBy(w)
  BY <1>1 DEF Inside
<1>8. \A e : ~Ahead(x, e)'
  <2>1. \A e : /\ ~Before(logChan', x, e) /\ ~Before(batch', x, e) /\ ~BatchedBefore(batchChan', x, e)
               /\ ~Before(delivered', x, e) /\ \A w \in Workers : ~Before(hand'[w], x, e)
    BY <1>1, <1>2, <1>5, <1>7, BeforeMembers DEF Queued, Filling, Sent, HeldBy
  <2>. QED
    BY <1>1, <1>2, <1>4, <1>7, <2>1 DEF Ahead
<1>9. ASSUME NEW d, NEW e, d # x, e # x, Ahead(d, e)' PROVE Ahead(d, e)
  BY <1>2, <1>3, <1>4, <1>5, <1>9 DEF Ahead
<1>. QED
  BY <1>2, <1>3, <1>6, <1>8, <1>9 DEF OrderInv

\* A write by the caller is of an entry that was not accepted.
LEMMA WriteSyncOrder ==
  ASSUME ShutdownInv, DeliveryInv, OrderInv, NEW c \in Callers, WriteSync(c)
  PROVE  OrderInv'
<1>. PICK x : x = entry[c]
  OBVIOUS
<1>1. at[c] # "idle" /\ x \in Ids /\ x \notin Entered
  BY DEF WriteSync, ShutdownInv, TypeOK, DeliveryInv, CountInv
<1>2. /\ delivered' = Append(delivered, x)
      /\ UNCHANGED <<workers, accepted, logChan, hand, batchChan, batch>>
  BY DEF WriteSync, Deliver
<1>3. ToSet(delivered') = ToSet(delivered) \cup {x}
  BY <1>1, <1>2, Appended DEF ShutdownInv, TypeOK
<1>4. /\ Queued' = Queued /\ Filling' = Filling /\ Sent' = Sent /\ Inside' = Inside
      /\ \A w \in Workers : HeldBy(w)' = HeldBy(w)
  BY <1>2, SamePlaces DEF Inside
<1>5. \A d, e : Before(delivered', d, e) <=> Before(delivered, d, e) \/ (d \in ToSet(delivered) /\ e = x)
  BY <1>2, BeforeAppended DEF ShutdownInv, TypeOK
<1>6. ASSUME NEW d \in Entered, NEW e \in Entered, Ahead(d, e)' PROVE Ahead(d, e)
  BY <1>1, <1>2, <1>3, <1>4, <1>5, <1>6 DEF Ahead
<1>. QED
  BY <1>2, <1>6, OrderKept

\* Leaving the queue at its front puts nobody ahead.
LEMMA EvictOrder ==
  ASSUME ShutdownInv, OrderInv, NEW c \in Callers, Evict(c)
  PROVE  OrderInv'
<1>1. /\ logChan' = Tail(logChan) /\ logChan # <<>>
      /\ UNCHANGED <<workers, accepted, delivered, hand, batchChan, batch>>
  BY DEF Evict
<1>2. Queued' \subseteq Queued
  BY <1>1, TailOf DEF Queued, ShutdownInv, TypeOK
<1>3. /\ Filling' = Filling /\ Sent' = Sent /\ Inside' \subseteq Inside
      /\ \A w \in Workers : HeldBy(w)' = HeldBy(w)
  BY <1>1, <1>2, SamePlaces DEF Inside
<1>4. \A d, e : Before(logChan', d, e) => Before(logChan, d, e)
  BY <1>1, BeforeTailOf DEF ShutdownInv, TypeOK
<1>5. ASSUME NEW d, NEW e, Ahead(d, e)' PROVE Ahead(d, e)
  BY <1>1, <1>2, <1>3, <1>4, <1>5 DEF Ahead
<1>. QED
  BY <1>1, <1>5, OrderKept

\* The entry at the front of the queue joins the batch at its end.
LEMMA ReceiveOrder ==
  ASSUME ShutdownInv, OrderInv, NEW from, NEW flush, Receive(from, flush)
  PROVE  OrderInv'
<1>. DEFINE x == Head(logChan)
<1>1. /\ logChan' = Tail(logChan) /\ logChan # <<>> /\ batch' = Append(batch, x)
      /\ UNCHANGED <<workers, accepted, delivered, hand, batchChan>>
  BY DEF Receive
<1>2. Queued = Queued' \cup {x} /\ x \in Ids
  BY <1>1, TailOf DEF Queued, ShutdownInv, TypeOK
<1>3. \A d, e : Before(logChan, d, e) <=> Before(logChan', d, e) \/ (d = x /\ e \in Queued')
  BY <1>1, BeforeTailOf DEF Queued, ShutdownInv, TypeOK
<1>. HIDE DEF x
<1>4. Filling' = Filling \cup {x}
  BY <1>1, <1>2, Appended DEF Filling, ShutdownInv, TypeOK
<1>5. \A d, e : Before(batch', d, e) <=> Before(batch, d, e) \/ (d \in Filling /\ e = x)
  BY <1>1, BeforeAppended DEF Filling, ShutdownInv, TypeOK
<1>6. /\ Sent' = Sent /\ Inside' = Inside
      /\ \A w \in Workers : HeldBy(w)' = HeldBy(w)
  BY <1>1, <1>2, <1>4, SamePlaces DEF Inside
<1>7. ASSUME NEW d, NEW e, Ahead(d, e)' PROVE Ahead(d, e)
  BY <1>1, <1>2, <1>3, <1>4, <1>5, <1>6, <1>7 DEF Ahead
<1>. QED
  BY <1>1, <1>7, OrderKept

\* The batch joins the batches at their end.
LEMMA SendOrder ==
  ASSUME ShutdownInv, OrderInv, SendBatch
  PROVE  OrderInv'
<1>1. /\ batchChan' = Append(batchChan, batch) /\ batch' = <<>>
      /\ UNCHANGED <<workers, accepted, delivered, hand, logChan>>
  BY DEF SendBatch
<1>2. Filling' = {}
  BY <1>1 DEF Filling, ToSet
<1>3. Sent' = Sent \cup Filling
  BY <1>1, FlatAppended DEF Sent, Filling, ShutdownInv, TypeOK
<1>4. \A d, e : BatchedBefore(batchChan', d, e) <=>
                  BatchedBefore(batchChan, d, e) \/ Before(batch, d, e) \/ (d \in Sent /\ e \in Filling)
  BY <1>1, BatchedAppended DEF Sent, Filling, ShutdownInv, TypeOK
<1>5. Queued' = Queued /\ Inside' = Inside /\ \A w \in Workers : HeldBy(w)' = HeldBy(w)
  BY <1>1, <1>2, <1>3, SamePlaces DEF Inside
<1>6. \A d, e : ~Before(batch', d, e)
  BY <1>2, BeforeMembers DEF Filling
<1>7. ASSUME NEW d, NEW e, Ahead(d, e)' PROVE Ahead(d, e)
  BY <1>1, <1>2, <1>3, <1>4, <1>5, <1>6, <1>7 DEF Ahead
<1>. QED
  BY <1>1, <1>7, OrderKept

\* Without sink workers, the front of the batch is the front of the line.
LEMMA InlineOrder ==
  ASSUME ShutdownInv, OrderInv, WriteInline
  PROVE  OrderInv'
<1>. DEFINE x == Head(batch)
<1>1. /\ batch' = Tail(batch) /\ batch # <<>> /\ delivered' = Append(delivered, x)
      /\ UNCHANGED <<workers, accepted, logChan, hand, batchChan>>
  BY DEF WriteInline, Deliver
<1>2. Filling = Filling' \cup {x} /\ x \in Ids
  BY <1>1, TailOf DEF Filling, ShutdownInv, TypeOK
<1>3. \A d, e : Before(batch, d, e) <=> Before(batch', d, e) \/ (d = x /\ e \in Filling')
  BY <1>1, BeforeTailOf DEF Filling, ShutdownInv, TypeOK
<1>. HIDE DEF x
<1>4. ToSet(delivered') = ToSet(delivered) \cup {x}
  BY <1>1, <1>2, Appended DEF ShutdownInv, TypeOK
<1>5. \A d, e : Before(delivered', d, e) <=> Before(delivered, d, e) \/ (d \in ToSet(delivered) /\ e = x)
  BY <1>1, BeforeAppended DEF ShutdownInv, TypeOK
<1>6. /\ Queued' = Queued /\ Sent' = Sent /\ Inside = Inside' \cup {x}
      /\ \A w \in Workers : HeldBy(w)' = HeldBy(w)
  BY <1>1, <1>2, SamePlaces DEF Inside
<1>7. Sent = {} /\ \A w \in Workers : HeldBy(w) = {}
  BY DEF WriteInline, ShutdownInv, LeaversInv, Sent, HeldBy, Flat, ToSet
<1>8. Inside' = Filling' \cup Queued
  BY <1>6, <1>7 DEF Inside
<1>9. ASSUME NEW d, NEW e, Ahead(d, e)' PROVE Ahead(d, e)
  BY <1>1, <1>2, <1>3, <1>4, <1>5, <1>6, <1>8, <1>9 DEF Ahead
<1>. QED
  BY <1>1, <1>9, OrderKept

\* A worker takes the first batch.
LEMMA TakeOrder ==
  ASSUME ShutdownInv, OrderInv, NEW w \in Workers, TakeBatch(w)
  PROVE  OrderInv'
<1>. DEFINE b == Head(batchChan)
<1>1. /\ batchChan' = Tail(batchChan) /\ batchChan # <<>>
      /\ hand'[w] = b /\ \A v \in Workers : v # w => hand'[v] = hand[v]
      /\ UNCHANGED <<workers, accepted, delivered, logChan, batch>>
  BY DEF TakeBatch, ShutdownInv, TypeOK
<1>2. /\ Sent = ToSet(b) \cup Sent'
      /\ \A d, e : /\ BatchedBefore(batchChan', d, e) => BatchedBefore(batchChan, d, e)
                   /\ Before(b, d, e) => BatchedBefore(batchChan, d, e)
                   /\ d \in ToSet(b) /\ e \in Sent' => BatchedBefore(batchChan, d, e)
  BY <1>1, FlatTailOf, BatchedTailOf DEF Sent, ShutdownInv, TypeOK
<1>. HIDE DEF b
<1>3. HeldBy(w)' = ToSet(b) /\ \A v \in Workers : v # w => HeldBy(v)' = HeldBy(v)
  BY <1>1 DEF HeldBy
<1>4. Queued' = Queued /\ Filling' = Filling
  BY <1>1, SamePlaces
<1>5. Inside' \subseteq Inside
  BY <1>2, <1>3, <1>4 DEF Inside
<1>6. ASSUME NEW d, NEW e, Ahead(d, e)' PROVE Ahead(d, e)
  <2>1. CASE \E v \in Workers : v # w /\ \/ Before(hand'[v], d, e)
                                         \/ d \in HeldBy(v)' /\ e \in Sent' \cup Filling' \cup Queued'
    BY <1>1, <1>2, <1>3, <1>4, <2>1 DEF Ahead
  <2>2. CASE \/ Before(hand'[w], d, e)
             \/ d \in HeldBy(w)' /\ e \in Sent' \cup Filling' \cup Queued'
    BY <1>1, <1>2, <1>3, <1>4, <2>2 DEF Ahead
  <2>3. CASE \/ Before(delivered', d, e) \/ (d \in ToSet(delivered') /\ e \in Inside')
             \/ BatchedBefore(batchChan', d, e) \/ (d \in Sent' /\ e \in Filling' \cup Queued')
             \/ Before(batch', d, e) \/ (d \in Filling' /\ e \in Queued') \/ Before(logChan', d, e)
    BY <1>1, <1>2, <1>4, <1>5, <2>3 DEF Ahead
  <2>. QED
    BY <1>6, <2>1, <2>2, <2>3 DEF Ahead
<1>. QED
  BY <1>1, <1>6, OrderKept

\* The only worker writes the first of its entries, and no other worker has any.
LEMMA WriteOrder ==
  ASSUME ShutdownInv, OrderInv, NEW w \in Workers, WriteEntry(w)
  PROVE  OrderInv'
<1>. DEFINE x == Head(hand[w])
<1>1. /\ hand[w] # <<>> /\ hand[w] \in Seq(Ids) /\ delivered' = Append(delivered, x)
      /\ hand'[w] = Tail(hand[w]) /\ \A v \in Workers : v # w => hand'[v] = hand[v]
      /\ UNCHANGED <<workers, accepted, logChan, batchChan, batch>>
  BY DEF WriteEntry, Deliver, ShutdownInv, TypeOK
<1>2. HeldBy(w) = HeldBy(w)' \cup {x} /\ x \in Ids
  BY <1>1, TailOf DEF HeldBy
<1>3. \A d, e : Before(hand[w], d, e) <=> Before(hand'[w], d, e) \/ (d = x /\ e \in HeldBy(w)')
  BY <1>1, BeforeTailOf DEF HeldBy
<1>. HIDE DEF x
<1>4. ToSet(delivered') = ToSet(delivered) \cup {x}
  BY <1>1, <1>2, Appended DEF ShutdownInv, TypeOK
<1>5. \A d, e : Before(delivered', d, e) <=> Before(delivered, d, e) \/ (d \in ToSet(delivered) /\ e = x)
  BY <1>1, BeforeAppended DEF ShutdownInv, TypeOK
<1>6. Queued' = Queued /\ Filling' = Filling /\ Sent' = Sent
  BY <1>1, SamePlaces
<1>7. SUFFICES ASSUME Cardinality(workers) <= 1 PROVE OrderInv'
  BY <1>1 DEF OrderInv
<1>8. w \in workers
  BY <1>1 DEF ShutdownInv, LeaversInv
<1>9. \A v \in Workers : v # w => hand'[v] = hand[v] /\ hand[v] = <<>> /\ HeldBy(v) = {} /\ HeldBy(v)' = {}
  <2>1. \A v \in Workers : v # w => hand[v] = <<>>
    BY <1>7, <1>8, OneHand
  <2>. QED
    BY <1>1, <2>1, Empty DEF HeldBy
<1>10. x \in Inside /\ Inside' \subseteq Inside /\ Inside' = HeldBy(w)' \cup Sent \cup Filling \cup Queued
  BY <1>2, <1>6, <1>9 DEF Inside
<1>11. \A v \in Workers : v # w => \A d, e : ~Before(hand'[v], d, e)
  BY <1>9, BeforeMembers, Empty
<1>12. ASSUME NEW d, NEW e, Ahead(d, e)' PROVE Ahead(d, e)
  <2>1. CASE Before(delivered', d, e)
    BY <1>5, <1>10, <2>1 DEF Ahead
  <2>2. CASE d \in ToSet(delivered') /\ e \in Inside'
    BY <1>2, <1>3, <1>4, <1>10, <2>2 DEF Ahead
  <2>3. CASE \E v \in Workers : \/ Before(hand'[v], d, e)
                                \/ d \in HeldBy(v)' /\ e \in Sent' \cup Filling' \cup Queued'
    BY <1>2, <1>3, <1>6, <1>9, <1>11, <2>3 DEF Ahead
  <2>4. CASE \/ BatchedBefore(batchChan', d, e) \/ (d \in Sent' /\ e \in Filling' \cup Queued')
             \/ Before(batch', d, e) \/ (d \in Filling' /\ e \in Queued') \/ Before(logChan', d, e)
    BY <1>1, <1>6, <2>4 DEF Ahead
  <2>. QED
    BY <1>12, <2>1, <2>2, <2>3, <2>4 DEF Ahead
<1>. QED
  BY <1>1, <1>12, OrderKept

\* The other steps leave the line alone.
LEMMA OtherOrder ==
  ASSUME OrderInv, UNCHANGED <<workers, accepted, delivered, hand, batchChan, batch, logChan>>
  PROVE  OrderInv'
<1>1. /\ Queued' = Queued /\ Filling' = Filling /\ Sent' = Sent /\ Inside' = Inside
      /\ \A w \in Workers : HeldBy(w)' = HeldBy(w)
  BY SamePlaces DEF Inside
<1>2. \A d, e : Ahead(d, e)' => Ahead(d, e)
  BY <1>1 DEF Ahead
<1>. QED
  BY <1>2, OrderKept

LEMMA NextOrder == ShutdownInv /\ DeliveryInv /\ OrderInv /\ [Next]_vars => OrderInv'
<1>. SUFFICES ASSUME ShutdownInv, DeliveryInv, OrderInv, [Next]_vars PROVE OrderInv'
  OBVIOUS
<1>1. ASSUME NEW c \in Callers, Log(c) PROVE OrderInv'
  BY <1>1, OtherOrder DEF Log
<1>2. ASSUME NEW c \in Callers, CallerStep(c) PROVE OrderInv'
  <2>1. CASE CheckStopped(c) \/ FindFull(c) \/ RejectFull(c) \/ BlockTimeout(c) \/ EvictNothing(c)
    BY <2>1, OtherOrder DEF CheckStopped, FindFull, RejectFull, BlockTimeout, EvictNothing, Reject
  <2>. QED
    BY <1>2, <2>1, EnqueueOrder, EvictOrder, WriteSyncOrder DEF CallerStep
<1>3. ASSUME NEW p \in Policies, SetBackpressurePolicy(p) PROVE OrderInv'
  BY <1>3, OtherOrder DEF SetBackpressurePolicy
<1>4. CASE BatcherStep
  <2>1. CASE BatchReceive \/ DrainReceive
    BY <2>1, ReceiveOrder DEF BatchReceive, DrainReceive
  <2>2. CASE BatchTick \/ BatchQuit \/ DrainEnd \/ FlushEmpty
    BY <2>2, OtherOrder DEF BatchTick, BatchQuit, DrainEnd, FlushEmpty, BatcherGoto
  <2>. QED
    BY <1>4, <2>1, <2>2, SendOrder, InlineOrder DEF BatcherStep
<1>5. ASSUME NEW w \in Workers, WorkerStep(w) PROVE OrderInv'
  <2>1. CASE WorkerExit(w)
    BY <2>1, OtherOrder DEF WorkerExit
  <2>. QED
    BY <1>5, <2>1, TakeOrder, WriteOrder DEF WorkerStep
<1>6. ASSUME NEW s \in Stoppers, StopFirst(s) \/ StopAgain(s) \/ StopStep(s) PROVE OrderInv'
  BY <1>6, OtherOrder DEF StopFirst, StopAgain, StopStep, CloseQuit, CloseBatchChan, StopReturn,
     OnceReturn, StopperGoto
<1>7. CASE UNCHANGED vars
  BY <1>7, OtherOrder DEF vars
<1>. QED
  BY <1>1, <1>2, <1>3, <1>4, <1>5, <1>6, <1>7 DEF Next, Finished

\* With at most one sink worker, accepted entries reach the sinks in the order of acceptance,
\* whatever the policies, the sizes of queue and batches, evictions, ticks and the drain of Stop.
THEOREM KeepsOrder == Spec => []SingleWorkerFIFO
<1>1. OrderInv => SingleWorkerFIFO
  BY DEF OrderInv, Entered, Ahead, SingleWorkerFIFO
<1>. QED
  BY <1>1, InitOrder, NextOrder, ShutdownCorrect, EntriesInOnePlace, PTL DEF Spec
============================================================================
