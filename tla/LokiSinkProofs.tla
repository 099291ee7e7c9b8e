--------------------------- MODULE LokiSinkProofs ---------------------------
(***************************************************************************)
(* Proofs about LokiSink, for any writers, closers, batch sizes, cap,      *)
(* number of retries and number of entries.                                *)
(***************************************************************************)
EXTENDS LokiSink, SequenceLemmas, TLAPS

USE DEF Flushers

----------------------------------------------------------------------------
(* The buffer.                                                              *)

\* What SetBuffer does to a sequence: it keeps the end, counts the rest, and stays in the cap.
LEMMA BufferSet ==
  ASSUME NEW S, NEW s \in Seq(S), SetBuffer(s), retryBufferCap \in Nat
  PROVE  /\ values' \in Seq(S) /\ Len(values') <= retryBufferCap
         /\ droppedOld \subseteq droppedOld'
         /\ ToSet(values') \cup droppedOld' = ToSet(s) \cup droppedOld
         /\ ToSet(values') \subseteq ToSet(s)
         /\ IsInjective(s) => IsInjective(values')
<1>. DEFINE excess == IF Len(s) > retryBufferCap THEN Len(s) - retryBufferCap ELSE 0
<1>1. excess \in 0..Len(s) /\ Len(s) - excess <= retryBufferCap
  OBVIOUS
<1>2. values' = SubSeq(s, excess + 1, Len(s)) /\ droppedOld' = droppedOld \cup ToSet(SubSeq(s, 1, excess))
  BY DEF SetBuffer
<1>. HIDE DEF excess
<1>3. /\ SubSeq(s, excess + 1, Len(s)) \in Seq(S) /\ Len(SubSeq(s, excess + 1, Len(s))) = Len(s) - excess
      /\ ToSet(s) = ToSet(SubSeq(s, excess + 1, Len(s))) \cup ToSet(SubSeq(s, 1, excess))
      /\ IsInjective(s) => IsInjective(SubSeq(s, excess + 1, Len(s)))
  BY <1>1, Cut
<1>. QED
  BY <1>1, <1>2, <1>3

\* What it counts is what it does not keep.
LEMMA BufferTrimmed ==
  ASSUME NEW S, NEW s \in Seq(S), SetBuffer(s), retryBufferCap \in Nat, IsInjective(s)
  PROVE  \E gone \in SUBSET ToSet(s) :
           ToSet(values') = ToSet(s) \ gone /\ droppedOld' = droppedOld \cup gone
<1>. DEFINE excess == IF Len(s) > retryBufferCap THEN Len(s) - retryBufferCap ELSE 0
            kept == SubSeq(s, excess + 1, Len(s))
            gone == ToSet(SubSeq(s, 1, excess))
<1>1. excess \in 0..Len(s)
  OBVIOUS
<1>2. values' = kept /\ droppedOld' = droppedOld \cup gone
  BY Zenon DEF SetBuffer
<1>. HIDE DEF excess
<1>3. ToSet(s) = ToSet(kept) \cup gone /\ gone \cap ToSet(kept) = {}
  BY <1>1, Cut
<1>. HIDE DEF kept, gone
<1>4. gone \in SUBSET ToSet(s) /\ ToSet(kept) = ToSet(s) \ gone
  BY <1>3
<1>. QED
  BY <1>2, <1>4

----------------------------------------------------------------------------
(* Types.                                                                   *)

\* Init gives every variable its type.
LEMMA InitTypeOK == Init => TypeOK
<1>1. Init => Flags
  BY Zenon DEF Init, Flags
<1>. QED
  BY <1>1, LokiAssumption DEF Init, TypeOK, Labels, Ids

\* The flags stay truth values.
LEMMA NextFlags == Flags /\ [Next]_vars => Flags'
<1>. SUFFICES ASSUME Flags, [Next]_vars PROVE Flags'
  OBVIOUS
<1>. USE DEF buffer, push, server, Flags
<1>1. ASSUME NEW w \in Writers, Write(w) PROVE Flags'
  BY Zenon, <1>1 DEF Write
<1>2. ASSUME NEW f \in Flushers, FlushNothing(f) PROVE Flags'
  BY Zenon, <1>2 DEF FlushNothing
<1>3. ASSUME NEW f \in Flushers, FlushTake(f) PROVE Flags'
  BY Zenon, <1>3 DEF FlushTake
<1>4. ASSUME NEW f \in Flushers, PostOk(f) PROVE Flags'
  BY Zenon, <1>4 DEF PostOk, Store
<1>5. ASSUME NEW f \in Flushers, PostRefused(f) PROVE Flags'
  BY Zenon, <1>5 DEF PostRefused, Again
<1>6. ASSUME NEW f \in Flushers, PostUnclear(f) PROVE Flags'
  BY Zenon, <1>6 DEF PostUnclear, Again, Store
<1>7. ASSUME NEW f \in Flushers, PostRejected(f) PROVE Flags'
  BY Zenon, <1>7 DEF PostRejected
<1>8. ASSUME NEW f \in Flushers, Requeue(f) PROVE Flags'
  BY Zenon, <1>8 DEF Requeue
<1>9. ASSUME NEW f \in Flushers, Ungate(f) PROVE Flags'
  BY Zenon, <1>9 DEF Ungate
<1>10. CASE Tick
  BY Zenon, <1>10 DEF Tick
<1>11. CASE TickerExit
  BY Zenon, <1>11 DEF TickerExit
<1>12. ASSUME NEW c \in Closers, Close(c) PROVE Flags'
  BY Zenon, <1>12 DEF Close
<1>13. ASSUME NEW c \in Closers, CloseFlush(c) PROVE Flags'
  BY Zenon, <1>13 DEF CloseFlush
<1>14. CASE GateExpires
  BY Zenon, <1>14 DEF GateExpires
<1>15. ASSUME NEW m \in BatchSizes, Configure(m) PROVE Flags'
  BY Zenon, <1>15 DEF Configure
<1>16. CASE Finished
  BY Zenon, <1>16 DEF Finished, vars
<1>17. CASE UNCHANGED vars
  BY Zenon, <1>17 DEF vars
<1>. QED
  BY <1>1, <1>2, <1>3, <1>4, <1>5, <1>6, <1>7, <1>8, <1>9, <1>10, <1>11, <1>12, <1>13, <1>14,
     <1>15, <1>16, <1>17 DEF Next, FlushStep

\* Every step keeps the types.
LEMMA NextTypeOK == TypeOK /\ [Next]_vars => TypeOK'
<1>. SUFFICES ASSUME TypeOK, [Next]_vars PROVE TypeOK'
  OBVIOUS
<1>. Flags'
  BY NextFlags DEF TypeOK
<1>. USE DEF buffer, push, server, TypeOK, Labels, Ids, Goto, After
<1>1. ASSUME NEW w \in Writers, Write(w) PROVE TypeOK'
  <2>1. Append(values, next) \in Seq(Ids) /\ retryBufferCap \in Nat
    BY <1>1, LokiAssumption, Appended DEF Write, retryBufferCap
  <2>2. SetBuffer(Append(values, next))
    BY <1>1 DEF Write
  <2>3. values' \in Seq(Ids) /\ ToSet(values') \cup droppedOld' = ToSet(Append(values, next)) \cup droppedOld
    BY <2>1, <2>2, BufferSet
  <2>4. droppedOld' \subseteq Ids
    BY <2>1, <2>3, Members
  <2>5. pc' \in [Flushers -> Labels] /\ \A g \in Flushers : vals'[g] # <<>> <=> pc'[g] \in {"post", "requeue"}
    BY <1>1 DEF Write
  <2>. QED
    BY SMTT(30), <1>1, <2>3, <2>4, <2>5, LokiAssumption DEF Write
<1>2. ASSUME NEW f \in Flushers, FlushNothing(f) PROVE TypeOK'
  BY <1>2 DEF FlushNothing
<1>3. ASSUME NEW f \in Flushers, FlushTake(f) PROVE TypeOK'
  BY <1>3 DEF FlushTake
<1>4. ASSUME NEW f \in Flushers, PostOk(f) PROVE TypeOK'
  <2>1. ToSet(vals[f]) \subseteq Ids
    BY Members
  <2>2. received' \subseteq Ids /\ duplicated' \subseteq Ids /\ unclear' \subseteq Ids
    BY <1>4, <2>1 DEF PostOk, Store
  <2>3. pc' \in [Flushers -> Labels] /\ vals' \in [Flushers -> Seq(Ids)]
    BY <1>4 DEF PostOk
  <2>4. \A g \in Flushers : vals'[g] # <<>> <=> pc'[g] \in {"post", "requeue"}
    BY <1>4 DEF PostOk
  <2>. QED
    BY <1>4, <2>2, <2>3, <2>4, LokiAssumption DEF PostOk
<1>5. ASSUME NEW f \in Flushers, PostRefused(f) PROVE TypeOK'
  BY SMTT(30), LokiAssumption, <1>5 DEF PostRefused, Again
<1>6. ASSUME NEW f \in Flushers, PostUnclear(f) PROVE TypeOK'
  <2>1. ToSet(vals[f]) \subseteq Ids
    BY Members
  <2>2. received' \subseteq Ids /\ duplicated' \subseteq Ids /\ unclear' \subseteq Ids
    BY <1>6, <2>1 DEF PostUnclear, Store
  <2>3. pc' \in [Flushers -> Labels] /\ vals' \in [Flushers -> Seq(Ids)]
    BY <1>6 DEF PostUnclear, Again
  <2>4. \A g \in Flushers : vals'[g] # <<>> <=> pc'[g] \in {"post", "requeue"}
    BY <1>6 DEF PostUnclear, Again
  <2>. QED
    BY SMTT(30), <1>6, <2>2, <2>3, <2>4, LokiAssumption DEF PostUnclear, Again
<1>7. ASSUME NEW f \in Flushers, PostRejected(f) PROVE TypeOK'
  BY LokiAssumption, <1>7 DEF PostRejected
<1>8. ASSUME NEW f \in Flushers, Requeue(f) PROVE TypeOK'
  <2>1. (vals[f] \o values) \in Seq(Ids) /\ retryBufferCap \in Nat
    BY <1>8, LokiAssumption, Concatenated DEF Requeue, retryBufferCap
  <2>2. SetBuffer((vals[f] \o values))
    BY <1>8 DEF Requeue
  <2>3. values' \in Seq(Ids) /\ ToSet(values') \cup droppedOld' = ToSet((vals[f] \o values)) \cup droppedOld
    BY <2>1, <2>2, BufferSet
  <2>4. droppedOld' \subseteq Ids
    BY <2>1, <2>3, Members
  <2>5. pc' \in [Flushers -> Labels] /\ \A g \in Flushers : vals'[g] # <<>> <=> pc'[g] \in {"post", "requeue"}
    BY <1>8 DEF Requeue
  <2>. QED
    BY SMTT(30), <1>8, <2>3, <2>4, <2>5, LokiAssumption DEF Requeue
<1>9. ASSUME NEW f \in Flushers, Ungate(f) PROVE TypeOK'
  BY <1>9 DEF Ungate
<1>10. CASE Tick
  BY <1>10 DEF Tick
<1>11. CASE TickerExit
  BY <1>11 DEF TickerExit
<1>12. ASSUME NEW c \in Closers, Close(c) PROVE TypeOK'
  BY <1>12 DEF Close
<1>13. ASSUME NEW c \in Closers, CloseFlush(c) PROVE TypeOK'
  BY <1>13 DEF CloseFlush
<1>14. CASE GateExpires
  BY <1>14 DEF GateExpires
<1>15. ASSUME NEW m \in BatchSizes, Configure(m) PROVE TypeOK'
  BY <1>15 DEF Configure
<1>16. CASE Finished
  BY <1>16 DEF Finished, vars
<1>17. CASE UNCHANGED vars
  BY <1>17 DEF vars
<1>. QED
  BY <1>1, <1>2, <1>3, <1>4, <1>5, <1>6, <1>7, <1>8, <1>9, <1>10, <1>11, <1>12, <1>13, <1>14,
     <1>15, <1>16, <1>17 DEF Next, FlushStep

\* Every variable of the sink has its type, and a goroutine holds a batch exactly while it
\* pushes it or puts it back.
THEOREM TypeCorrect == Spec => []TypeOK
<1>. QED
  BY InitTypeOK, NextTypeOK, PTL DEF Spec

----------------------------------------------------------------------------
(* Where the entries are.                                                   *)

\* Entry e is in the buffer or in a push.
Has(e) == e \in ToSet(values) \/ \E f \in Flushers : e \in ToSet(vals[f])

\* The written entries are those the sink has, those the server has and those it trimmed.
Accounted ==
  \A e : e \in 1..(next - 1) <=> Has(e) \/ e \in received \/ e \in droppedOld

\* What is stored and still in a push may be stored again: a request of it looked failed.
Clear ==
  /\ duplicated \subseteq unclear
  /\ \A e : Has(e) /\ e \in received => e \in unclear

IInv == TypeOK /\ Accounted /\ HeldOnce /\ Clear

entries == <<values, vals, received, droppedOld, next, duplicated, unclear>>

\* Five actions move entries.
LEMMA Movers ==
  ASSUME Next
  PROVE  \/ \E w \in Writers : Write(w)
         \/ \E f \in Flushers : FlushTake(f) \/ PostOk(f) \/ PostUnclear(f) \/ Requeue(f)
         \/ UNCHANGED entries
<1>. USE DEF entries, buffer, push, server
<1>1. ASSUME NEW f \in Flushers, FlushNothing(f) PROVE UNCHANGED entries
  BY Zenon, <1>1 DEF FlushNothing
<1>2. ASSUME NEW f \in Flushers, PostRefused(f) PROVE UNCHANGED entries
  BY Zenon, <1>2 DEF PostRefused
<1>3. ASSUME NEW f \in Flushers, PostRejected(f) PROVE UNCHANGED entries
  BY Zenon, <1>3 DEF PostRejected
<1>4. ASSUME NEW f \in Flushers, Ungate(f) PROVE UNCHANGED entries
  BY Zenon, <1>4 DEF Ungate
<1>5. Tick \/ TickerExit \/ GateExpires => UNCHANGED entries
  BY Zenon DEF Tick, TickerExit, GateExpires
<1>6. ASSUME NEW c \in Closers, Close(c) \/ CloseFlush(c) PROVE UNCHANGED entries
  BY Zenon, <1>6 DEF Close, CloseFlush
<1>7. ASSUME NEW m \in BatchSizes, Configure(m) PROVE UNCHANGED entries
  BY Zenon, <1>7 DEF Configure
<1>8. Finished => UNCHANGED entries
  BY Zenon DEF Finished, vars
<1>. HIDE DEF entries
<1>. QED
  BY Zenon, <1>1, <1>2, <1>3, <1>4, <1>5, <1>6, <1>7, <1>8 DEF Next, FlushStep

Located == Accounted /\ HeldOnce /\ Clear

\* Write adds the next entry, which nobody has yet.
LEMMA WriteLocated ==
  ASSUME IInv, NEW w \in Writers, Write(w)
  PROVE  Located'
<1>. DEFINE s == Append(values, next)
<1>. USE DEF IInv
<1>1. values \in Seq(Ids) /\ next \in Ids /\ retryBufferCap \in Nat /\ next \in Nat
  BY LokiAssumption DEF TypeOK, Write, Ids, retryBufferCap
<1>2. s \in Seq(Ids) /\ ToSet(s) = ToSet(values) \cup {next}
  BY <1>1, Appended
<1>3. /\ ToSet(values') \cup droppedOld' = ToSet(s) \cup droppedOld
      /\ droppedOld \subseteq droppedOld' /\ ToSet(values') \subseteq ToSet(s)
      /\ IsInjective(s) => IsInjective(values')
  BY <1>1, <1>2, BufferSet DEF Write
<1>4. ~Has(next) /\ next \notin received
  BY <1>1 DEF Accounted
<1>5. IsInjective(s)
  BY <1>1, <1>4, Appended DEF HeldOnce, Has
<1>. HIDE DEF s
<1>6. UNCHANGED <<vals, received, duplicated, unclear>> /\ next' = next + 1
  BY DEF Write, push, server
<1>7. \A e : e \in 1..(next' - 1) <=> e \in 1..(next - 1) \/ e = next
  <2>1. next' - 1 = next /\ next \in Nat \ {0}
    BY <1>1, <1>6 DEF Ids
  <2>2. \A e \in Int : e \in 1..next <=> e \in 1..(next - 1) \/ e = next
    BY <2>1
  <2>3. \A e : e \in 1..next \/ e \in 1..(next - 1) \/ e = next => e \in Int
    BY <2>1
  <2>. QED
    BY <2>1, <2>2, <2>3
<1>8. Accounted'
  <2>. SUFFICES ASSUME NEW e
                PROVE  e \in 1..(next' - 1) <=> Has(e)' \/ e \in received' \/ e \in droppedOld'
    BY DEF Accounted
  <2>1. e \in ToSet(values') \/ e \in droppedOld' <=> e \in ToSet(values) \/ e = next \/ e \in droppedOld
    BY <1>2, <1>3
  <2>2. Has(e)' \/ e \in droppedOld' <=> Has(e) \/ e \in droppedOld \/ e = next
    BY <1>6, <2>1 DEF Has
  <2>. QED
    BY <1>6, <1>7, <2>2 DEF Accounted
<1>9. HeldOnce'
  BY <1>2, <1>3, <1>4, <1>5, <1>6 DEF HeldOnce, Has
<1>10. Clear'
  BY <1>2, <1>3, <1>4, <1>6 DEF Clear, Has
<1>. QED
  BY <1>8, <1>9, <1>10 DEF Located

\* FlushTake moves the buffer into a push.
LEMMA FlushTakeLocated ==
  ASSUME IInv, NEW f \in Flushers, FlushTake(f)
  PROVE  Located'
<1>1. vals[f] = <<>> /\ vals \in [Flushers -> Seq(Ids)]
  BY DEF IInv, TypeOK, FlushTake
<1>2. /\ values' = <<>> /\ vals'[f] = values
      /\ \A g \in Flushers \ {f} : vals'[g] = vals[g]
      /\ UNCHANGED <<received, droppedOld, next, duplicated, unclear>>
  BY <1>1 DEF FlushTake, server
<1>3. \A e : Has(e)' <=> Has(e)
  BY <1>1, <1>2, Empty DEF Has
<1>4. \A g \in Flushers : g # f => ToSet(vals[g]) \cap ToSet(vals'[f]) = {} /\ ToSet(vals'[g]) = ToSet(vals[g])
  BY <1>2 DEF IInv, HeldOnce
<1>5. \A g \in Flushers : IsInjective(vals'[g])
  BY <1>2 DEF IInv, HeldOnce
<1>6. HeldOnce'
  <2>1. \A g \in Flushers : ToSet(vals'[g]) \cap ToSet(values') = {}
    BY <1>2, Empty
  <2>2. \A g, h \in Flushers : g # h => ToSet(vals'[g]) \cap ToSet(vals'[h]) = {}
    <3>. SUFFICES ASSUME NEW g \in Flushers, NEW h \in Flushers, g # h
                  PROVE  ToSet(vals'[g]) \cap ToSet(vals'[h]) = {}
      OBVIOUS
    <3>1. CASE g = f
      BY <1>4, <3>1
    <3>2. CASE h = f
      BY <1>4, <3>2
    <3>3. CASE g # f /\ h # f
      BY <1>2, <3>3 DEF IInv, HeldOnce
    <3>. QED
      BY <3>1, <3>2, <3>3
  <2>. QED
    BY <1>2, <1>5, <2>1, <2>2, Empty DEF HeldOnce
<1>. QED
  BY <1>2, <1>3, <1>6 DEF IInv, Located, Accounted, Clear

\* PostOk moves a push to the server.
LEMMA PostOkLocated ==
  ASSUME IInv, NEW f \in Flushers, PostOk(f)
  PROVE  Located'
<1>1. vals \in [Flushers -> Seq(Ids)]
  BY DEF IInv, TypeOK
<1>2. /\ vals'[f] = <<>> /\ UNCHANGED <<values, droppedOld, next, unclear>>
      /\ \A g \in Flushers \ {f} : vals'[g] = vals[g]
      /\ received' = received \cup ToSet(vals[f])
      /\ duplicated' = duplicated \cup (ToSet(vals[f]) \cap received)
  BY <1>1 DEF PostOk, Store, buffer
<1>3. \A e : Has(e) <=> Has(e)' \/ e \in ToSet(vals[f])
  BY <1>2, Empty DEF Has
<1>4. \A e : Has(e)' => e \notin ToSet(vals[f])
  BY <1>2, Empty DEF IInv, HeldOnce, Has
<1>5. HeldOnce'
  BY <1>2, Empty DEF IInv, HeldOnce
<1>. QED
  BY <1>2, <1>3, <1>4, <1>5 DEF IInv, Located, Accounted, Clear

\* PostUnclear stores what it goes on pushing.
LEMMA PostUnclearLocated ==
  ASSUME IInv, NEW f \in Flushers, PostUnclear(f)
  PROVE  Located'
<1>1. /\ UNCHANGED <<values, vals, droppedOld, next>>
      /\ received' = received \cup ToSet(vals[f])
      /\ duplicated' = duplicated \cup (ToSet(vals[f]) \cap received)
      /\ unclear' = unclear \cup ToSet(vals[f])
  BY DEF PostUnclear, Store, buffer
<1>2. \A e : e \in ToSet(vals[f]) => Has(e)
  BY DEF Has
<1>3. \A e : Has(e)' <=> Has(e)
  BY <1>1 DEF Has
<1>4. HeldOnce'
  BY <1>1 DEF IInv, HeldOnce
<1>. QED
  BY <1>1, <1>2, <1>3, <1>4 DEF IInv, Located, Accounted, Clear

\* Requeue moves a push to the front of the buffer and trims that.
LEMMA RequeueLocated ==
  ASSUME IInv, NEW f \in Flushers, Requeue(f)
  PROVE  Located'
<1>. DEFINE s == vals[f] \o values
<1>1. vals \in [Flushers -> Seq(Ids)] /\ values \in Seq(Ids) /\ retryBufferCap \in Nat
  BY LokiAssumption DEF IInv, TypeOK, retryBufferCap
<1>2. /\ vals'[f] = <<>> /\ UNCHANGED <<received, next, duplicated, unclear>>
      /\ \A g \in Flushers \ {f} : vals'[g] = vals[g]
  BY <1>1 DEF Requeue, server
<1>3. s \in Seq(Ids) /\ ToSet(s) = ToSet(vals[f]) \cup ToSet(values) /\ IsInjective(s)
  BY <1>1, Concatenated DEF IInv, HeldOnce
<1>4. /\ ToSet(values') \cup droppedOld' = ToSet(s) \cup droppedOld
      /\ droppedOld \subseteq droppedOld' /\ ToSet(values') \subseteq ToSet(s)
      /\ IsInjective(values')
  BY <1>1, <1>3, BufferSet DEF Requeue
<1>. HIDE DEF s
<1>5. \A e : Has(e) \/ e \in droppedOld <=> Has(e)' \/ e \in droppedOld'
  BY <1>2, <1>3, <1>4, Empty DEF Has
<1>6. \A e : Has(e)' => Has(e)
  BY <1>2, <1>3, <1>4, Empty DEF Has
<1>7. HeldOnce'
  BY <1>2, <1>3, <1>4, Empty DEF IInv, HeldOnce
<1>. QED
  BY <1>2, <1>5, <1>6, <1>7 DEF IInv, Located, Accounted, Clear

----------------------------------------------------------------------------
(* The theorems.                                                            *)

\* Nothing is anywhere at first.
LEMMA InitIInv == Init => IInv
<1>. SUFFICES ASSUME Init PROVE IInv
  OBVIOUS
<1>1. values = <<>> /\ \A f \in Flushers : vals[f] = <<>>
  BY DEF Init
<1>2. \A e : ~Has(e)
  BY <1>1, Empty DEF Has
<1>3. Accounted
  BY <1>2 DEF Init, Accounted
<1>4. Clear
  BY <1>2 DEF Init, Clear
<1>5. HeldOnce
  BY <1>1, Empty DEF HeldOnce
<1>. QED
  BY <1>3, <1>4, <1>5, InitTypeOK DEF IInv

\* Every step keeps the account.
LEMMA NextIInv == IInv /\ [Next]_vars => IInv'
<1>. SUFFICES ASSUME IInv, [Next]_vars PROVE IInv'
  OBVIOUS
<1>1. TypeOK'
  BY NextTypeOK DEF IInv
<1>2. CASE UNCHANGED entries
  BY <1>1, <1>2 DEF IInv, entries, Accounted, HeldOnce, Clear, Has
<1>3. CASE \E w \in Writers : Write(w)
  BY <1>1, <1>3, WriteLocated DEF IInv, Located
<1>4. CASE \E f \in Flushers : FlushTake(f) \/ PostOk(f) \/ PostUnclear(f) \/ Requeue(f)
  BY Zenon, <1>1, <1>4, FlushTakeLocated, PostOkLocated, PostUnclearLocated, RequeueLocated
  DEF IInv, Located
<1>5. CASE UNCHANGED vars
  BY <1>2, <1>5 DEF vars, buffer, push, server, entries
<1>. QED
  BY Zenon, <1>2, <1>3, <1>4, <1>5, Movers

\* The account holds in every state of every behaviour.
LEMMA Invariant == Spec => []IInv
<1>. QED
  BY InitIInv, NextIInv, PTL DEF Spec

\* No entry vanishes: each one written is in the buffer, in a push, at the server or counted as
\* trimmed, whatever fails and however many flushes overlap.
THEOREM KeepsEntries == Spec => []NothingVanishes
<1>1. IInv => NothingVanishes
  BY DEF IInv, Accounted, Has, NothingVanishes, held
<1>. QED
  BY <1>1, Invariant, PTL

\* No entry is in the sink twice, however many goroutines flush at the same time.
THEOREM HoldsOnce == Spec => []HeldOnce
<1>1. IInv => HeldOnce
  BY DEF IInv
<1>. QED
  BY <1>1, Invariant, PTL

\* The server stores an entry twice only after a request that looked failed.
THEOREM DuplicatesUnclear == Spec => []DuplicatesOnlyUnclear
<1>1. IInv => DuplicatesOnlyUnclear
  BY DEF IInv, Clear, DuplicatesOnlyUnclear
<1>. QED
  BY <1>1, Invariant, PTL

\* No step grows the buffer beyond its cap.
THEOREM StaysWithinCap == Spec => GrowsWithinCap
<1>1. ASSUME TypeOK, [Next]_vars
      PROVE  [Len(values') > Len(values) => Len(values') <= retryBufferCap']_vars
  <2>. values \in Seq(Ids) /\ vals \in [Flushers -> Seq(Ids)] /\ max \in Nat \ {0}
    BY LokiAssumption, <1>1 DEF TypeOK
  <2>1. retryBufferCap \in Nat
    BY LokiAssumption DEF retryBufferCap
  <2>2. ASSUME NEW w \in Writers, Write(w) PROVE Len(values') <= retryBufferCap'
    <3>1. Append(values, next) \in Seq(Ids) /\ retryBufferCap' = retryBufferCap
      BY <1>1, <2>2, Appended DEF Write, retryBufferCap, TypeOK, Ids
    <3>. QED
      BY <2>1, <2>2, <3>1, BufferSet DEF Write
  <2>3. ASSUME NEW f \in Flushers, Requeue(f) PROVE Len(values') <= retryBufferCap'
    <3>1. vals[f] \o values \in Seq(Ids) /\ retryBufferCap' = retryBufferCap
      BY <2>3, Concatenated DEF Requeue, retryBufferCap
    <3>. QED
      BY <2>1, <2>3, <3>1, BufferSet DEF Requeue
  <2>4. ASSUME NEW f \in Flushers, FlushTake(f) PROVE ~(Len(values') > Len(values))
    BY <2>4 DEF FlushTake
  <2>5. ASSUME NEW f \in Flushers, PostOk(f) \/ PostUnclear(f) PROVE values' = values
    BY <2>5 DEF PostOk, PostUnclear, buffer
  <2>6. UNCHANGED entries => values' = values
    BY DEF entries
  <2>7. UNCHANGED vars => values' = values
    BY DEF vars, buffer
  <2>8. values' = values => ~(Len(values') > Len(values))
    OBVIOUS
  <2>. QED
    BY <1>1, <2>2, <2>3, <2>4, <2>5, <2>6, <2>7, <2>8, Movers
<1>2. TypeOK /\ [Next]_vars => [Len(values') > Len(values) => Len(values') <= retryBufferCap']_vars
  BY <1>1
<1>. QED
  BY <1>2, TypeCorrect, PTL DEF Spec, GrowsWithinCap

----------------------------------------------------------------------------
(* The promise.                                                             *)

Pushed == UNION {ToSet(vals[f]) : f \in Flushers}

\* What the invariant says of the sink as SinkDelivery sees it.
LEMMA Held ==
  ASSUME IInv
  PROVE  /\ held = ToSet(values) \cup Pushed /\ ToSet(values) \cap Pushed = {}
         /\ held \cap received \subseteq unclear
         /\ \A e \in held : e \in 1..(next - 1)
<1>1. held = ToSet(values) \cup Pushed
  BY Zenon DEF held, Pushed
<1>2. ToSet(values) \cap Pushed = {}
  BY DEF IInv, HeldOnce, Pushed
<1>3. \A e \in held : Has(e)
  BY <1>1 DEF Has, Pushed
<1>4. held \cap received \subseteq unclear
  BY <1>3 DEF IInv, Clear
<1>5. \A e \in held : e \in 1..(next - 1)
  BY <1>3 DEF IInv, Accounted
<1>. QED
  BY <1>1, <1>2, <1>4, <1>5

\* Write is Take, with what is trimmed for it.
LEMMA WriteTakes ==
  ASSUME IInv, NEW w \in Writers, Write(w)
  PROVE  Promise!Next
<1>. DEFINE s == Append(values, next)
<1>1. values \in Seq(Ids) /\ next \in Ids /\ retryBufferCap \in Nat /\ next \in Nat
  BY LokiAssumption DEF IInv, TypeOK, Write, Ids, retryBufferCap
<1>2. next \notin 1..(next - 1) /\ 1..((next + 1) - 1) = 1..(next - 1) \cup {next}
  BY <1>1 DEF Ids
<1>3. next \notin held
  BY <1>2, Held
<1>4. s \in Seq(Ids) /\ ToSet(s) = ToSet(values) \cup {next} /\ IsInjective(s)
  <2>1. next \notin ToSet(values) /\ IsInjective(values)
    BY <1>3, Held DEF IInv, HeldOnce
  <2>. QED
    BY <1>1, <2>1, Appended
<1>5. SetBuffer(s) /\ next' = next + 1 /\ UNCHANGED <<vals, received, unclear>>
  BY Zenon DEF Write, push, server
<1>. HIDE DEF s
<1>6. PICK gone \in SUBSET ToSet(s) :
        ToSet(values') = ToSet(s) \ gone /\ droppedOld' = droppedOld \cup gone
  BY <1>1, <1>4, <1>5, BufferTrimmed
<1>7. Pushed' = Pushed /\ held' = ToSet(values') \cup Pushed'
  BY Zenon, <1>5 DEF held, Pushed
<1>8. gone \in SUBSET (held \cup {next}) /\ held' = (held \cup {next}) \ gone
  <2>1. held = ToSet(values) \cup Pushed /\ ToSet(values) \cap Pushed = {}
    BY Held
  <2>. HIDE DEF held, Pushed
  <2>. QED
    BY <1>3, <1>4, <1>6, <1>7, <2>1
<1>9. 1..(next' - 1) = 1..(next - 1) \cup {next}
  BY Zenon, <1>2, <1>5
<1>10. Promise!Take(next, gone)
  BY Zenon, <1>2, <1>5, <1>6, <1>8, <1>9 DEF Promise!Take
<1>. QED
  BY Zenon, <1>1, <1>8, <1>10 DEF Promise!Next

\* FlushTake moves entries within the sink.
LEMMA FlushTakeStutters ==
  ASSUME IInv, NEW f \in Flushers, FlushTake(f)
  PROVE  UNCHANGED Promise!vars
<1>1. vals[f] = <<>> /\ vals \in [Flushers -> Seq(Ids)]
  BY DEF IInv, TypeOK, FlushTake
<1>2. /\ values' = <<>> /\ vals'[f] = values
      /\ \A g \in Flushers \ {f} : vals'[g] = vals[g]
      /\ UNCHANGED <<received, droppedOld, next, duplicated, unclear>>
  BY <1>1 DEF FlushTake, server
<1>3. \A e : e \in held' <=> e \in held
  BY <1>1, <1>2, Empty DEF held
<1>4. held' = held
  BY <1>3
<1>. QED
  BY Zenon, <1>2, <1>4 DEF Promise!vars

\* A push that ends well is Store, one with an unclear answer StoreUnclear.
LEMMA PostStores ==
  ASSUME IInv, NEW f \in Flushers, PostOk(f) \/ PostUnclear(f)
  PROVE  Promise!Next
<1>. DEFINE es == ToSet(vals[f])
<1>1. vals \in [Flushers -> Seq(Ids)]
  BY DEF IInv, TypeOK
<1>2. es \in SUBSET held /\ es \cap received \subseteq unclear
  <2>1. es \subseteq held
    BY DEF held
  <2>. QED
    BY <2>1, Held
<1>3. CASE PostOk(f)
  <2>1. /\ vals'[f] = <<>> /\ UNCHANGED <<values, droppedOld, next, unclear>>
        /\ \A g \in Flushers \ {f} : vals'[g] = vals[g]
        /\ received' = received \cup es
    BY <1>1, <1>3 DEF PostOk, Store, buffer
  <2>2. ToSet(values) \cap es = {} /\ \A g \in Flushers \ {f} : ToSet(vals[g]) \cap es = {}
    BY DEF IInv, HeldOnce
  <2>3. \A e : e \in held' <=> e \in held /\ e \notin es
    BY <2>1, <2>2, Empty DEF held
  <2>4. held' = held \ es
    BY <2>3
  <2>5. Promise!Store(es)
    BY Zenon, <1>2, <2>1, <2>4 DEF Promise!Store
  <2>. QED
    BY Zenon, <1>2, <2>5 DEF Promise!Next
<1>4. CASE PostUnclear(f)
  <2>1. /\ UNCHANGED <<values, vals, droppedOld, next>>
        /\ received' = received \cup es /\ unclear' = unclear \cup es
    BY <1>4 DEF PostUnclear, Store, buffer
  <2>2. held' = held
    BY Zenon, <2>1 DEF held
  <2>3. Promise!StoreUnclear(es)
    BY Zenon, <1>2, <2>1, <2>2 DEF Promise!StoreUnclear
  <2>. QED
    BY Zenon, <1>2, <2>3 DEF Promise!Next
<1>. QED
  BY <1>3, <1>4

\* Requeue gives up what is trimmed.
LEMMA RequeueGivesUp ==
  ASSUME IInv, NEW f \in Flushers, Requeue(f)
  PROVE  Promise!Next
<1>. DEFINE s == vals[f] \o values
<1>1. vals \in [Flushers -> Seq(Ids)] /\ values \in Seq(Ids) /\ retryBufferCap \in Nat
  BY LokiAssumption DEF IInv, TypeOK, retryBufferCap
<1>2. /\ vals'[f] = <<>> /\ UNCHANGED <<received, next, duplicated, unclear>>
      /\ \A g \in Flushers \ {f} : vals'[g] = vals[g]
  BY <1>1 DEF Requeue, server
<1>3. s \in Seq(Ids) /\ ToSet(s) = ToSet(vals[f]) \cup ToSet(values) /\ IsInjective(s)
  BY <1>1, Concatenated DEF IInv, HeldOnce
<1>4. SetBuffer(s)
  BY Zenon DEF Requeue
<1>. HIDE DEF s
<1>5. PICK gone \in SUBSET ToSet(s) :
        ToSet(values') = ToSet(s) \ gone /\ droppedOld' = droppedOld \cup gone
  BY <1>1, <1>3, <1>4, BufferTrimmed
<1>6. ToSet(s) \subseteq held
  BY <1>3 DEF held
<1>7. \A g \in Flushers \ {f} : ToSet(vals[g]) \cap ToSet(s) = {}
  BY <1>3 DEF IInv, HeldOnce
<1>8. \A e : e \in held' <=> e \in held /\ e \notin gone
  BY <1>2, <1>3, <1>5, <1>7, Empty DEF held
<1>9. gone \in SUBSET held /\ held' = held \ gone
  BY <1>5, <1>6, <1>8
<1>10. Promise!GiveUp(gone)
  BY Zenon, <1>2, <1>5, <1>9 DEF Promise!GiveUp
<1>. QED
  BY Zenon, <1>9, <1>10 DEF Promise!Next

\* The sink implements SinkDelivery: every step of it takes, stores or gives up entries as
\* promised, or none, whatever the server answers and however many flushes overlap.
THEOREM Implements == Spec => KeepsPromise
<1>1. Init => Promise!Init
  <2>. SUFFICES ASSUME Init PROVE Promise!Init
    OBVIOUS
  <2>1. values = <<>> /\ \A f \in Flushers : vals[f] = <<>>
    BY DEF Init
  <2>2. held = {}
    BY <2>1, Empty DEF held
  <2>3. 1..(next - 1) = {}
    BY DEF Init
  <2>. QED
    BY <2>2, <2>3 DEF Init, Promise!Init
<1>2. IInv /\ [Next]_vars => [Promise!Next]_(Promise!vars)
  <2>. SUFFICES ASSUME IInv, [Next]_vars PROVE Promise!Next \/ UNCHANGED Promise!vars
    BY Zenon
  <2>1. CASE UNCHANGED entries
    BY <2>1 DEF entries, held, Promise!vars
  <2>2. CASE UNCHANGED vars
    BY <2>1, <2>2 DEF vars, buffer, push, server, entries
  <2>. QED
    BY Zenon, <2>1, <2>2, Movers, WriteTakes, FlushTakeStutters, PostStores, RequeueGivesUp
<1>. QED
  BY <1>1, <1>2, Invariant, PTL DEF Spec, KeepsPromise, Promise!Spec

\* What the promise comes to for the entries: each one written is held, stored or given up;
\* none that was given up is held, and one that was stored only if the sink cannot know.
THEOREM PromiseAccounts == Spec => []Promise!Accounts
<1>1. Promise!Init => Promise!Accounts
  BY DEF Promise!Init, Promise!Accounts
<1>2. Promise!Accounts /\ [Promise!Next]_(Promise!vars) => Promise!Accounts'
  <2>. SUFFICES ASSUME Promise!Accounts, [Promise!Next]_(Promise!vars) PROVE Promise!Accounts'
    OBVIOUS
  <2>. HIDE DEF held
  <2>1. ASSUME NEW e \in Ids, NEW gone, Promise!Take(e, gone) PROVE Promise!Accounts'
    BY <2>1 DEF Promise!Take, Promise!Accounts
  <2>2. ASSUME NEW es, Promise!Store(es) PROVE Promise!Accounts'
    BY <2>2 DEF Promise!Store, Promise!Accounts
  <2>3. ASSUME NEW es, Promise!StoreUnclear(es) PROVE Promise!Accounts'
    BY <2>3 DEF Promise!StoreUnclear, Promise!Accounts
  <2>4. ASSUME NEW es, Promise!GiveUp(es) PROVE Promise!Accounts'
    BY <2>4 DEF Promise!GiveUp, Promise!Accounts
  <2>5. CASE UNCHANGED Promise!vars
    BY <2>5 DEF Promise!vars, Promise!Accounts
  <2>. QED
    BY Zenon, <2>1, <2>2, <2>3, <2>4, <2>5 DEF Promise!Next
<1>. QED
  BY <1>1, <1>2, Implements, PTL DEF KeepsPromise, Promise!Spec
============================================================================
