---------------------------- MODULE MetricsProofs ----------------------------
(***************************************************************************)
(* Proofs about Metrics, for any goroutines, names, subjects and caps.     *)
(***************************************************************************)
EXTENDS Metrics, FiniteSetTheorems, SequenceTheorems, TLAPS

----------------------------------------------------------------------------
(* The caps of the registries.                                              *)

\* A registry is finite, and within the cap.
Within(S) == IsFiniteSet(S) /\ Cardinality(S) <= MaxNames

Capped ==
  /\ Within(labeledOps)
  /\ DOMAIN cache = Kinds /\ cache = [k \in Kinds |-> cache[k]]
  /\ \A k \in Kinds : Within(cache[k])

\* A registry that has room takes one more name, and one it has already.
LEMMA Room ==
  ASSUME NEW S, NEW n, Within(S), n \in S \/ Cardinality(S) < MaxNames
  PROVE  Within(S \cup {n})
<1>1. CASE n \in S
  <2>1. S \cup {n} = S
    BY <1>1
  <2>. QED
    BY <2>1
<1>2. CASE n \notin S /\ Cardinality(S) < MaxNames
  <2>1. IsFiniteSet(S \cup {n}) /\ Cardinality(S \cup {n}) = Cardinality(S) + 1
    BY <1>2, FS_AddElement DEF Within
  <2>2. Cardinality(S) \in Nat
    BY FS_CardinalityType DEF Within
  <2>. QED
    BY <1>2, <2>1, <2>2, MetricsAssumption DEF Within
<1>. QED
  BY <1>1, <1>2

\* An empty registry is within any cap.
LEMMA NoNames == Within({})
  BY FS_EmptySet, MetricsAssumption DEF Within

\* Every step keeps the caps: whoever registers a name under the write lock looks again.
LEMMA NextCapped == Capped /\ [Next]_vars => Capped'
<1>. SUFFICES ASSUME Capped, [Next]_vars PROVE Capped'
  BY SMTT(30)
<1>. USE DEF Capped, registry
<1>1. ASSUME NEW t \in Threads, NEW k \in Kinds, NEW m \in Names, NEW s \in Subjects, Begin(t, k, m, s)
      PROVE  Capped'
  BY ZenonT(40), <1>1 DEF Begin
<1>2. ASSUME NEW t \in Threads, LookLabels(t) PROVE Capped'
  BY SMTT(30), <1>2 DEF LookLabels
<1>3. ASSUME NEW t \in Threads, CopyLabels(t) PROVE Capped'
  BY <1>3 DEF CopyLabels
<1>4. ASSUME NEW t \in Threads, Finish(t) PROVE Capped'
  BY <1>4 DEF Finish
<1>5. ASSUME NEW t \in Threads, Schema(t) PROVE Capped'
  BY <1>5 DEF Schema
<1>6. ASSUME NEW t \in Threads, Seen(t) PROVE Capped'
  BY <1>6 DEF Seen
<1>7. ASSUME NEW t \in Threads, Register(t) PROVE Capped'
  <2>1. labeledOps' = labeledOps \/ Within(labeledOps')
    BY <1>7, Room DEF Register
  <2>. QED
    BY <1>7, <2>1 DEF Register
<1>8. ASSUME NEW t \in Threads, LookFamily(t) PROVE Capped'
  BY <1>8 DEF LookFamily
<1>9. ASSUME NEW t \in Threads, ReturnFamily(t) PROVE Capped'
  BY <1>9 DEF ReturnFamily, Observed
<1>10. ASSUME NEW t \in Threads, CreateFamily(t) PROVE Capped'
  BY <1>10 DEF CreateFamily, Observed
<1>11. ASSUME NEW t \in Threads, Find(t) PROVE Capped'
  BY <1>11 DEF Find
<1>12. ASSUME NEW t \in Threads, Mint(t) PROVE Capped'
  <2>. DEFINE k == call[t].kind
  <2>1. CASE UNCHANGED cache
    BY <1>12, <2>1 DEF Mint
  <2>2. CASE /\ cache' = [cache EXCEPT ![k] = @ \cup {call[t].safe}]
             /\ call[t].safe \in cache[k] \/ Cardinality(cache[k]) < MaxNames
    <3>1. \A j \in Kinds : Within(cache'[j])
      BY <2>2, Room
    <3>. QED
      BY <1>12, <2>2, <3>1 DEF Mint
  <2>. QED
    BY <1>12, <2>1, <2>2 DEF Mint
<1>13. ASSUME NEW t \in Threads, AddTotal(t) PROVE Capped'
  BY <1>13 DEF AddTotal, Return
<1>14. ASSUME NEW t \in Threads, AddErrors(t) PROVE Capped'
  BY <1>14 DEF AddErrors, Return
<1>15. ASSUME NEW t \in Threads, AddPanics(t) PROVE Capped'
  BY <1>15 DEF AddPanics, Return
<1>16. ASSUME NEW c \in Configs, Configure(c) PROVE Capped'
  BY <1>16 DEF Configure, Begun
<1>17. CASE Handle
  BY <1>17 DEF Handle, Begun
<1>18. CASE Shape
  BY <1>18, NoNames DEF Shape
<1>19. CASE ResetCaches
  BY <1>19, NoNames DEF ResetCaches
<1>20. CASE ResetFamily
  BY <1>20 DEF ResetFamily, Touch
<1>21. CASE ClearStatics
  BY <1>21 DEF ClearStatics, Touch, Next_
<1>22. CASE AppendStatic
  BY <1>22 DEF AppendStatic, Next_, Touch
<1>23. ASSUME NEW w \in Workers, Hook(w) PROVE Capped'
  BY <1>23 DEF Hook, others
<1>24. ASSUME NEW w \in Workers, NEW n \in 1..2, Snapshot(w, n) PROVE Capped'
  BY <1>24 DEF Snapshot, others
<1>25. CASE UNCHANGED vars
  BY <1>25 DEF vars
<1>. QED
  BY <1>1, <1>2, <1>3, <1>4, <1>5, <1>6, <1>7, <1>8, <1>9, <1>10, <1>11, <1>12, <1>13, <1>14,
     <1>15, <1>16, <1>17, <1>18, <1>19, <1>20, <1>21, <1>22, <1>23, <1>24, <1>25 DEF Next,
     ThreadStep, Reset

\* However many goroutines register names and however often Init and MetricsHandler reset them,
\* no registry ever has more names than its cap.
THEOREM CapsHold == Spec => []CapHolds
<1>1. Init => Capped
  BY NoNames DEF Init, Capped
<1>2. Capped => CapHolds
  BY DEF Capped, Within, CapHolds
<1>. QED
  BY <1>1, <1>2, NextCapped, PTL DEF Spec

----------------------------------------------------------------------------
(* The counters of the pipeline.                                            *)

\* All of it is counted, and more only after a stale snapshot.
Counted ==
  /\ stats \in Nat /\ prev \in Nat /\ incs \in Nat /\ deltas \in Nat
  /\ snap \in [Workers -> Nat] /\ HookExact

\* Every step keeps the count.
LEMMA NextCounted == Counted /\ [Next]_vars => Counted'
<1>. SUFFICES ASSUME Counted, [Next]_vars PROVE Counted'
  BY SMTT(30)
<1>. USE DEF Counted, HookExact, hook
<1>1. ASSUME NEW t \in Threads, NEW k \in Kinds, NEW m \in Names, NEW s \in Subjects, Begin(t, k, m, s)
      PROVE  Counted'
  BY ZenonT(40), <1>1 DEF Begin
<1>2. ASSUME NEW t \in Threads, LookLabels(t) PROVE Counted'
  BY SMTT(30), <1>2 DEF LookLabels
<1>3. ASSUME NEW t \in Threads, CopyLabels(t) PROVE Counted'
  BY <1>3 DEF CopyLabels
<1>4. ASSUME NEW t \in Threads, Finish(t) PROVE Counted'
  BY <1>4 DEF Finish
<1>5. ASSUME NEW t \in Threads, Schema(t) PROVE Counted'
  BY <1>5 DEF Schema
<1>6. ASSUME NEW t \in Threads, Seen(t) PROVE Counted'
  BY <1>6 DEF Seen
<1>7. ASSUME NEW t \in Threads, Register(t) PROVE Counted'
  BY <1>7 DEF Register
<1>8. ASSUME NEW t \in Threads, LookFamily(t) PROVE Counted'
  BY <1>8 DEF LookFamily
<1>9. ASSUME NEW t \in Threads, ReturnFamily(t) PROVE Counted'
  BY <1>9 DEF ReturnFamily, Observed
<1>10. ASSUME NEW t \in Threads, CreateFamily(t) PROVE Counted'
  BY <1>10 DEF CreateFamily, Observed
<1>11. ASSUME NEW t \in Threads, Find(t) PROVE Counted'
  BY <1>11 DEF Find
<1>12. ASSUME NEW t \in Threads, Mint(t) PROVE Counted'
  BY <1>12 DEF Mint
<1>13. ASSUME NEW t \in Threads, AddTotal(t) PROVE Counted'
  BY <1>13 DEF AddTotal, Return
<1>14. ASSUME NEW t \in Threads, AddErrors(t) PROVE Counted'
  BY <1>14 DEF AddErrors, Return
<1>15. ASSUME NEW t \in Threads, AddPanics(t) PROVE Counted'
  BY <1>15 DEF AddPanics, Return
<1>16. ASSUME NEW c \in Configs, Configure(c) PROVE Counted'
  BY <1>16 DEF Configure, Begun
<1>17. CASE Handle
  BY <1>17 DEF Handle, Begun
<1>18. CASE Shape
  BY <1>18 DEF Shape, Touch
<1>19. CASE ResetCaches
  BY <1>19 DEF ResetCaches, Touch
<1>20. CASE ResetFamily
  BY <1>20 DEF ResetFamily, Touch
<1>21. CASE ClearStatics
  BY <1>21 DEF ClearStatics, Touch, Next_
<1>22. CASE AppendStatic
  BY <1>22 DEF AppendStatic, Next_, Touch
<1>23. ASSUME NEW w \in Workers, Hook(w) PROVE Counted'
  <2>. DEFINE c == incs + deltas
  <2>1. /\ stats' \in Nat /\ prev' = snap[w] /\ prev' \in Nat /\ incs' \in Nat /\ deltas' \in Nat
        /\ snap' \in [Workers -> Nat]
    <3>1. prev' = snap[w] /\ snap' = [snap EXCEPT ![w] = 0] /\ UNCHANGED stats
      BY <1>23 DEF Hook
    <3>2. CASE snap[w] < prev
      BY <1>23, <3>1, <3>2 DEF Hook
    <3>3. CASE snap[w] >= prev
      <4>1. snap[w] - prev \in Nat
        BY <3>3
      <4>. QED
        BY <1>23, <3>1, <4>1 DEF Hook
    <3>. QED
      BY <3>2, <3>3
  <2>2. (snap[w] < prev => c' = c) /\ (snap[w] >= prev => c' = c + (snap[w] - prev))
    BY <1>23, MetricsAssumption DEF Hook
  <2>3. (snap[w] < prev => older') /\ (older => older')
    BY Zenon, <1>23 DEF Hook
  <2>4. c >= prev
    BY Zenon
  <2>5. older \/ c = prev
    BY Zenon
  <2>6. c' >= prev' /\ (older' \/ c' = prev')
    <3>1. CASE snap[w] < prev
      <4>. c' = c /\ prev' < prev
        BY <2>1, <2>2, <3>1
      <4>. c \in Nat /\ prev' \in Nat /\ prev \in Nat
        BY <2>1
      <4>. HIDE DEF c
      <4>1. c' >= prev'
        BY <2>4
      <4>. QED
        BY Zenon, <2>3, <3>1, <4>1
    <3>2. CASE snap[w] >= prev /\ c = prev
      BY <2>1, <2>2, <3>2
    <3>3. CASE snap[w] >= prev /\ older
      <4>1. c' >= prev'
        BY <2>1, <2>2, <2>4, <3>3
      <4>. QED
        BY Zenon, <2>3, <3>3, <4>1
    <3>. QED
      BY <2>1, <2>5, <3>1, <3>2, <3>3
  <2>. QED
    BY Zenon, <2>1, <2>6
<1>24. ASSUME NEW w \in Workers, NEW n \in 1..2, Snapshot(w, n) PROVE Counted'
  BY <1>24 DEF Snapshot, others
<1>25. CASE UNCHANGED vars
  BY <1>25 DEF vars
<1>. QED
  BY <1>1, <1>2, <1>3, <1>4, <1>5, <1>6, <1>7, <1>8, <1>9, <1>10, <1>11, <1>12, <1>13, <1>14,
     <1>15, <1>16, <1>17, <1>18, <1>19, <1>20, <1>21, <1>22, <1>23, <1>24, <1>25 DEF Next,
     ThreadStep, Reset

\* However many workers call the hook, the counters never say less than was processed, and say
\* exactly that unless a worker came with Stats older than those last counted.
THEOREM CountsAll == Spec => []HookExact
<1>1. Init => Counted
  BY DEF Init, Counted, HookExact
<1>2. Counted => HookExact
  BY DEF Counted
<1>. QED
  BY <1>1, <1>2, NextCounted, PTL DEF Spec

----------------------------------------------------------------------------
(* What a reset breaks.                                                     *)

\* configureMetrics is in its locked part when it writes the labels, and nobody looks at them
\* then; who looked before is touched, and so is who is about to use a family that is gone.
Touched ==
  /\ conf.step \in {"shape", "clear", "service", "env"} => conf.init
  /\ \A t \in Threads :
       /\ pc[t] = "copy" /\ conf.step \in {"service", "env"} => t \in touched
       /\ pc[t] = "return" /\ ~family => t \in touched
       /\ pc[t] \in {"broken: map", "broken: nil"} => t \in touched

\* The shape of what the steps below change.
Places ==
  /\ pc = [t \in Threads |-> pc[t]]
  /\ conf = [step |-> conf.step, to |-> conf.to, init |-> conf.init, no |-> conf.no]

\* Every step keeps the shape.
LEMMA NextPlaces == Places /\ [Next]_vars => Places'

<1>. SUFFICES ASSUME Places, [Next]_vars PROVE Places'
  BY SMTT(30)
<1>. USE DEF Places, labels, Go, NoConf
<1>1. ASSUME NEW t \in Threads, NEW k \in Kinds, NEW m \in Names, NEW s \in Subjects, Begin(t, k, m, s)
      PROVE  Places'
  BY ZenonT(40), <1>1 DEF Begin
<1>2. ASSUME NEW t \in Threads, LookLabels(t) PROVE Places'
  BY SMTT(30), <1>2 DEF LookLabels
<1>3. ASSUME NEW t \in Threads, CopyLabels(t) PROVE Places'
  BY <1>3 DEF CopyLabels
<1>4. ASSUME NEW t \in Threads, Finish(t) PROVE Places'
  BY <1>4 DEF Finish
<1>5. ASSUME NEW t \in Threads, Schema(t) PROVE Places'
  BY <1>5 DEF Schema
<1>6. ASSUME NEW t \in Threads, Seen(t) PROVE Places'
  BY <1>6 DEF Seen
<1>7. ASSUME NEW t \in Threads, Register(t) PROVE Places'
  BY <1>7 DEF Register
<1>8. ASSUME NEW t \in Threads, LookFamily(t) PROVE Places'
  BY <1>8 DEF LookFamily
<1>9. ASSUME NEW t \in Threads, ReturnFamily(t) PROVE Places'
  BY <1>9 DEF ReturnFamily, Observed
<1>10. ASSUME NEW t \in Threads, CreateFamily(t) PROVE Places'
  BY <1>10 DEF CreateFamily, Observed
<1>11. ASSUME NEW t \in Threads, Find(t) PROVE Places'
  BY <1>11 DEF Find
<1>12. ASSUME NEW t \in Threads, Mint(t) PROVE Places'
  BY <1>12 DEF Mint
<1>13. ASSUME NEW t \in Threads, AddTotal(t) PROVE Places'
  BY <1>13 DEF AddTotal, Return
<1>14. ASSUME NEW t \in Threads, AddErrors(t) PROVE Places'
  BY <1>14 DEF AddErrors, Return
<1>15. ASSUME NEW t \in Threads, AddPanics(t) PROVE Places'
  BY <1>15 DEF AddPanics, Return
<1>16. ASSUME NEW c \in Configs, Configure(c) PROVE Places'
  BY <1>16 DEF Configure, Begun
<1>17. CASE Handle
  BY <1>17 DEF Handle, Begun
<1>18. CASE Shape
  BY <1>18 DEF Shape, Touch
<1>19. CASE ResetCaches
  BY <1>19 DEF ResetCaches, Touch
<1>20. CASE ResetFamily
  BY <1>20 DEF ResetFamily, Touch
<1>21. CASE ClearStatics
  BY <1>21 DEF ClearStatics, Touch, Next_
<1>22. CASE AppendStatic
  BY <1>22 DEF AppendStatic, Next_, Touch
<1>23. ASSUME NEW w \in Workers, Hook(w) PROVE Places'
  BY <1>23 DEF Hook, others
<1>24. ASSUME NEW w \in Workers, NEW n \in 1..2, Snapshot(w, n) PROVE Places'
  BY <1>24 DEF Snapshot, others
<1>25. CASE UNCHANGED vars
  BY <1>25 DEF vars
<1>. QED
  BY <1>1, <1>2, <1>3, <1>4, <1>5, <1>6, <1>7, <1>8, <1>9, <1>10, <1>11, <1>12, <1>13, <1>14,
     <1>15, <1>16, <1>17, <1>18, <1>19, <1>20, <1>21, <1>22, <1>23, <1>24, <1>25 DEF Next,
     ThreadStep, Reset

\* Every step touches whom it may break.
LEMMA NextTouched == Places /\ Touched /\ [Next]_vars => Touched'
<1>. SUFFICES ASSUME Places, Touched, [Next]_vars PROVE Touched'
  BY SMTT(30)
<1>. USE DEF Places, Touched, registry, labels, Go, NoConf, Registering, LabelsFree, hook
<1>1. ASSUME NEW t \in Threads, NEW k \in Kinds, NEW m \in Names, NEW s \in Subjects, Begin(t, k, m, s)
      PROVE  Touched'
  BY ZenonT(40), <1>1 DEF Begin
<1>2. ASSUME NEW t \in Threads, LookLabels(t) PROVE Touched'
  BY ZenonT(40), <1>2 DEF LookLabels
<1>3. ASSUME NEW t \in Threads, CopyLabels(t) PROVE Touched'
  BY <1>3 DEF CopyLabels
<1>4. ASSUME NEW t \in Threads, Finish(t) PROVE Touched'
  BY <1>4 DEF Finish
<1>5. ASSUME NEW t \in Threads, Schema(t) PROVE Touched'
  BY <1>5 DEF Schema
<1>6. ASSUME NEW t \in Threads, Seen(t) PROVE Touched'
  BY <1>6 DEF Seen
<1>7. ASSUME NEW t \in Threads, Register(t) PROVE Touched'
  BY <1>7 DEF Register
<1>8. ASSUME NEW t \in Threads, LookFamily(t) PROVE Touched'
  BY <1>8 DEF LookFamily
<1>9. ASSUME NEW t \in Threads, ReturnFamily(t) PROVE Touched'
  BY <1>9 DEF ReturnFamily, Observed
<1>10. ASSUME NEW t \in Threads, CreateFamily(t) PROVE Touched'
  BY <1>10 DEF CreateFamily, Observed
<1>11. ASSUME NEW t \in Threads, Find(t) PROVE Touched'
  BY <1>11 DEF Find
<1>12. ASSUME NEW t \in Threads, Mint(t) PROVE Touched'
  BY <1>12 DEF Mint
<1>13. ASSUME NEW t \in Threads, AddTotal(t) PROVE Touched'
  BY <1>13 DEF AddTotal, Return
<1>14. ASSUME NEW t \in Threads, AddErrors(t) PROVE Touched'
  BY <1>14 DEF AddErrors, Return
<1>15. ASSUME NEW t \in Threads, AddPanics(t) PROVE Touched'
  BY <1>15 DEF AddPanics, Return
<1>16. ASSUME NEW c \in Configs, Configure(c) PROVE Touched'
  BY <1>16 DEF Configure, Begun
<1>17. CASE Handle
  BY <1>17 DEF Handle, Begun
<1>18. CASE Shape
  BY <1>18 DEF Shape, Touch
<1>19. CASE ResetCaches
  BY <1>19 DEF ResetCaches, Touch
<1>20. CASE ResetFamily
  BY <1>20 DEF ResetFamily, Touch
<1>21. CASE ClearStatics
  BY <1>21 DEF ClearStatics, Touch, Next_
<1>22. CASE AppendStatic
  BY <1>22 DEF AppendStatic, Next_, Touch
<1>23. ASSUME NEW w \in Workers, Hook(w) PROVE Touched'
  BY <1>23 DEF Hook, others
<1>24. ASSUME NEW w \in Workers, NEW n \in 1..2, Snapshot(w, n) PROVE Touched'
  BY <1>24 DEF Snapshot, others
<1>25. CASE UNCHANGED vars
  BY <1>25 DEF vars
<1>. QED
  BY <1>1, <1>2, <1>3, <1>4, <1>5, <1>6, <1>7, <1>8, <1>9, <1>10, <1>11, <1>12, <1>13, <1>14,
     <1>15, <1>16, <1>17, <1>18, <1>19, <1>20, <1>21, <1>22, <1>23, <1>24, <1>25 DEF Next,
     ThreadStep, Reset

\* Recording an operation or an event breaks its caller only if an Init or a MetricsHandler came
\* in between, whatever the schema, the labels and the names.
THEOREM BreaksByReset == Spec => []BreaksOnlyByReset
<1>1. Init => Places /\ Touched
  BY DEF Init, NoConf, Places, Touched
<1>2. Touched => BreaksOnlyByReset
  BY DEF Touched, BreaksOnlyByReset
<1>. QED
  BY <1>1, <1>2, NextPlaces, NextTouched, PTL DEF Spec

----------------------------------------------------------------------------
(* What a scrape shows.                                                     *)

Counters == {"total", "error_total", "panic_total"}

\* The goroutines that owe family f an error or a panic.
Owing(f, p) == {t \in Threads : pc[t] = p /\ call[t].family = f}

Shapes ==
  /\ pc = [t \in Threads |-> pc[t]] /\ call = [t \in Threads |-> call[t]]
  /\ count = [s \in DOMAIN count |-> count[s]] /\ \A s \in DOMAIN count : count[s] \in Nat

\* Each family has a total for every error it has or is owed, and an error for every panic.
Ledger ==
  \A f :
    /\ IsFiniteSet(Owing(f, "errors")) /\ IsFiniteSet(Owing(f, "panics"))
    /\ Count(f, "error_total") + Cardinality(Owing(f, "errors")) <= Count(f, "total")
    /\ Count(f, "panic_total") + Cardinality(Owing(f, "panics")) <= Count(f, "error_total")

\* The goroutines' calls are functions, and the counters count.
LEMMA NextShapes == Shapes /\ [Next]_vars => Shapes'
<1>. SUFFICES ASSUME Shapes, [Next]_vars PROVE Shapes'
  BY SMTT(30)
<1>. USE DEF Shapes, Go, Add
<1>1. ASSUME NEW t \in Threads, NEW k \in Kinds, NEW m \in Names, NEW s \in Subjects, Begin(t, k, m, s)
      PROVE  Shapes'
  BY <1>1 DEF Begin
<1>2. ASSUME NEW t \in Threads, LookLabels(t) PROVE Shapes'
  BY <1>2 DEF LookLabels
<1>3. ASSUME NEW t \in Threads, CopyLabels(t) PROVE Shapes'
  BY ZenonT(40), <1>3 DEF CopyLabels
<1>4. ASSUME NEW t \in Threads, Finish(t) PROVE Shapes'
  BY <1>4 DEF Finish
<1>5. ASSUME NEW t \in Threads, Schema(t) PROVE Shapes'
  BY <1>5 DEF Schema
<1>6. ASSUME NEW t \in Threads, Seen(t) PROVE Shapes'
  BY <1>6 DEF Seen
<1>7. ASSUME NEW t \in Threads, Register(t) PROVE Shapes'
  BY <1>7 DEF Register
<1>8. ASSUME NEW t \in Threads, LookFamily(t) PROVE Shapes'
  BY <1>8 DEF LookFamily
<1>9. ASSUME NEW t \in Threads, ReturnFamily(t) PROVE Shapes'
  BY <1>9 DEF ReturnFamily, Observed
<1>10. ASSUME NEW t \in Threads, CreateFamily(t) PROVE Shapes'
  BY <1>10 DEF CreateFamily, Observed
<1>11. ASSUME NEW t \in Threads, Find(t) PROVE Shapes'
  BY <1>11 DEF Find
<1>12. ASSUME NEW t \in Threads, Mint(t) PROVE Shapes'
  BY <1>12 DEF Mint
<1>13. ASSUME NEW t \in Threads, AddTotal(t) PROVE Shapes'
  BY <1>13 DEF AddTotal, Return
<1>14. ASSUME NEW t \in Threads, AddErrors(t) PROVE Shapes'
  BY <1>14 DEF AddErrors, Return
<1>15. ASSUME NEW t \in Threads, AddPanics(t) PROVE Shapes'
  <2>1. Add(<<call[t].family, "panic_total">>)
    BY <1>15 DEF AddPanics
  <2>2. count' = [s \in DOMAIN count' |-> count'[s]] /\ \A s \in DOMAIN count' : count'[s] \in Nat
    BY <2>1
  <2>3. pc' = [u \in Threads |-> pc'[u]] /\ call' = [u \in Threads |-> call'[u]]
    BY <1>15 DEF AddPanics, Return
  <2>. QED
    BY <2>2, <2>3
<1>16. ASSUME NEW c \in Configs, Configure(c) PROVE Shapes'
  BY <1>16 DEF Configure, Begun
<1>17. CASE Handle
  BY <1>17 DEF Handle, Begun
<1>18. CASE Shape
  BY <1>18 DEF Shape, Touch
<1>19. CASE ResetCaches
  BY <1>19 DEF ResetCaches, Touch
<1>20. CASE ResetFamily
  BY <1>20 DEF ResetFamily, Touch
<1>21. CASE ClearStatics
  BY <1>21 DEF ClearStatics, Touch, Next_
<1>22. CASE AppendStatic
  BY <1>22 DEF AppendStatic, Next_, Touch
<1>23. ASSUME NEW w \in Workers, Hook(w) PROVE Shapes'
  BY <1>23 DEF Hook, others
<1>24. ASSUME NEW w \in Workers, NEW n \in 1..2, Snapshot(w, n) PROVE Shapes'
  BY <1>24 DEF Snapshot, others
<1>25. CASE UNCHANGED vars
  BY <1>25 DEF vars
<1>. QED
  BY <1>1, <1>2, <1>3, <1>4, <1>5, <1>6, <1>7, <1>8, <1>9, <1>10, <1>11, <1>12, <1>13, <1>14,
     <1>15, <1>16, <1>17, <1>18, <1>19, <1>20, <1>21, <1>22, <1>23, <1>24, <1>25 DEF Next,
     ThreadStep, Reset

\* Three actions count; the others leave what is owed alone.
LEMMA Counting ==
  ASSUME Shapes, [Next]_vars
  PROVE  \/ \E t \in Threads : AddTotal(t) \/ AddErrors(t) \/ AddPanics(t)
         \/ UNCHANGED count /\ \A f : \A p \in {"errors", "panics"} : Owing(f, p)' = Owing(f, p)
<1>. DEFINE Same == UNCHANGED count /\ \A f : \A p \in {"errors", "panics"} : Owing(f,
   p)' = Owing(f, p)
<1>. USE DEF Shapes, Go, Owing
<1>1. ASSUME NEW t \in Threads, NEW k \in Kinds, NEW m \in Names, NEW s \in Subjects, Begin(t, k, m, s)
      PROVE  Same
  BY <1>1 DEF Begin
<1>2. ASSUME NEW t \in Threads, LookLabels(t) PROVE Same
  BY <1>2 DEF LookLabels
<1>3. ASSUME NEW t \in Threads, CopyLabels(t) PROVE Same
  BY ZenonT(40), <1>3 DEF CopyLabels
<1>4. ASSUME NEW t \in Threads, Finish(t) PROVE Same
  BY <1>4 DEF Finish
<1>5. ASSUME NEW t \in Threads, Schema(t) PROVE Same
  BY <1>5 DEF Schema
<1>6. ASSUME NEW t \in Threads, Seen(t) PROVE Same
  BY <1>6 DEF Seen
<1>7. ASSUME NEW t \in Threads, Register(t) PROVE Same
  BY <1>7 DEF Register
<1>8. ASSUME NEW t \in Threads, LookFamily(t) PROVE Same
  BY <1>8 DEF LookFamily
<1>9. ASSUME NEW t \in Threads, ReturnFamily(t) PROVE Same
  BY <1>9 DEF ReturnFamily, Observed
<1>10. ASSUME NEW t \in Threads, CreateFamily(t) PROVE Same
  BY <1>10 DEF CreateFamily, Observed
<1>11. ASSUME NEW t \in Threads, Find(t) PROVE Same
  BY <1>11 DEF Find
<1>12. ASSUME NEW t \in Threads, Mint(t) PROVE Same
  BY <1>12 DEF Mint
<1>16. ASSUME NEW c \in Configs, Configure(c) PROVE Same
  BY <1>16 DEF Configure, Begun
<1>17. Handle => Same
  BY DEF Handle, Begun
<1>18. Shape => Same
  BY DEF Shape, Touch
<1>19. ResetCaches => Same
  BY DEF ResetCaches, Touch
<1>20. ResetFamily => Same
  BY DEF ResetFamily, Touch
<1>21. ClearStatics => Same
  BY DEF ClearStatics, Touch, Next_
<1>22. AppendStatic => Same
  BY DEF AppendStatic, Next_, Touch
<1>23. ASSUME NEW w \in Workers, Hook(w) PROVE Same
  BY <1>23 DEF Hook, others
<1>24. ASSUME NEW w \in Workers, NEW n \in 1..2, Snapshot(w, n) PROVE Same
  BY <1>24 DEF Snapshot, others
<1>25. UNCHANGED vars => Same
  BY DEF vars
<1>. HIDE DEF Same, Shapes, Go, Owing
<1>. QED
  BY Zenon, <1>1, <1>2, <1>3, <1>4, <1>5, <1>6, <1>7, <1>8, <1>9, <1>10, <1>11, <1>12, <1>16,
     <1>17, <1>18, <1>19, <1>20, <1>21, <1>22, <1>23, <1>24, <1>25 DEF Next, ThreadStep,
     Reset, Same

\* Counting one adds one to a counter and leaves the others alone.
LEMMA Added ==
  ASSUME Shapes, NEW f, NEW x \in Counters, Add(<<f, x>>)
  PROVE  \A g : \A y \in Counters :
           /\ Count(g, y) \in Nat
           /\ Count(g, y)' = IF g = f /\ y = x THEN Count(g, y) + 1 ELSE Count(g, y)
  BY DEF Shapes, Add, Count, Counters

\* Counters are natural numbers.
LEMMA Counts == Shapes => \A g : \A y \in Counters : Count(g, y) \in Nat
  BY DEF Shapes, Count

\* AddTotal pays before anybody owes.
LEMMA TotalLedger == ASSUME Shapes, Ledger, NEW t \in Threads, AddTotal(t) PROVE Ledger'
<1>0. PICK f : f = call[t].family
  OBVIOUS
<1>1. \A g : \A y \in Counters :
        /\ Count(g, y) \in Nat
        /\ Count(g, y)' = IF g = f /\ y = "total" THEN Count(g, y) + 1 ELSE Count(g, y)
  BY ZenonT(40), <1>0, Added DEF AddTotal, Counters
<1>2. \A g : Owing(g, "panics")' = Owing(g, "panics")
  BY <1>0 DEF AddTotal, Return, Go, Owing, Shapes
<1>3. \A g : g # f => Owing(g, "errors")' = Owing(g, "errors")
  BY <1>0 DEF AddTotal, Return, Go, Owing, Shapes
<1>4. Owing(f, "errors")' = Owing(f, "errors") \/ Owing(f, "errors")' = Owing(f, "errors") \cup {t}
  BY <1>0 DEF AddTotal, Return, Go, Owing, Shapes
<1>5. t \notin Owing(f, "errors")
  BY <1>0 DEF AddTotal, Owing
<1>6. /\ IsFiniteSet(Owing(f, "errors")') /\ Cardinality(Owing(f, "errors")') \in Nat
      /\ Cardinality(Owing(f, "errors")') <= Cardinality(Owing(f, "errors")) + 1
      /\ Cardinality(Owing(f, "errors")) \in Nat
  <2>1. IsFiniteSet(Owing(f, "errors")) /\ Cardinality(Owing(f, "errors")) \in Nat
    BY FS_CardinalityType DEF Ledger
  <2>2. CASE Owing(f, "errors")' = Owing(f, "errors")
    BY <2>1, <2>2
  <2>3. CASE Owing(f, "errors")' = Owing(f, "errors") \cup {t}
    BY <2>1, <2>3, <1>5, FS_AddElement
  <2>. QED
    BY <1>4, <2>2, <2>3
<1>7. \A g : Cardinality(Owing(g, "errors")) \in Nat /\ Cardinality(Owing(g, "panics")) \in Nat
  BY FS_CardinalityType DEF Ledger
<1>. QED
  BY <1>1, <1>2, <1>3, <1>6, <1>7 DEF Ledger, Counters

\* AddErrors pays an error before it owes a panic.
LEMMA ErrorsLedger == ASSUME Shapes, Ledger, NEW t \in Threads, AddErrors(t) PROVE Ledger'
<1>0. PICK f : f = call[t].family
  OBVIOUS
<1>1. \A g : \A y \in Counters :
        /\ Count(g, y) \in Nat
        /\ Count(g, y)' = IF g = f /\ y = "error_total" THEN Count(g, y) + 1 ELSE Count(g, y)
  BY ZenonT(40), <1>0, Added DEF AddErrors, Counters
<1>2. \A g : g # f => Owing(g, "errors")' = Owing(g, "errors") /\ Owing(g, "panics")' = Owing(g, "panics")
  BY <1>0 DEF AddErrors, Return, Go, Owing, Shapes
<1>3. Owing(f, "errors")' = Owing(f, "errors") \ {t} /\ t \in Owing(f, "errors")
  BY <1>0 DEF AddErrors, Return, Go, Owing, Shapes
<1>4. Owing(f, "panics")' = Owing(f, "panics") \/ Owing(f, "panics")' = Owing(f, "panics") \cup {t}
  BY <1>0 DEF AddErrors, Return, Go, Owing, Shapes
<1>5. t \notin Owing(f, "panics")
  BY <1>0 DEF AddErrors, Owing
<1>6. \A g : Cardinality(Owing(g, "errors")) \in Nat /\ Cardinality(Owing(g, "panics")) \in Nat
  BY FS_CardinalityType DEF Ledger
<1>7. /\ IsFiniteSet(Owing(f, "errors")')
      /\ Cardinality(Owing(f, "errors")') = Cardinality(Owing(f, "errors")) - 1
  BY <1>3, FS_RemoveElement DEF Ledger
<1>8. /\ IsFiniteSet(Owing(f, "panics")') /\ Cardinality(Owing(f, "panics")') \in Nat
      /\ Cardinality(Owing(f, "panics")') <= Cardinality(Owing(f, "panics")) + 1
  <2>1. IsFiniteSet(Owing(f, "panics")) /\ Cardinality(Owing(f, "panics")) \in Nat
    BY <1>6 DEF Ledger
  <2>2. CASE Owing(f, "panics")' = Owing(f, "panics")
    BY <2>1, <2>2
  <2>3. CASE Owing(f, "panics")' = Owing(f, "panics") \cup {t}
    BY <2>1, <2>3, <1>5, FS_AddElement
  <2>. QED
    BY <1>4, <2>2, <2>3
<1>. QED
  BY <1>1, <1>2, <1>6, <1>7, <1>8 DEF Ledger, Counters

\* AddPanics pays the panic.
LEMMA PanicsLedger == ASSUME Shapes, Ledger, NEW t \in Threads, AddPanics(t) PROVE Ledger'
<1>0. PICK f : f = call[t].family
  OBVIOUS
<1>1. \A g : \A y \in Counters :
        /\ Count(g, y) \in Nat
        /\ Count(g, y)' = IF g = f /\ y = "panic_total" THEN Count(g, y) + 1 ELSE Count(g, y)
  BY ZenonT(40), <1>0, Added DEF AddPanics, Counters
<1>2. \A g : Owing(g, "errors")' = Owing(g, "errors") /\ (g # f => Owing(g, "panics")' = Owing(g, "panics"))
  BY <1>0 DEF AddPanics, Return, Go, Owing, Shapes
<1>3. Owing(f, "panics")' = Owing(f, "panics") \ {t} /\ t \in Owing(f, "panics")
  BY <1>0 DEF AddPanics, Return, Go, Owing, Shapes
<1>4. \A g : Cardinality(Owing(g, "errors")) \in Nat /\ Cardinality(Owing(g, "panics")) \in Nat
  BY FS_CardinalityType DEF Ledger
<1>5. /\ IsFiniteSet(Owing(f, "panics")')
      /\ Cardinality(Owing(f, "panics")') = Cardinality(Owing(f, "panics")) - 1
  BY <1>3, FS_RemoveElement DEF Ledger
<1>. QED
  BY <1>1, <1>2, <1>4, <1>5 DEF Ledger, Counters

\* Every step keeps the ledger.
LEMMA NextLedger == Shapes /\ Ledger /\ [Next]_vars => Ledger'
<1>. SUFFICES ASSUME Shapes, Ledger, [Next]_vars PROVE Ledger'
  OBVIOUS
<1>1. CASE UNCHANGED count /\ \A f : \A p \in {"errors", "panics"} : Owing(f, p)' = Owing(f, p)
  BY <1>1 DEF Ledger, Count
<1>. QED
  BY <1>1, Counting, TotalLedger, ErrorsLedger, PanicsLedger

\* However many goroutines record at the same time, no scrape ever shows more panics than errors
\* or more errors than operations.
THEOREM ScrapesConsistent == Spec => []ScrapeConsistent
<1>1. Init => Shapes /\ Ledger
  <2>1. Init => \A f : \A p \in {"errors", "panics"} : Owing(f, p) = {}
    BY DEF Init, Owing
  <2>2. Init => \A f : \A x \in Counters : Count(f, x) = 0
    BY DEF Init, Count
  <2>3. Init => Shapes
    BY DEF Init, Shapes
  <2>. QED
    BY <2>1, <2>2, <2>3, FS_EmptySet DEF Ledger, Counters
<1>2. Shapes /\ Ledger => ScrapeConsistent
  BY Counts, FS_CardinalityType DEF Ledger, ScrapeConsistent, Counters
<1>. QED
  BY <1>1, <1>2, NextShapes, NextLedger, PTL DEF Spec

----------------------------------------------------------------------------
(* Places, calls and configurations have their types.                      *)

Positions == {"idle", "labels", "copy", "running", "schema", "errors", "panics",
              "broken: map", "broken: nil map", "broken: nil"} \cup Registering

Fields == {"kind", "safe", "keys", "look", "labels", "users", "outcome", "schema", "had", "label", "family"}
Shaped(c) == c = [f \in Fields |-> c[f]]

Forms ==
  /\ pc \in [Threads -> Positions] /\ touched \subseteq Threads
  /\ call = [t \in Threads |-> call[t]]
  /\ \A t \in Threads : Shaped(call[t]) /\ call[t].kind \in Kinds

\* What configureMetrics works on.
Asked == Configs \cup {NoConf.to}
Request(c) ==
  /\ c = [step |-> c.step, to |-> c.to, init |-> c.init, no |-> c.no]
  /\ c.to \in Asked /\ c.init \in BOOLEAN /\ c.no \in Nat
  /\ c.step \in {"idle", "shape", "caches", "set", "clear", "service", "env"}

Requests ==
  /\ Request(conf) /\ Request(current) /\ resets \in Nat
  /\ conf.step \in {"shape", "clear", "service", "env"} => conf.init
  /\ conf.init => conf.step # "idle" /\ current.to = conf.to /\ current.no = conf.no

\* The array in use holds the first n static labels that r asks for, and the map names them.
Cells == [key : {"service", "env"}, no : Nat]
Holds(r, n) ==
  /\ \A i \in 1..n : cells[statics.cap][i] = [key |-> r.to.statics[i], no |-> r.no]
  /\ staticKV = {r.to.statics[i] : i \in 1..n}

Arrays ==
  /\ statics = [cap |-> statics.cap, len |-> statics.len]
  /\ statics.cap \in 0..2 /\ statics.len \in 0..statics.cap
  /\ cells \in [0..2 -> Seq(Cells)] /\ \A c \in 0..2 : Len(cells[c]) <= c
  /\ Len(cells[statics.cap]) = statics.cap
  /\ labelAllowed = {"service", "env"} \cup current.to.labels
  /\ conf.step \in {"service", "env"} =>
       /\ statics.len < Len(conf.to.statics) /\ conf.step = conf.to.statics[statics.len + 1]
       /\ Holds(conf, statics.len)
  /\ LabelsFree => statics.len = Len(current.to.statics) /\ Holds(current, statics.len)

\* There are two static labels.
LEMMA Configured ==
  ASSUME NEW to \in Asked
  PROVE  /\ to.statics \in Seq({"service", "env"}) /\ Len(to.statics) \in 0..2
         /\ to.schema \in {"perOp", "labeled", "both"}
<1>1. CASE to = NoConf.to
  <2>1. to.statics = <<>> /\ to.schema = "perOp"
    BY <1>1 DEF NoConf
  <2>. QED
    BY <2>1
<1>2. CASE to \in Configs
  <2>1. /\ to.statics \in Seq({"service", "env"}) /\ to.schema \in {"perOp", "labeled", "both"}
        /\ \A a, b \in DOMAIN to.statics : to.statics[a] = to.statics[b] => a = b
    BY <1>2, MetricsAssumption DEF IsInjective
  <2>. DEFINE s == to.statics
  <2>2. s \in Seq({"service", "env"}) /\ \A a, b \in DOMAIN s : s[a] = s[b] => a = b
    BY <2>1
  <2>. HIDE DEF s
  <2>3. Len(s) \in Nat /\ DOMAIN s = 1..Len(s) /\ \A i \in 1..Len(s) : s[i] \in {"service", "env"}
    BY <2>2
  <2>4. ~(Len(s) > 2)
    <3>. SUFFICES ASSUME Len(s) > 2 PROVE FALSE
      OBVIOUS
    <3>1. 1 \in 1..Len(s) /\ 2 \in 1..Len(s) /\ 3 \in 1..Len(s)
      BY <2>3
    <3>2. s[1] # s[2] /\ s[2] # s[3] /\ s[1] # s[3]
      BY <2>2, <2>3, <3>1
    <3>3. s[1] \in {"service", "env"} /\ s[2] \in {"service", "env"} /\ s[3] \in {"service", "env"}
      BY <2>3, <3>1
    <3>. QED
      BY <3>2, <3>3
  <2>5. Len(s) \in 0..2
    BY <2>3, <2>4
  <2>. QED
    BY <2>1, <2>5 DEF s
<1>. QED
  BY <1>1, <1>2 DEF Asked

\* A call that begins.
LEMMA NoCallShaped ==
  ASSUME NEW k, NEW n, NEW f
  PROVE  /\ Shaped(NoCall) /\ NoCall.kind \in Kinds
         /\ LET e == [NoCall EXCEPT !.kind = k, !.safe = n, !.keys = f]
            IN  Shaped(e) /\ e.kind = k /\ e.safe = n
BY DEF NoCall, Shaped, Fields, Kinds

\* A step of a goroutine leaves the others alone, and everything that configureMetrics writes.
LEMMA ThreadFrame ==
  ASSUME Forms, NEW t \in Threads, ThreadStep(t)
  PROVE  /\ UNCHANGED <<labels, conf, hook, resets, schema>> /\ touched' \in {touched, touched \ {t}}
         /\ \A o \in Threads : o # t => pc'[o] = pc[o] /\ call'[o] = call[o]
         /\ Forms'
<1>. USE DEF Go, labels, Positions, Registering
<1>0. /\ pc \in [Threads -> Positions] /\ touched \subseteq Threads /\ t \in Threads
      /\ call = [u \in Threads |-> call[u]]
      /\ \A u \in Threads : Shaped(call[u]) /\ call[u].kind \in Kinds
  BY DEF Forms
<1>1. ASSUME NEW p \in Positions, pc' = [pc EXCEPT ![t] = p],
             NEW c, Shaped(c), c.kind \in Kinds, call' = [call EXCEPT ![t] = c],
             touched' \in {touched, touched \ {t}}
      PROVE  /\ \A o \in Threads : o # t => pc'[o] = pc[o] /\ call'[o] = call[o]
             /\ Forms'
  <2>1. pc' \in [Threads -> Positions] /\ \A o \in Threads : o # t => pc'[o] = pc[o]
    BY <1>0, <1>1
  <2>2. /\ call' = [u \in Threads |-> call'[u]] /\ call'[t] = c
        /\ \A o \in Threads : o # t => call'[o] = call[o]
    BY <1>0, <1>1
  <2>. HIDE DEF Positions
  <2>. QED
    BY <1>0, <1>1, <2>1, <2>2 DEF Forms
<1>2. ASSUME NEW p \in Positions, pc' = [pc EXCEPT ![t] = p], UNCHANGED <<call, touched>>
      PROVE  /\ \A o \in Threads : o # t => pc'[o] = pc[o] /\ call'[o] = call[o]
             /\ Forms'
  <2>1. call' = [call EXCEPT ![t] = call[t]]
    BY <1>0, <1>2
  <2>. QED
    BY <1>0, <1>1, <1>2, <2>1
<1>3. Shaped(NoCall) /\ NoCall.kind \in Kinds
  BY NoCallShaped
<1>4. ASSUME NEW k \in Kinds, NEW n \in Names, NEW s \in Subjects, Begin(t, k, n, s)
      PROVE  /\ \A o \in Threads : o # t => pc'[o] = pc[o] /\ call'[o] = call[o]
             /\ Forms'
  <2>. DEFINE f == extractFields(s) \cup IF k = "event" /\ s.kind = "map" THEN {"event"} ELSE {}
              e == [NoCall EXCEPT !.kind = k, !.safe = sanitizeMetricName(n), !.keys = f]
  <2>1. call' = [call EXCEPT ![t] = e] /\ touched' = touched \ {t}
    BY <1>4 DEF Begin
  <2>2. Shaped(e) /\ e.kind = k
    <3>. HIDE DEF f
    <3>. QED
      BY DEF NoCall, Shaped, Fields
  <2>3. \E p \in {"broken: nil map", "labels"} : pc' = [pc EXCEPT ![t] = p]
    BY <1>4 DEF Begin
  <2>. HIDE DEF e
  <2>. QED
    BY <1>1, <2>1, <2>2, <2>3
<1>5. ASSUME LookLabels(t)
      PROVE  /\ \A o \in Threads : o # t => pc'[o] = pc[o] /\ call'[o] = call[o]
             /\ Forms'
  <2>1. (\E p \in {"copy"} : pc' = [pc EXCEPT ![t] = p]) /\ UNCHANGED touched
    BY <1>5 DEF LookLabels
  <2>2. call' = [call EXCEPT ![t] = [call[t] EXCEPT !.look = Look]]
    BY <1>0, <1>5 DEF LookLabels
  <2>3. Shaped([call[t] EXCEPT !.look = Look]) /\ [call[t] EXCEPT !.look = Look].kind = call[t].kind
    BY <1>0 DEF Shaped, Fields
  <2>. QED
    BY <1>0, <1>1, <2>1, <2>2, <2>3
<1>6. ASSUME CopyLabels(t)
      PROVE  /\ \A o \in Threads : o # t => pc'[o] = pc[o] /\ call'[o] = call[o]
             /\ Forms'
  <2>1. (\E p \in {"running", "schema", "broken: map"} : pc' = [pc EXCEPT ![t] = p]) /\ UNCHANGED touched
    BY <1>6 DEF CopyLabels
  <2>2. PICK v, w : call' = [call EXCEPT ![t].labels = v, ![t].users = w]
    BY <1>6, Zenon DEF CopyLabels
  <2>3. call' = [call EXCEPT ![t] = [call[t] EXCEPT !.labels = v, !.users = w]]
    BY <1>0, <2>2
  <2>4. Shaped([call[t] EXCEPT !.labels = v, !.users = w]) /\ [call[t] EXCEPT !.labels = v, !.users = w].kind = call[t].kind
    BY <1>0 DEF Shaped, Fields
  <2>. QED
    BY <1>0, <1>1, <2>1, <2>3, <2>4
<1>7. ASSUME Finish(t)
      PROVE  /\ \A o \in Threads : o # t => pc'[o] = pc[o] /\ call'[o] = call[o]
             /\ Forms'
  <2>1. pc' = [pc EXCEPT ![t] = "schema"] /\ UNCHANGED touched
    BY <1>7 DEF Finish
  <2>2. PICK v : call' = [call EXCEPT ![t] = [call[t] EXCEPT !.outcome = v]]
    BY <1>0, <1>7 DEF Finish
  <2>3. Shaped([call[t] EXCEPT !.outcome = v]) /\ [call[t] EXCEPT !.outcome = v].kind = call[t].kind
    BY <1>0 DEF Shaped, Fields
  <2>. QED
    BY <1>0, <1>1, <2>1, <2>2, <2>3
<1>8. ASSUME Schema(t)
      PROVE  /\ \A o \in Threads : o # t => pc'[o] = pc[o] /\ call'[o] = call[o]
             /\ Forms'
  <2>. DEFINE e == [call[t] EXCEPT !.keys = {}, !.look = NoLook, !.labels = <<>>, !.users = {},
                                  !.schema = schema, !.had = Has(t)]
  <2>1. (\E p \in {"seen", "find"} : pc' = [pc EXCEPT ![t] = p]) /\ touched' = touched \ {t}
    BY <1>8 DEF Schema
  <2>2. call' = [call EXCEPT ![t] = e]
    BY <1>0, <1>8 DEF Schema
  <2>3. Shaped(e) /\ e.kind = call[t].kind
    BY <1>0 DEF Shaped, Fields
  <2>. HIDE DEF e
  <2>. QED
    BY <1>0, <1>1, <2>1, <2>2, <2>3
<1>9. ASSUME Seen(t)
      PROVE  /\ \A o \in Threads : o # t => pc'[o] = pc[o] /\ call'[o] = call[o]
             /\ Forms'
  <2>1. (\E p \in {"family", "register"} : pc' = [pc EXCEPT ![t] = p]) /\ UNCHANGED touched
    BY <1>9 DEF Seen
  <2>2. \/ call' = [call EXCEPT ![t] = [call[t] EXCEPT !.label = call[t].safe]]
        \/ call' = [call EXCEPT ![t] = [call[t] EXCEPT !.label = Overflow]]
        \/ UNCHANGED call
    BY <1>0, <1>9 DEF Seen
  <2>3. /\ Shaped([call[t] EXCEPT !.label = call[t].safe]) /\ [call[t] EXCEPT !.label = call[t].safe].kind = call[t].kind
        /\ Shaped([call[t] EXCEPT !.label = Overflow]) /\ [call[t] EXCEPT !.label = Overflow].kind = call[t].kind
    BY <1>0 DEF Shaped, Fields
  <2>. QED
    BY <1>2, <1>0, <1>1, <2>1, <2>2, <2>3
<1>10. ASSUME Register(t)
      PROVE  /\ \A o \in Threads : o # t => pc'[o] = pc[o] /\ call'[o] = call[o]
             /\ Forms'
  <2>1. (\E p \in {"family"} : pc' = [pc EXCEPT ![t] = p]) /\ UNCHANGED touched
    BY <1>10 DEF Register
  <2>2. \/ call' = [call EXCEPT ![t] = [call[t] EXCEPT !.label = call[t].safe]]
        \/ call' = [call EXCEPT ![t] = [call[t] EXCEPT !.label = Overflow]]
    BY <1>0, <1>10 DEF Register
  <2>3. /\ Shaped([call[t] EXCEPT !.label = call[t].safe]) /\ [call[t] EXCEPT !.label = call[t].safe].kind = call[t].kind
        /\ Shaped([call[t] EXCEPT !.label = Overflow]) /\ [call[t] EXCEPT !.label = Overflow].kind = call[t].kind
    BY <1>0 DEF Shaped, Fields
  <2>. QED
    BY <1>0, <1>1, <2>1, <2>2, <2>3
<1>11. ASSUME LookFamily(t)
      PROVE  /\ \A o \in Threads : o # t => pc'[o] = pc[o] /\ call'[o] = call[o]
             /\ Forms'
  <2>1. (\E p \in {"return", "create"} : pc' = [pc EXCEPT ![t] = p]) /\ UNCHANGED <<call, touched>>
    BY <1>11 DEF LookFamily
  <2>. QED
    BY <1>2, <2>1
<1>12. ASSUME ReturnFamily(t)
      PROVE  /\ \A o \in Threads : o # t => pc'[o] = pc[o] /\ call'[o] = call[o]
             /\ Forms'
  <2>1. (\E p \in {"find", "idle", "broken: nil"} : pc' = [pc EXCEPT ![t] = p]) /\ UNCHANGED touched
    BY <1>12 DEF ReturnFamily, Observed
  <2>2. \/ UNCHANGED call
        \/ call' = [call EXCEPT ![t] = NoCall]
    BY <1>0, <1>12 DEF ReturnFamily, Observed
  <2>. QED
    BY <1>3, <1>2, <1>1, <2>1, <2>2
<1>13. ASSUME CreateFamily(t)
      PROVE  /\ \A o \in Threads : o # t => pc'[o] = pc[o] /\ call'[o] = call[o]
             /\ Forms'
  <2>1. (\E p \in {"find", "idle"} : pc' = [pc EXCEPT ![t] = p]) /\ UNCHANGED touched
    BY <1>13 DEF CreateFamily, Observed
  <2>2. \/ UNCHANGED call
        \/ call' = [call EXCEPT ![t] = NoCall]
    BY <1>0, <1>13 DEF CreateFamily, Observed
  <2>. QED
    BY <1>3, <1>2, <1>1, <2>1, <2>2
<1>14. ASSUME Find(t)
      PROVE  /\ \A o \in Threads : o # t => pc'[o] = pc[o] /\ call'[o] = call[o]
             /\ Forms'
  <2>1. (\E p \in {"total", "mint"} : pc' = [pc EXCEPT ![t] = p]) /\ UNCHANGED touched
    BY <1>14 DEF Find
  <2>2. \/ call' = [call EXCEPT ![t] = [call[t] EXCEPT !.family = call[t].safe]]
        \/ UNCHANGED call
    BY <1>0, <1>14 DEF Find
  <2>3. Shaped([call[t] EXCEPT !.family = call[t].safe]) /\ [call[t] EXCEPT !.family = call[t].safe].kind = call[t].kind
    BY <1>0 DEF Shaped, Fields
  <2>. QED
    BY <1>2, <1>0, <1>1, <2>1, <2>2, <2>3
<1>15. ASSUME Mint(t)
      PROVE  /\ \A o \in Threads : o # t => pc'[o] = pc[o] /\ call'[o] = call[o]
             /\ Forms'
  <2>1. (\E p \in {"total"} : pc' = [pc EXCEPT ![t] = p]) /\ UNCHANGED touched
    BY <1>15 DEF Mint
  <2>2. \/ call' = [call EXCEPT ![t] = [call[t] EXCEPT !.family = call[t].safe]]
        \/ call' = [call EXCEPT ![t] = [call[t] EXCEPT !.family = Overflow]]
    BY <1>0, <1>15 DEF Mint
  <2>3. /\ Shaped([call[t] EXCEPT !.family = call[t].safe]) /\ [call[t] EXCEPT !.family = call[t].safe].kind = call[t].kind
        /\ Shaped([call[t] EXCEPT !.family = Overflow]) /\ [call[t] EXCEPT !.family = Overflow].kind = call[t].kind
    BY <1>0 DEF Shaped, Fields
  <2>. QED
    BY <1>0, <1>1, <2>1, <2>2, <2>3
<1>16. ASSUME AddTotal(t)
      PROVE  /\ \A o \in Threads : o # t => pc'[o] = pc[o] /\ call'[o] = call[o]
             /\ Forms'
  <2>1. (\E p \in {"idle", "errors"} : pc' = [pc EXCEPT ![t] = p]) /\ UNCHANGED touched
    BY <1>16 DEF AddTotal, Return
  <2>2. \/ UNCHANGED call
        \/ call' = [call EXCEPT ![t] = NoCall]
    BY <1>0, <1>16 DEF AddTotal, Return
  <2>. QED
    BY <1>3, <1>2, <1>1, <2>1, <2>2
<1>17. ASSUME AddErrors(t)
      PROVE  /\ \A o \in Threads : o # t => pc'[o] = pc[o] /\ call'[o] = call[o]
             /\ Forms'
  <2>1. (\E p \in {"idle", "panics"} : pc' = [pc EXCEPT ![t] = p]) /\ UNCHANGED touched
    BY <1>17 DEF AddErrors, Return
  <2>2. \/ UNCHANGED call
        \/ call' = [call EXCEPT ![t] = NoCall]
    BY <1>0, <1>17 DEF AddErrors, Return
  <2>. QED
    BY <1>3, <1>2, <1>1, <2>1, <2>2
<1>18. ASSUME AddPanics(t)
      PROVE  /\ \A o \in Threads : o # t => pc'[o] = pc[o] /\ call'[o] = call[o]
             /\ Forms'
  <2>1. (\E p \in {"idle"} : pc' = [pc EXCEPT ![t] = p]) /\ UNCHANGED touched
    BY <1>18 DEF AddPanics, Return
  <2>2. call' = [call EXCEPT ![t] = NoCall]
    BY <1>0, <1>18 DEF AddPanics, Return
  <2>. QED
    BY <1>3, <1>1, <2>1, <2>2
<1>19. UNCHANGED <<labels, conf, hook, resets, schema>> /\ touched' \in {touched, touched \ {t}}
  BY DEF ThreadStep, registry, Begin, LookLabels, CopyLabels, Finish, Schema, Seen, Register, LookFamily, ReturnFamily, CreateFamily, Find, Mint, AddTotal, AddErrors, AddPanics
<1>. QED
  BY <1>4, <1>5, <1>6, <1>7, <1>8, <1>9, <1>10, <1>11, <1>12, <1>13, <1>14, <1>15, <1>16, <1>17, <1>18, <1>19 DEF ThreadStep

\* What the goroutines, the pipeline's workers and stuttering leave alone.
LEMMA Steps ==
  ASSUME [Next]_vars
  PROVE  \/ \E t \in Threads : ThreadStep(t)
         \/ Reset
         \/ UNCHANGED <<registry, labels, conf, pc, call, count, touched, calls, resets>>
<1>1. CASE UNCHANGED vars
  BY <1>1 DEF vars
<1>2. ASSUME NEW w \in Workers, Hook(w) \/ \E n \in 1..2 : Snapshot(w, n)
      PROVE  UNCHANGED <<registry, labels, conf, pc, call, count, touched, calls, resets>>
  BY <1>2 DEF Hook, Snapshot, others
<1>. QED
  BY <1>1, <1>2 DEF Next

LEMMA FormsNext == Forms /\ [Next]_vars => Forms'
<1>. SUFFICES ASSUME Forms, [Next]_vars PROVE Forms'
  BY SMTT(30)
<1>1. ASSUME NEW t \in Threads, ThreadStep(t) PROVE Forms'
  BY <1>1, ThreadFrame
<1>2. CASE Reset
  <2>1. UNCHANGED <<pc, call>>
    BY <1>2 DEF Reset, Handle, Configure, Shape, ResetCaches, ResetFamily, ClearStatics, AppendStatic
  <2>2. touched' \subseteq Threads
    BY <1>2 DEF Reset, Handle, Configure, Shape, ResetCaches, ResetFamily, ClearStatics, AppendStatic, Touch, Forms
  <2>. QED
    BY <2>1, <2>2 DEF Forms
<1>3. CASE UNCHANGED <<registry, labels, conf, pc, call, count, touched, calls, resets>>
  BY <1>3 DEF Forms
<1>. QED
  BY <1>1, <1>2, <1>3, Steps

\* Where the loop over the static labels goes next.
LEMMA NextLabel ==
  ASSUME Requests, NEW i \in Nat \ {0}, conf' = Next_(i), conf.step \in {"clear", "service", "env"}
  PROVE  /\ i > Len(conf.to.statics) => conf' = NoConf
         /\ i <= Len(conf.to.statics) =>
              /\ conf'.step = conf.to.statics[i] /\ conf'.step \in {"service", "env"}
              /\ conf'.to = conf.to /\ conf'.init /\ conf'.no = conf.no /\ Request(conf')
<1>1. conf.to \in Asked /\ conf = [step |-> conf.step, to |-> conf.to, init |-> conf.init, no |-> conf.no] /\ conf.init
      /\ conf.init \in BOOLEAN /\ conf.no \in Nat
  BY DEF Requests, Request
<1>2. conf.to.statics \in Seq({"service", "env"}) /\ Len(conf.to.statics) \in 0..2
  BY <1>1, Configured
<1>3. CASE i > Len(conf.to.statics)
  BY <1>2, <1>3 DEF Next_
<1>4. CASE i <= Len(conf.to.statics)
  <2>1. conf' = [conf EXCEPT !.step = conf.to.statics[i]]
    BY <1>2, <1>4 DEF Next_
  <2>2. conf.to.statics[i] \in {"service", "env"}
    BY <1>2, <1>4
  <2>3. /\ conf' = [step |-> conf.to.statics[i], to |-> conf.to, init |-> conf.init, no |-> conf.no]
    BY <1>1, <2>1
  <2>4. conf'.step = conf.to.statics[i] /\ conf'.to = conf.to /\ conf'.init = conf.init /\ conf'.no = conf.no
    BY <2>3
  <2>5. Request(conf')
    BY <1>1, <2>2, <2>3, <2>4 DEF Request
  <2>. QED
    BY <1>1, <1>2, <1>4, <2>2, <2>4, <2>5
<1>. QED
  BY <1>2, <1>3, <1>4

LEMMA NoConfIs == Request(NoConf) /\ NoConf.step = "idle" /\ ~NoConf.init
BY DEF NoConf, Request, Asked

LEMMA RequestsNext == Forms /\ Requests /\ Arrays /\ [Next]_vars => Requests'
<1>. SUFFICES ASSUME Forms, Requests, Arrays, [Next]_vars PROVE Requests'
  OBVIOUS
<1>0. conf = [step |-> conf.step, to |-> conf.to, init |-> conf.init, no |-> conf.no]
  BY DEF Requests, Request
<1>1. ASSUME NEW t \in Threads, ThreadStep(t) PROVE Requests'
  <2>1. UNCHANGED <<labels, conf, hook, resets>>
    BY <1>1, ThreadFrame
  <2>. QED
    BY <2>1 DEF Requests, labels
<1>2. CASE Handle
  <2>1. conf' = [NoConf EXCEPT !.step = "caches"] /\ UNCHANGED current /\ resets' = resets + 1
    BY <1>2 DEF Handle, Begun, labels
  <2>2. Request(conf') /\ ~conf'.init /\ conf'.step = "caches"
    BY <2>1 DEF NoConf, Request, Asked
  <2>. QED
    BY <2>1, <2>2 DEF Requests
<1>3. ASSUME NEW c \in Configs, Configure(c) PROVE Requests'
  <2>1. /\ conf' = [step |-> "shape", to |-> c, init |-> TRUE, no |-> resets'] /\ current' = conf'
        /\ resets' = resets + 1
    BY <1>3 DEF Configure, Begun
  <2>2. Request(conf') /\ conf'.init /\ conf'.step = "shape" /\ resets' \in Nat
    BY <2>1 DEF Request, Asked, Requests
  <2>. QED
    BY <2>1, <2>2 DEF Requests
<1>4. ASSUME NEW s \in {"caches", "set", "clear"}, conf' = [conf EXCEPT !.step = s], UNCHANGED <<current, resets>>,
             s = "clear" => conf.init
      PROVE  Requests'
  <2>1. /\ conf' = [step |-> s, to |-> conf.to, init |-> conf.init, no |-> conf.no]
        /\ conf'.step = s /\ conf'.to = conf.to /\ conf'.init = conf.init /\ conf'.no = conf.no
    BY <1>0, <1>4
  <2>. QED
    BY <1>4, <2>1 DEF Requests, Request
<1>5. CASE Shape \/ ResetCaches
  BY <1>4, <1>5 DEF Shape, ResetCaches, labels
<1>6. ASSUME conf' = NoConf, UNCHANGED <<current, resets>> PROVE Requests'
  BY <1>6, NoConfIs DEF Requests
<1>7. CASE ResetFamily
  <2>1. UNCHANGED <<current, resets>>
    BY <1>7 DEF ResetFamily, labels
  <2>2. CASE conf.init
    BY <1>4, <1>7, <2>1, <2>2 DEF ResetFamily
  <2>3. CASE ~conf.init
    BY <1>6, <1>7, <2>1, <2>3 DEF ResetFamily
  <2>. QED
    BY <2>2, <2>3
<1>8. ASSUME NEW i \in Nat \ {0}, conf' = Next_(i), conf.step \in {"clear", "service", "env"}, UNCHANGED <<current, resets>>
      PROVE  Requests'
  <2>1. conf.to.statics \in Seq({"service", "env"}) /\ Len(conf.to.statics) \in 0..2
    BY Configured DEF Requests, Request
  <2>2. CASE i > Len(conf.to.statics)
    BY <1>6, <1>8, <2>2, NextLabel
  <2>3. CASE i <= Len(conf.to.statics)
    <3>1. /\ conf'.step \in {"service", "env"} /\ conf'.to = conf.to /\ conf'.init /\ conf'.no = conf.no /\ Request(conf')
      BY <1>8, <2>3, NextLabel
    <3>. QED
      BY <1>8, <3>1 DEF Requests
  <2>. QED
    BY <2>1, <2>2, <2>3
<1>9. CASE ClearStatics
  BY <1>8, <1>9 DEF ClearStatics
<1>10. CASE AppendStatic
  <2>1. statics.len + 2 \in Nat \ {0} /\ statics.len + 1 + 1 = statics.len + 2
    BY DEF Arrays
  <2>2. conf' = Next_(statics.len + 1 + 1) /\ UNCHANGED <<current, resets>> /\ conf.step \in {"service", "env"}
    BY <1>10 DEF AppendStatic
  <2>. QED
    BY <1>8, <2>1, <2>2
<1>11. CASE UNCHANGED <<registry, labels, conf, pc, call, count, touched, calls, resets>>
  BY <1>11 DEF Requests, labels
<1>. QED
  BY <1>1, <1>2, <1>3, <1>5, <1>7, <1>9, <1>10, <1>11, Steps DEF Reset

----------------------------------------------------------------------------
(* The static labels.                                                      *)

\* A sequence that is cut, and has an element and another sequence put after.
LEMMA Joined ==
  ASSUME NEW s \in Seq(Cells), NEW n \in Nat, n <= Len(s), NEW e \in Cells, NEW rest \in Seq(Cells),
         NEW r, r = SubSeq(s, 1, n) \o <<e>> \o rest
  PROVE  /\ r \in Seq(Cells) /\ Len(r) = n + 1 + Len(rest)
         /\ \A i \in 1..n : r[i] = s[i]
         /\ r[n + 1] = e
<1>. DEFINE a == SubSeq(s, 1, n)
            b == a \o <<e>>
<1>0. r = b \o rest
  OBVIOUS
<1>1. a \in Seq(Cells) /\ Len(a) = n /\ \A i \in 1..n : a[i] = s[i]
  <2>1. \A i \in 1..n : s[i] \in Cells
    OBVIOUS
  <2>2. a \in Seq(Cells) /\ Len(a) = (IF 1 <= n THEN n - 1 + 1 ELSE 0) /\ \A i \in 1..(n - 1 + 1) : a[i] = s[1 + i - 1]
    BY <2>1, SubSeqProperties
  <2>. QED
    BY <2>2
<1>. HIDE DEF a
<1>2. <<e>> \in Seq(Cells) /\ Len(<<e>>) = 1 /\ <<e>>[1] = e
  OBVIOUS
<1>3. /\ b \in Seq(Cells) /\ Len(b) = n + 1
      /\ \A i \in 1..n + 1 : b[i] = IF i <= n THEN a[i] ELSE <<e>>[i - n]
  BY <1>1, <1>2, ConcatProperties
<1>. HIDE DEF b
<1>4. /\ r \in Seq(Cells) /\ Len(r) = n + 1 + Len(rest)
      /\ \A i \in 1..n + 1 : r[i] = b[i]
  <2>1. /\ b \o rest \in Seq(Cells) /\ Len(b \o rest) = Len(b) + Len(rest)
        /\ \A i \in 1..Len(b) : (b \o rest)[i] = b[i]
    <3>1. b \in Seq(Cells)
      BY <1>3
    <3>. QED
      BY <3>1
  <2>. QED
    BY <1>0, <1>3, <2>1
<1>5. \A i \in 1..n : r[i] = s[i]
  BY <1>1, <1>3, <1>4
<1>6. r[n + 1] = e
  <2>1. n + 1 \in 1..n + 1 /\ ~(n + 1 <= n) /\ n + 1 - n = 1
    OBVIOUS
  <2>. QED
    BY <1>2, <1>3, <1>4, <2>1
<1>. QED
  BY <1>4, <1>5, <1>6

LEMMA ArraysNext == Forms /\ Requests /\ Arrays /\ [Next]_vars => Arrays'
<1>. SUFFICES ASSUME Forms, Requests, Arrays, [Next]_vars PROVE Arrays'
  OBVIOUS
<1>0. /\ conf = [step |-> conf.step, to |-> conf.to, init |-> conf.init, no |-> conf.no]
      /\ conf.init \in BOOLEAN
      /\ conf.to \in Asked /\ current.to \in Asked /\ conf.no \in Nat
  BY DEF Requests, Request
<1>1. ASSUME UNCHANGED labels,
             conf'.step \in {"service", "env"} => UNCHANGED conf,
             LabelsFree' => LabelsFree
      PROVE  Arrays'
  BY SMTT(30), <1>1 DEF Arrays, labels, Holds
<1>2. ASSUME NEW t \in Threads, ThreadStep(t) PROVE Arrays'
  <2>1. UNCHANGED <<labels, conf>>
    BY <1>2, ThreadFrame
  <2>. QED
    BY <1>1, <2>1 DEF LabelsFree
<1>3. CASE Handle
  <2>1. UNCHANGED labels /\ conf' = [NoConf EXCEPT !.step = "caches"] /\ conf.step = "idle"
    BY <1>3 DEF Handle, Begun
  <2>. QED
    BY <1>1, <2>1 DEF LabelsFree, NoConf
<1>4. ASSUME NEW s \in {"caches", "set", "clear"}, conf' = [conf EXCEPT !.step = s], conf.step # "idle", UNCHANGED labels
      PROVE  Arrays'
  <2>1. conf'.step = s /\ conf'.init = conf.init
    BY <1>0, <1>4
  <2>. QED
    BY <1>1, <1>4, <2>1 DEF LabelsFree
<1>5. CASE Shape \/ ResetCaches
  BY <1>4, <1>5 DEF Shape, ResetCaches
<1>6. CASE ResetFamily
  <2>1. UNCHANGED labels /\ conf.step = "set"
    BY <1>6 DEF ResetFamily
  <2>2. CASE conf.init
    BY <1>4, <1>6, <2>1, <2>2 DEF ResetFamily
  <2>3. CASE ~conf.init
    <3>1. conf' = NoConf
      BY <1>6, <2>3 DEF ResetFamily
    <3>. QED
      BY <1>1, <2>1, <2>3, <3>1, NoConfIs DEF LabelsFree
  <2>. QED
    BY <2>2, <2>3
<1>7. ASSUME NEW c \in Configs, Configure(c) PROVE Arrays'
  <2>1. /\ conf'.step = "shape" /\ conf'.init /\ current'.to = c
        /\ labelAllowed' = {"service", "env"} \cup c.labels
        /\ UNCHANGED <<cells, statics, staticKV>>
    BY <1>7 DEF Configure
  <2>2. ~LabelsFree'
    BY <2>1 DEF LabelsFree
  <2>. QED
    BY <2>1, <2>2 DEF Arrays
<1>8. ASSUME NEW i \in Nat \ {0}, conf' = Next_(i), conf.step \in {"clear", "service", "env"},
             UNCHANGED <<labelAllowed, current>>, i <= Len(conf.to.statics) + 1,
             statics' = [cap |-> statics'.cap, len |-> i - 1], statics'.cap \in 0..2, i - 1 <= statics'.cap,
             cells' \in [0..2 -> Seq(Cells)], \A c \in 0..2 : Len(cells'[c]) <= c,
             Len(cells'[statics'.cap]) = statics'.cap,
             \A j \in 1..(i - 1) : cells'[statics'.cap][j] = [key |-> conf.to.statics[j], no |-> conf.no],
             staticKV' = {conf.to.statics[j] : j \in 1..(i - 1)}
      PROVE  Arrays'
  <2>1. conf.init /\ current.to = conf.to /\ current.no = conf.no
    BY <1>8 DEF Requests
  <2>2. statics'.len = i - 1 /\ i - 1 \in 0..statics'.cap
    BY <1>8
  <2>3. Len(conf.to.statics) \in 0..2
    BY <1>0, Configured
  <2>4. /\ statics' = [cap |-> statics'.cap, len |-> statics'.len] /\ statics'.len \in 0..statics'.cap
        /\ labelAllowed' = {"service", "env"} \cup current'.to.labels
    BY <1>8, <2>2 DEF Arrays
  <2>5. CASE i > Len(conf.to.statics)
    <3>1. conf'.step = "idle"
      BY <1>8, <2>5, NextLabel, NoConfIs
    <3>2. i - 1 = Len(current.to.statics)
      BY <1>8, <2>1, <2>3, <2>5
    <3>3. Holds(current, statics.len)'
      BY <1>8, <2>1, <2>2 DEF Holds
    <3>. QED
      BY <1>8, <2>2, <2>4, <3>1, <3>2, <3>3 DEF Arrays
  <2>6. CASE i <= Len(conf.to.statics)
    <3>1. /\ conf'.step = conf.to.statics[i] /\ conf'.to = conf.to /\ conf'.init /\ conf'.no = conf.no
          /\ conf'.step \in {"service", "env"}
      BY <1>8, <2>6, NextLabel
    <3>2. ~LabelsFree'
      BY <3>1 DEF LabelsFree
    <3>3. Holds(conf, statics.len)'
      BY <1>8, <2>2, <3>1 DEF Holds
    <3>4. statics'.len < Len(conf'.to.statics) /\ conf'.step = conf'.to.statics[statics'.len + 1]
      BY <2>2, <2>3, <2>6, <3>1
    <3>. QED
      BY <1>8, <2>4, <3>2, <3>3, <3>4 DEF Arrays
  <2>. QED
    BY <2>3, <2>5, <2>6
<1>9. CASE ClearStatics
  <2>1. /\ conf.step = "clear" /\ conf' = Next_(1) /\ statics' = [statics EXCEPT !.len = 0] /\ staticKV' = {}
        /\ UNCHANGED <<labelAllowed, cells, current>>
    BY <1>9 DEF ClearStatics
  <2>2. /\ statics' = [cap |-> statics.cap, len |-> 0] /\ statics'.cap = statics.cap
    BY <2>1 DEF Arrays
  <2>3. /\ cells' \in [0..2 -> Seq(Cells)] /\ statics'.cap \in 0..2 /\ Len(cells'[statics'.cap]) = statics'.cap
        /\ \A c \in 0..2 : Len(cells'[c]) <= c
    BY <2>1, <2>2 DEF Arrays
  <2>4. Len(conf.to.statics) \in 0..2
    BY <1>0, Configured
  <2>5. staticKV' = {conf.to.statics[j] : j \in 1..(1 - 1)}
    BY <2>1
  <2>6. /\ 1 \in Nat \ {0} /\ 1 <= Len(conf.to.statics) + 1 /\ 1 - 1 <= statics'.cap
        /\ statics' = [cap |-> statics'.cap, len |-> 1 - 1]
        /\ \A j \in 1..(1 - 1) : cells'[statics'.cap][j] = [key |-> conf.to.statics[j], no |-> conf.no]
    BY <2>2, <2>3, <2>4
  <2>. QED
    BY <1>8, <2>1, <2>3, <2>5, <2>6
<1>10. CASE AppendStatic
  <2>. DEFINE len  == statics.len
              cell == [key |-> conf.step, no |-> conf.no]
              n    == len + 1
              cap  == IF n <= statics.cap THEN statics.cap ELSE n
              kept == SubSeq(cells[statics.cap], 1, len)
              rest == IF cap = statics.cap THEN SubSeq(cells[cap], n + 1, cap) ELSE <<>>
              new  == kept \o <<cell>> \o rest
  <2>1. /\ conf.step \in {"service", "env"}
        /\ cells' = [cells EXCEPT ![cap] = new] /\ statics' = [cap |-> cap, len |-> n]
        /\ staticKV' = staticKV \cup {conf.step}
        /\ conf' = Next_(n + 1)
        /\ UNCHANGED <<labelAllowed, current>>
    BY <1>10 DEF AppendStatic
  <2>2. /\ len \in Nat /\ statics.cap \in 0..2 /\ len <= statics.cap
        /\ cells \in [0..2 -> Seq(Cells)] /\ cells[statics.cap] \in Seq(Cells) /\ Len(cells[statics.cap]) = statics.cap
        /\ \A c \in 0..2 : Len(cells[c]) <= c
        /\ len < Len(conf.to.statics) /\ conf.step = conf.to.statics[len + 1] /\ Holds(conf, len)
    BY <2>1 DEF Arrays
  <2>3. Len(conf.to.statics) \in 0..2
    BY <1>0, Configured
  <2>4. cell \in Cells
    BY <1>0, <2>1 DEF Cells
  <2>5. cap \in 0..2 /\ n \in Nat /\ n <= cap /\ (cap = statics.cap \/ (cap = n /\ cap # statics.cap))
    BY SMTT(30), <2>2, <2>3
  <2>6. rest \in Seq(Cells) /\ Len(rest) = cap - n
    <3>1. CASE cap = statics.cap
      <4>1. \A i \in n + 1..cap : cells[cap][i] \in Cells
        BY <2>2, <3>1
      <4>2. /\ SubSeq(cells[cap], n + 1, cap) \in Seq(Cells)
            /\ Len(SubSeq(cells[cap], n + 1, cap)) = IF n + 1 <= cap THEN cap - (n + 1) + 1 ELSE 0
        <5>. HIDE DEF cap, n
        <5>. QED
          BY <2>5, <4>1, SubSeqProperties
      <4>3. (IF n + 1 <= cap THEN cap - (n + 1) + 1 ELSE 0) = cap - n
        <5>. HIDE DEF cap, n
        <5>. QED
          BY <2>5
      <4>4. rest = SubSeq(cells[cap], n + 1, cap)
        BY <3>1
      <4>. HIDE DEF rest, cap, n
      <4>. QED
        BY <4>2, <4>3, <4>4
    <3>2. CASE cap = n /\ cap # statics.cap
      <4>1. rest = <<>>
        BY <3>2
      <4>2. cap - n = 0
        <5>. HIDE DEF cap, n
        <5>. QED
          BY <2>5, <3>2
      <4>. HIDE DEF rest, cap, n
      <4>. QED
        BY <4>1, <4>2
    <3>. HIDE DEF rest, cap, n
    <3>. QED
      BY <2>5, <3>1, <3>2
  <2>. HIDE DEF cap, rest, cell
  <2>7. /\ new \in Seq(Cells) /\ Len(new) = len + 1 + Len(rest)
        /\ \A i \in 1..len : new[i] = cells[statics.cap][i]
        /\ new[len + 1] = cell
    <3>1. /\ cells[statics.cap] \in Seq(Cells) /\ len \in Nat /\ len <= Len(cells[statics.cap])
          /\ cell \in Cells /\ rest \in Seq(Cells)
      BY <2>2, <2>4, <2>6
    <3>2. PICK all, r : all = cells[statics.cap] /\ r = new
      OBVIOUS
    <3>3. all \in Seq(Cells) /\ len <= Len(all) /\ r = SubSeq(all, 1, len) \o <<cell>> \o rest
      BY <3>1, <3>2
    <3>. HIDE DEF len, new
    <3>4. /\ r \in Seq(Cells) /\ Len(r) = len + 1 + Len(rest)
          /\ \A i \in 1..len : r[i] = all[i]
          /\ r[len + 1] = cell
      BY <3>1, <3>3, Joined
    <3>. QED
      BY Zenon, <3>2, <3>4
  <2>. HIDE DEF new
  <2>8. Len(new) = cap
    <3>1. Len(new) = len + 1 + Len(rest) /\ Len(rest) = cap - n /\ n = len + 1
      BY Zenon, <2>6, <2>7
    <3>2. len \in Nat /\ cap \in Int
      <4>1. \A i \in 0..2 : i \in Int
        OBVIOUS
      <4>. QED
        BY Zenon, <2>2, <2>5, <4>1
    <3>. HIDE DEF len, n
    <3>. QED
      BY <3>1, <3>2
  <2>9. /\ cells' \in [0..2 -> Seq(Cells)] /\ cells'[cap] = new
        /\ \A c \in 0..2 : Len(cells'[c]) <= c
    BY <2>1, <2>2, <2>5, <2>7, <2>8
  <2>10. statics'.cap = cap /\ statics'.len = n
    BY <2>1
  <2>11. \A j \in 1..n : cells'[cap][j] = [key |-> conf.to.statics[j], no |-> conf.no]
    <3>1. ASSUME NEW j \in 1..n PROVE new[j] = [key |-> conf.to.statics[j], no |-> conf.no]
      <4>1. CASE j = len + 1
        BY <2>2, <2>7, <4>1 DEF cell
      <4>2. CASE j \in 1..len
        BY <2>2, <2>7, <4>2 DEF Holds
      <4>. QED
        BY <2>2, <4>1, <4>2
    <3>. QED
      BY <2>9, <3>1
  <2>12. staticKV' = {conf.to.statics[j] : j \in 1..n}
    <3>1. 1..n = 1..len \cup {len + 1}
      BY <2>2
    <3>2. staticKV = {conf.to.statics[j] : j \in 1..len}
      BY <2>2 DEF Holds
    <3>. QED
      BY <2>1, <2>2, <3>1, <3>2
  <2>13. n + 1 \in Nat \ {0} /\ n + 1 <= Len(conf.to.statics) + 1 /\ (n + 1) - 1 = n
    BY <2>2, <2>3
  <2>. HIDE DEF n
  <2>. QED
    BY <1>8, <2>1, <2>5, <2>8, <2>9, <2>10, <2>11, <2>12, <2>13
<1>11. CASE UNCHANGED <<registry, labels, conf, pc, call, count, touched, calls, resets>>
  BY <1>1, <1>11 DEF LabelsFree
<1>. QED
  BY <1>2, <1>3, <1>5, <1>6, <1>7, <1>9, <1>10, <1>11, Steps DEF Reset

----------------------------------------------------------------------------
(* The labels of a call.                                                   *)

\* The look of t is that of one configuration, which its array and the map still hold.
Fresh(t) ==
  LET look == call[t].look
      now  == look.current
  IN  /\ now.to \in Asked
      /\ look.allowed = {"service", "env"} \cup now.to.labels
      /\ look.slice.len = Len(now.to.statics) /\ look.cells = cells[look.slice.cap]
      /\ \A i \in 1..look.slice.len : look.cells[i] = [key |-> now.to.statics[i], no |-> now.no]
      /\ staticKV = {now.to.statics[i] : i \in 1..look.slice.len}

\* The labels of t are those of one configuration.
Labelled(t) ==
  LET c  == call[t]
      to == c.look.current.to
  IN  /\ c.labels = [i \in DOMAIN to.statics |-> [key |-> to.statics[i], no |-> c.look.current.no]]
      /\ c.users = (c.keys \cap ({"service", "env"} \cup to.labels)) \ ToSet(to.statics)

Looked ==
  \A t \in Threads \ touched :
    /\ pc[t] = "copy" => Fresh(t)
    /\ pc[t] \in {"running", "schema"} => Labelled(t)

\* The look under the lock is fresh.
LEMMA LookFresh == ASSUME Forms, Requests, Arrays, NEW t \in Threads, LookLabels(t) PROVE Fresh(t)'
<1>1. /\ LabelsFree /\ UNCHANGED <<cells, staticKV>> /\ call' = [call EXCEPT ![t].look = Look]
  BY DEF LookLabels, labels
<1>2. call = [o \in Threads |-> call[o]] /\ Shaped(call[t])
  BY DEF Forms
<1>3. call'[t] = [call[t] EXCEPT !.look = Look]
  BY <1>1, <1>2
<1>4. call'[t].look = Look
  BY <1>2, <1>3 DEF Shaped, Fields
<1>5. /\ Look.allowed = labelAllowed /\ Look.slice = statics /\ Look.cells = cells[statics.cap]
      /\ Look.current = current
  BY DEF Look
<1>6. /\ current.to \in Asked /\ labelAllowed = {"service", "env"} \cup current.to.labels
      /\ statics.len = Len(current.to.statics) /\ Holds(current, statics.len)
  BY <1>1 DEF Arrays, Requests, Request
<1>. HIDE DEF Look
<1>. QED
  BY <1>1, <1>4, <1>5, <1>6 DEF Fresh, Holds

\* A copy of a fresh look labels the call.
LEMMA CopyLabelled == ASSUME Forms, NEW t \in Threads, Fresh(t), CopyLabels(t) PROVE Labelled(t)'
<1>. DEFINE c == call[t]  look == c.look  to == look.current.to  no == look.current.no  len == look.slice.len
            now == cells[look.slice.cap]
            Words(i) == [key : {look.cells[i].key, now[i].key}, no : {look.cells[i].no, now[i].no}]
            mine == c.keys \cap look.allowed
<1>1. PICK copied \in [1..len -> UNION {Words(i) : i \in 1..len}] :
        /\ \A i \in DOMAIN copied : copied[i] \in Words(i)
        /\ call' = [call EXCEPT ![t].labels = copied, ![t].users = mine \ staticKV]
  BY DEF CopyLabels
<1>2. call = [o \in Threads |-> call[o]] /\ Shaped(c)
  BY DEF Forms
<1>3. call'[t] = [c EXCEPT !.labels = copied, !.users = mine \ staticKV]
  BY <1>1, <1>2
<1>4. PICK users : users = mine \ staticKV
  OBVIOUS
<1>5. call'[t] = [c EXCEPT !.labels = copied, !.users = users]
  BY <1>3, <1>4
<1>6. /\ call'[t].labels = copied /\ call'[t].users = users
      /\ call'[t].look = look /\ call'[t].keys = c.keys
  <2>. HIDE DEF c
  <2>. QED
    BY <1>2, <1>5 DEF Shaped, Fields
<1>7. /\ to \in Asked /\ look.allowed = {"service", "env"} \cup to.labels /\ len = Len(to.statics)
      /\ look.cells = now
      /\ \A i \in 1..len : look.cells[i] = [key |-> to.statics[i], no |-> no]
      /\ staticKV = {to.statics[i] : i \in 1..len}
  BY DEF Fresh
<1>8. DOMAIN to.statics = 1..len
  <2>1. to.statics \in Seq({"service", "env"})
    BY <1>7, Configured
  <2>2. len = Len(to.statics)
    BY <1>7
  <2>. HIDE DEF to, len
  <2>. QED
    BY <2>1, <2>2
<1>9. ASSUME NEW i \in 1..len PROVE copied[i] = [key |-> to.statics[i], no |-> no]
  <2>1. copied[i] \in Words(i)
    BY <1>1
  <2>2. look.cells[i].key = to.statics[i] /\ look.cells[i].no = no /\ now[i].key = to.statics[i] /\ now[i].no = no
    <3>1. look.cells[i] = [key |-> to.statics[i], no |-> no] /\ now[i] = look.cells[i]
      BY Zenon, <1>7
    <3>. HIDE DEF now, to, no, look
    <3>. QED
      BY <3>1
  <2>. QED
    BY <2>1, <2>2
<1>10. copied = [i \in DOMAIN to.statics |-> [key |-> to.statics[i], no |-> no]]
  BY <1>1, <1>8, <1>9
<1>11. users = (c.keys \cap ({"service", "env"} \cup to.labels)) \ ToSet(to.statics)
  BY <1>4, <1>7, <1>8 DEF ToSet
<1>. HIDE DEF c
<1>. QED
  BY <1>6, <1>10, <1>11 DEF Labelled

\* What the end of the operation leaves of its call.
LEMMA FinishLabelled == ASSUME Forms, NEW t \in Threads, Labelled(t), Finish(t) PROVE Labelled(t)'
<1>1. PICK o : call' = [call EXCEPT ![t].outcome = o]
  BY DEF Finish
<1>2. call = [u \in Threads |-> call[u]] /\ Shaped(call[t])
  BY DEF Forms
<1>3. call'[t] = [call[t] EXCEPT !.outcome = o]
  BY <1>1, <1>2
<1>4. /\ call'[t].labels = call[t].labels /\ call'[t].users = call[t].users
      /\ call'[t].look = call[t].look /\ call'[t].keys = call[t].keys
  BY <1>2, <1>3 DEF Shaped, Fields
<1>. QED
  BY <1>4 DEF Labelled

\* The steps of a goroutine to its labels.
LEMMA LabelPlaces ==
  ASSUME Forms, NEW t \in Threads, ThreadStep(t)
  PROVE  /\ pc'[t] = "copy" => LookLabels(t)
         /\ pc'[t] \in {"running", "schema"} => (pc[t] = "copy" /\ CopyLabels(t)) \/ (pc[t] = "running" /\ Finish(t))
         /\ LookLabels(t) \/ CopyLabels(t) \/ Finish(t) => UNCHANGED touched
<1>0. pc \in [Threads -> Positions]
  BY DEF Forms
<1>. USE DEF Go
<1>1. \/ LookLabels(t) \/ CopyLabels(t) \/ Finish(t)
      \/ pc'[t] # "copy" /\ pc'[t] \notin {"running", "schema"}
  BY <1>0 DEF ThreadStep, Begin, Schema, Seen, Register, LookFamily, ReturnFamily, CreateFamily, Observed,
              Find, Mint, AddTotal, AddErrors, AddPanics, Return
<1>2. LookLabels(t) => pc'[t] \notin {"running", "schema"} /\ UNCHANGED touched
  BY <1>0 DEF LookLabels
<1>3. CopyLabels(t) => pc[t] = "copy" /\ pc'[t] # "copy" /\ UNCHANGED touched
  BY <1>0 DEF CopyLabels
<1>4. Finish(t) => pc[t] = "running" /\ pc'[t] # "copy" /\ UNCHANGED touched
  BY <1>0 DEF Finish
<1>5. pc'[t] = "copy" => LookLabels(t)
  BY Zenon, <1>1, <1>3, <1>4
<1>6. pc'[t] \in {"running", "schema"} => (pc[t] = "copy" /\ CopyLabels(t)) \/ (pc[t] = "running" /\ Finish(t))
  BY Zenon, <1>1, <1>2, <1>3, <1>4
<1>7. LookLabels(t) \/ CopyLabels(t) \/ Finish(t) => UNCHANGED touched
  BY Zenon, <1>2, <1>3, <1>4
<1>. QED
  BY Zenon, <1>5, <1>6, <1>7

LEMMA LookedNext == Forms /\ Requests /\ Arrays /\ Looked /\ [Next]_vars => Looked'
<1>. SUFFICES ASSUME Forms, Requests, Arrays, Looked, [Next]_vars PROVE Looked'
  OBVIOUS
<1>1. ASSUME NEW t \in Threads, ThreadStep(t) PROVE Looked'
  <2>1. /\ UNCHANGED <<cells, staticKV>> /\ touched' \in {touched, touched \ {t}}
        /\ \A o \in Threads : o # t => pc'[o] = pc[o] /\ call'[o] = call[o]
    BY <1>1, ThreadFrame DEF labels
  <2>2. ASSUME NEW o \in Threads \ touched', o # t
        PROVE  /\ pc'[o] = "copy" => Fresh(o)'
               /\ pc'[o] \in {"running", "schema"} => Labelled(o)'
    <3>1. o \in Threads \ touched /\ pc'[o] = pc[o] /\ call'[o] = call[o]
      BY <2>1, <2>2
    <3>a. call'[o] = call[o] /\ cells' = cells /\ staticKV' = staticKV
      BY <2>1, <3>1
    <3>2. Fresh(o) => Fresh(o)'
      BY ZenonT(30), <3>a DEF Fresh
    <3>3. Labelled(o) => Labelled(o)'
      BY <3>1 DEF Labelled
    <3>. QED
      BY <3>1, <3>2, <3>3 DEF Looked
  <2>3. ASSUME t \notin touched'
        PROVE  /\ pc'[t] = "copy" => Fresh(t)'
               /\ pc'[t] \in {"running", "schema"} => Labelled(t)'
    <3>1. pc'[t] = "copy" => Fresh(t)'
      BY <1>1, LabelPlaces, LookFresh
    <3>2. CASE pc[t] = "copy" /\ CopyLabels(t)
      BY <1>1, <2>3, <3>1, <3>2, LabelPlaces, CopyLabelled DEF Looked
    <3>3. CASE pc[t] = "running" /\ Finish(t)
      BY <1>1, <2>3, <3>1, <3>3, LabelPlaces, FinishLabelled DEF Looked
    <3>. QED
      BY <1>1, <3>1, <3>2, <3>3, LabelPlaces
  <2>. QED
    BY <2>2, <2>3 DEF Looked
<1>2. CASE Reset
  <2>1. UNCHANGED <<pc, call>> /\ touched \subseteq touched'
    BY <1>2 DEF Reset, Handle, Configure, Shape, ResetCaches, ResetFamily, ClearStatics, AppendStatic, Touch
  <2>2. UNCHANGED <<cells, staticKV>> \/ \A t \in Threads \ touched' : pc[t] # "copy"
    BY <1>2 DEF Reset, Handle, Configure, Shape, ResetCaches, ResetFamily, ClearStatics, AppendStatic, Touch, labels
  <2>3. \A t \in Threads : Labelled(t) => Labelled(t)'
    BY <2>1 DEF Labelled
  <2>4. UNCHANGED <<cells, staticKV>> => \A t \in Threads : Fresh(t) => Fresh(t)'
    BY <2>1 DEF Fresh
  <2>. QED
    BY <2>1, <2>2, <2>3, <2>4 DEF Looked
<1>3. CASE UNCHANGED <<registry, labels, conf, pc, call, count, touched, calls, resets>>
  <2>1. UNCHANGED <<pc, call, touched, cells, staticKV>>
    BY <1>3 DEF labels
  <2>2. \A t \in Threads : (Fresh(t) => Fresh(t)') /\ (Labelled(t) => Labelled(t)')
    BY <2>1 DEF Fresh, Labelled
  <2>. QED
    BY <2>1, <2>2 DEF Looked
<1>. QED
  BY <1>1, <1>2, <1>3, Steps

\* At the start nothing is configured.
LEMMA InitLabels == Init => Forms /\ Requests /\ Arrays /\ Looked
<1>. SUFFICES ASSUME Init PROVE Forms /\ Requests /\ Arrays /\ Looked
  OBVIOUS
<1>1. Forms
  <2>1. \A t \in Threads : call[t] = NoCall /\ pc[t] = "idle"
    BY DEF Init
  <2>2. /\ pc \in [Threads -> Positions] /\ touched \subseteq Threads
        /\ call = [t \in Threads |-> call[t]]
    BY DEF Init, Positions
  <2>. QED
    BY <2>1, <2>2, NoCallShaped DEF Forms
<1>2. Requests
  <2>1. conf = NoConf /\ current = NoConf /\ resets = 0
    BY DEF Init
  <2>. QED
    BY <2>1, NoConfIs DEF Requests
<1>3. Arrays
  <2>1. /\ statics = [cap |-> 0, len |-> 0] /\ cells = [c \in 0..2 |-> <<>>] /\ staticKV = {}
        /\ labelAllowed = {"service", "env"} /\ conf = NoConf /\ current = NoConf
    BY DEF Init
  <2>2. NoConf.to.labels = {} /\ NoConf.to.statics = <<>> /\ NoConf.step = "idle"
    BY DEF NoConf
  <2>3. statics.cap = 0 /\ statics.len = 0 /\ cells[0] = <<>> /\ \A c \in 0..2 : cells[c] = <<>>
    BY <2>1
  <2>4. cells \in [0..2 -> Seq(Cells)]
    BY <2>1
  <2>5. 1..0 = {}
    OBVIOUS
  <2>6. Holds(current, 0)
    BY <2>1, <2>5 DEF Holds
  <2>. HIDE DEF NoConf
  <2>. QED
    BY <2>1, <2>2, <2>3, <2>4, <2>6 DEF Arrays
<1>4. Looked
  BY DEF Init, Looked
<1>. QED
  BY <1>1, <1>2, <1>3, <1>4

\* The labels of a call are the static labels of one Init, complete and as that Init wrote
\* them, and the allowed keys of its subject, whatever Inits, resets and other calls do at the
\* same time, unless an Init writes the labels between the look and the copy.
THEOREM LabelsAreOfOneInit == Spec => []LabelsOfOneInit
<1>1. Looked => LabelsOfOneInit
  BY DEF Looked, Labelled, LabelsOfOneInit
<1>. QED
  BY <1>1, InitLabels, FormsNext, RequestsNext, ArraysNext, LookedNext, PTL DEF Spec

----------------------------------------------------------------------------
(* The shared series.                                                      *)

Full(S) == Cardinality(S) = MaxNames

\* What t counts under is its own name, which is registered, or the shared one, with a reason.
LabelRight(t) ==
  LET c == call[t]
  IN  \/ c.label = c.safe /\ c.safe \in labeledOps
      \/ c.label = Overflow /\ "label" \notin c.had /\ Full(labeledOps)

FamilyRight(t) ==
  LET c == call[t]
  IN  \/ c.family = c.safe /\ c.safe \in cache[c.kind]
      \/ c.family = Overflow /\ "family" \notin c.had /\ Full(cache[c.kind])

\* A name that t found when it began to record is still there, until t has looked it up.
Recorded(t) ==
  LET c == call[t]
  IN  /\ pc[t] = "seen" /\ "label" \in c.had => c.safe \in labeledOps
      /\ pc[t] = "register" => "label" \notin c.had
      /\ pc[t] = "family" => LabelRight(t)
      /\ pc[t] \in {"seen", "register", "family", "return", "create", "find"} /\ "family" \in c.had =>
           c.safe \in cache[c.kind]
      /\ pc[t] = "mint" => "family" \notin c.had
      /\ pc[t] = "total" => FamilyRight(t)

Records == \A t \in Threads \ touched : Recorded(t)

\* A goroutine only adds to a registry, and nothing to a full one.
LEMMA Grows ==
  ASSUME Forms, Capped, NEW t \in Threads, ThreadStep(t)
  PROVE  /\ labeledOps \subseteq labeledOps' /\ (Full(labeledOps) => UNCHANGED labeledOps)
         /\ \A k \in Kinds : cache[k] \subseteq cache'[k] /\ (Full(cache[k]) => cache'[k] = cache[k])
<1>. USE MetricsAssumption DEF Full
<1>0. cache = [k \in Kinds |-> cache[k]] /\ call[t].kind \in Kinds
  BY DEF Capped, Forms
<1>1. CASE Register(t)
  BY <1>1 DEF Register
<1>2. CASE Mint(t)
  <2>1. UNCHANGED labeledOps
    BY <1>2 DEF Mint
  <2>. DEFINE c == call[t]
  <2>2. CASE UNCHANGED cache
    BY <2>1, <2>2
  <2>3. CASE /\ cache' = [cache EXCEPT ![c.kind] = @ \cup {c.safe}]
             /\ c.safe \in cache[c.kind] \/ Cardinality(cache[c.kind]) < MaxNames
    <3>1. \A k \in Kinds : cache'[k] = IF k = c.kind THEN cache[k] \cup {c.safe} ELSE cache[k]
      BY <1>0, <2>3
    <3>2. Full(cache[c.kind]) => cache[c.kind] \cup {c.safe} = cache[c.kind]
      BY <2>3
    <3>. QED
      BY <2>1, <3>1, <3>2
  <2>. QED
    BY <1>2, <2>2, <2>3 DEF Mint
<1>3. CASE UNCHANGED <<labeledOps, cache>>
  BY <1>3
<1>. QED
  BY <1>1, <1>2, <1>3 DEF ThreadStep, registry, Begin, LookLabels, CopyLabels, Finish, Schema, Seen, LookFamily,
     ReturnFamily, CreateFamily, Find, AddTotal, AddErrors, AddPanics

\* The steps that look a name up, and what they make of a call.
LEMMA SchemaRecorded == ASSUME Forms, NEW t \in Threads, Schema(t) PROVE Recorded(t)'
<1>. DEFINE c == call[t]
            e == [c EXCEPT !.keys = {}, !.look = NoLook, !.labels = <<>>, !.users = {}, !.schema = schema, !.had = Has(t)]
<1>1. call'[t] = e /\ pc'[t] \in {"seen", "find"} /\ UNCHANGED <<labeledOps, cache>>
  BY DEF Schema, Forms, Go, registry
<1>2. e.kind = c.kind /\ e.safe = c.safe /\ e.had = Has(t)
  <2>. Shaped(c)
    BY DEF Forms
  <2>. HIDE DEF c
  <2>. QED
    BY DEF Shaped, Fields
<1>3. ("label" \in Has(t) => c.safe \in labeledOps) /\ ("family" \in Has(t) => c.safe \in cache[c.kind])
  BY DEF Has
<1>. HIDE DEF e, c
<1>. QED
  BY <1>1, <1>2, <1>3 DEF Recorded

LEMMA LabelRecorded ==
  ASSUME Forms, Capped, NEW t \in Threads, Recorded(t), Seen(t) \/ Register(t)
  PROVE  Recorded(t)'
<1>. DEFINE c == call[t]
<1>0. /\ Shaped(c) /\ call = [u \in Threads |-> call[u]] /\ pc \in [Threads -> Positions]
      /\ Cardinality(labeledOps) \in Nat /\ Cardinality(labeledOps) <= MaxNames /\ MaxNames \in Nat
  BY FS_CardinalityType, MetricsAssumption DEF Forms, Capped, Within
<1>1. ASSUME NEW v \in {c.safe, Overflow}, call' = [call EXCEPT ![t].label = v], pc' = [pc EXCEPT ![t] = "family"],
             UNCHANGED cache, pc[t] \in {"seen", "register"},
             (v = c.safe /\ v \in labeledOps') \/ (v = Overflow /\ "label" \notin c.had /\ Full(labeledOps'))
      PROVE  Recorded(t)'
  <2>1. call'[t] = [c EXCEPT !.label = v] /\ pc'[t] = "family"
    BY <1>0, <1>1
  <2>2. call'[t].label = v /\ call'[t].had = c.had /\ call'[t].safe = c.safe /\ call'[t].kind = c.kind
    <3>. HIDE DEF c
    <3>. QED
      BY <1>0, <2>1 DEF Shaped, Fields
  <2>3. "family" \in c.had => c.safe \in cache[c.kind]
    BY <1>1 DEF Recorded
  <2>. HIDE DEF c
  <2>. QED
    BY <1>0, <1>1, <2>1, <2>2, <2>3 DEF Recorded, LabelRight
<1>2. CASE Register(t)
  <2>1. "label" \notin c.had /\ pc[t] = "register" /\ pc' = [pc EXCEPT ![t] = "family"] /\ UNCHANGED cache
    BY <1>2 DEF Register, Recorded, Go
  <2>2. CASE labeledOps' = labeledOps \cup {c.safe} /\ call' = [call EXCEPT ![t].label = c.safe]
    BY <1>0, <1>1, <2>1, <2>2
  <2>3. CASE ~(Cardinality(labeledOps) < MaxNames) /\ UNCHANGED labeledOps /\ call' = [call EXCEPT ![t].label = Overflow]
    BY <1>0, <1>1, <2>1, <2>3 DEF Full
  <2>. QED
    BY <1>2, <2>2, <2>3 DEF Register
<1>3. CASE Seen(t)
  <2>1. pc[t] = "seen" /\ UNCHANGED <<labeledOps, cache>> /\ ("label" \in c.had => c.safe \in labeledOps)
    BY <1>3 DEF Seen, Recorded, registry
  <2>2. CASE /\ c.safe \in labeledOps /\ call' = [call EXCEPT ![t].label = c.safe]
             /\ pc' = [pc EXCEPT ![t] = "family"]
    BY <1>0, <1>1, <2>1, <2>2
  <2>3. CASE /\ c.safe \notin labeledOps /\ Cardinality(labeledOps) >= MaxNames
             /\ call' = [call EXCEPT ![t].label = Overflow] /\ pc' = [pc EXCEPT ![t] = "family"]
    BY <1>0, <1>1, <2>1, <2>3 DEF Full
  <2>4. CASE c.safe \notin labeledOps /\ pc' = [pc EXCEPT ![t] = "register"] /\ UNCHANGED call
    <3>1. pc'[t] = "register" /\ call'[t] = c
      BY <1>0, <2>4
    <3>2. "family" \in c.had => c.safe \in cache[c.kind]
      BY <2>1 DEF Recorded
    <3>. HIDE DEF c
    <3>. QED
      BY <2>1, <2>4, <3>1, <3>2 DEF Recorded
  <2>. QED
    BY <1>3, <2>2, <2>3, <2>4 DEF Seen, Go
<1>. QED
  BY <1>2, <1>3

LEMMA FamilyRecorded ==
  ASSUME Forms, Capped, NEW t \in Threads, Recorded(t), Find(t) \/ Mint(t)
  PROVE  Recorded(t)'
<1>. DEFINE c == call[t]
<1>0. /\ Shaped(c) /\ c.kind \in Kinds
      /\ call = [u \in Threads |-> call[u]] /\ pc \in [Threads -> Positions]
      /\ cache = [k \in Kinds |-> cache[k]]
      /\ Cardinality(cache[c.kind]) \in Nat /\ Cardinality(cache[c.kind]) <= MaxNames /\ MaxNames \in Nat
  BY FS_CardinalityType, MetricsAssumption DEF Forms, Capped, Within
<1>1. ASSUME NEW v \in {c.safe, Overflow}, call' = [call EXCEPT ![t].family = v], pc' = [pc EXCEPT ![t] = "total"],
             (v = c.safe /\ v \in cache'[c.kind]) \/ (v = Overflow /\ "family" \notin c.had /\ Full(cache'[c.kind]))
      PROVE  Recorded(t)'
  <2>1. call'[t] = [c EXCEPT !.family = v] /\ pc'[t] = "total"
    BY <1>0, <1>1
  <2>2. call'[t].family = v /\ call'[t].had = c.had /\ call'[t].safe = c.safe /\ call'[t].kind = c.kind
    <3>. HIDE DEF c
    <3>. QED
      BY <1>0, <2>1 DEF Shaped, Fields
  <2>. HIDE DEF c
  <2>. QED
    BY <1>0, <1>1, <2>1, <2>2 DEF Recorded, FamilyRight
<1>2. CASE Mint(t)
  <2>1. "family" \notin c.had /\ pc' = [pc EXCEPT ![t] = "total"]
    BY <1>2 DEF Mint, Recorded, Go
  <2>2. CASE /\ cache' = [cache EXCEPT ![c.kind] = @ \cup {c.safe}] /\ call' = [call EXCEPT ![t].family = c.safe]
    <3>1. c.safe \in cache'[c.kind]
      BY <1>0, <2>2
    <3>. QED
      BY <1>0, <1>1, <2>1, <2>2, <3>1
  <2>3. CASE /\ ~(Cardinality(cache[c.kind]) < MaxNames) /\ UNCHANGED cache
             /\ call' = [call EXCEPT ![t].family = Overflow]
    BY <1>0, <1>1, <2>1, <2>3 DEF Full
  <2>. QED
    BY <1>2, <2>2, <2>3 DEF Mint
<1>3. CASE Find(t)
  <2>1. pc[t] = "find" /\ UNCHANGED cache /\ ("family" \in c.had => c.safe \in cache[c.kind])
    BY <1>3 DEF Find, Recorded, registry
  <2>2. CASE /\ c.safe \in cache[c.kind] /\ call' = [call EXCEPT ![t].family = c.safe]
             /\ pc' = [pc EXCEPT ![t] = "total"]
    BY <1>0, <1>1, <2>1, <2>2
  <2>3. CASE c.safe \notin cache[c.kind] /\ pc' = [pc EXCEPT ![t] = "mint"] /\ UNCHANGED call
    <3>1. pc'[t] = "mint" /\ call'[t] = c
      BY <1>0, <2>3
    <3>. HIDE DEF c
    <3>. QED
      BY <2>1, <2>3, <3>1 DEF Recorded
  <2>. QED
    BY <1>3, <2>2, <2>3 DEF Find, Go
<1>. QED
  BY <1>2, <1>3

LEMMA FamilyLooked ==
  ASSUME Forms, NEW t \in Threads, Recorded(t), LookFamily(t) \/ ReturnFamily(t) \/ CreateFamily(t)
  PROVE  Recorded(t)'
<1>0. call = [u \in Threads |-> call[u]] /\ pc \in [Threads -> Positions]
  BY DEF Forms
<1>1. pc[t] \in {"family", "return", "create"} /\ UNCHANGED cache
  BY DEF LookFamily, ReturnFamily, CreateFamily, registry
<1>2. pc'[t] \in {"idle", "broken: nil"} \/ (pc'[t] \in {"return", "create", "find"} /\ UNCHANGED call)
  BY <1>0 DEF LookFamily, ReturnFamily, CreateFamily, Observed, Go
<1>. QED
  BY <1>1, <1>2 DEF Recorded

\* The other steps leave t where it uses no name, or reset what t has found.
LEMMA OwnRecorded ==
  ASSUME Forms, Capped, NEW t \in Threads, ThreadStep(t), t \notin touched', t \notin touched => Recorded(t)
  PROVE  Recorded(t)'
<1>0. pc \in [Threads -> Positions]
  BY DEF Forms
<1>1. CASE Schema(t)
  BY <1>1, SchemaRecorded
<1>2. CASE Seen(t) \/ Register(t)
  <2>1. UNCHANGED touched
    BY <1>2 DEF Seen, Register
  <2>. QED
    BY <1>2, <2>1, LabelRecorded
<1>3. CASE Find(t) \/ Mint(t)
  <2>1. UNCHANGED touched
    BY <1>3 DEF Find, Mint
  <2>. QED
    BY <1>3, <2>1, FamilyRecorded
<1>4. CASE LookFamily(t) \/ ReturnFamily(t) \/ CreateFamily(t)
  <2>1. UNCHANGED touched
    BY <1>4 DEF LookFamily, ReturnFamily, CreateFamily
  <2>. QED
    BY <1>4, <2>1, FamilyLooked
<1>5. CASE \/ \E k \in Kinds, n \in Names, s \in Subjects : Begin(t, k, n, s)
           \/ LookLabels(t) \/ CopyLabels(t) \/ Finish(t) \/ AddTotal(t) \/ AddErrors(t) \/ AddPanics(t)
  <2>1. pc'[t] \in {"labels", "broken: nil map", "copy", "running", "schema", "broken: map", "errors", "panics", "idle"}
    BY <1>0, <1>5 DEF Begin, LookLabels, CopyLabels, Finish, AddTotal, AddErrors, AddPanics, Return, Go
  <2>. QED
    BY <2>1 DEF Recorded
<1>. QED
  BY <1>1, <1>2, <1>3, <1>4, <1>5 DEF ThreadStep

LEMMA RecordsNext == Forms /\ Capped /\ Records /\ [Next]_vars => Records'
<1>. SUFFICES ASSUME Forms, Capped, Records, [Next]_vars PROVE Records'
  OBVIOUS
<1>1. ASSUME NEW t \in Threads, ThreadStep(t) PROVE Records'
  <2>1. /\ touched' \in {touched, touched \ {t}}
        /\ \A o \in Threads : o # t => pc'[o] = pc[o] /\ call'[o] = call[o]
    BY <1>1, ThreadFrame
  <2>2. ASSUME NEW o \in Threads \ touched', o # t PROVE Recorded(o)'
    <3>1. o \in Threads \ touched /\ pc'[o] = pc[o] /\ call'[o] = call[o]
      BY <2>1, <2>2
    <3>2. Recorded(o) /\ call[o].kind \in Kinds
      BY <3>1 DEF Records, Forms
    <3>3. labeledOps \subseteq labeledOps' /\ (Full(labeledOps) => UNCHANGED labeledOps)
      BY <1>1, Grows
    <3>4. cache[call[o].kind] \subseteq cache'[call[o].kind]
          /\ (Full(cache[call[o].kind]) => cache'[call[o].kind] = cache[call[o].kind])
      BY <1>1, <3>2, Grows
    <3>5. LabelRight(o) => LabelRight(o)'
      BY <3>1, <3>3 DEF LabelRight, Full
    <3>6. FamilyRight(o) => FamilyRight(o)'
      BY <3>1, <3>4 DEF FamilyRight, Full
    <3>. QED
      BY <3>1, <3>2, <3>3, <3>4, <3>5, <3>6 DEF Recorded
  <2>3. t \notin touched' => Recorded(t)'
    BY <1>1, OwnRecorded DEF Records
  <2>. QED
    BY <2>2, <2>3 DEF Records
<1>2. CASE Reset
  <2>1. UNCHANGED <<pc, call>> /\ touched \subseteq touched'
    BY <1>2 DEF Reset, Handle, Configure, Shape, ResetCaches, ResetFamily, ClearStatics, AppendStatic, Touch
  <2>2. UNCHANGED <<labeledOps, cache>> \/ \A t \in Threads \ touched' : pc[t] \notin Registering
    BY <1>2 DEF Reset, Handle, Configure, Shape, ResetCaches, ResetFamily, ClearStatics, AppendStatic, Touch, registry
  <2>3. UNCHANGED <<labeledOps, cache>> => \A t \in Threads : Recorded(t) => Recorded(t)'
    BY <2>1 DEF Recorded, LabelRight, FamilyRight, Full
  <2>4. \A t \in Threads : pc[t] \notin Registering => Recorded(t)'
    BY <2>1 DEF Registering, Recorded
  <2>. QED
    BY <2>1, <2>2, <2>3, <2>4 DEF Records
<1>3. CASE UNCHANGED <<registry, labels, conf, pc, call, count, touched, calls, resets>>
  <2>1. UNCHANGED <<pc, call, touched, labeledOps, cache>>
    BY <1>3 DEF registry
  <2>2. \A t \in Threads : Recorded(t) => Recorded(t)'
    BY <2>1 DEF Recorded, LabelRight, FamilyRight, Full
  <2>. QED
    BY <2>1, <2>2 DEF Records
<1>. QED
  BY <1>1, <1>2, <1>3, Steps

\* A call goes to the shared series only if the registry is full and the name was not in it when
\* the call began to record, whatever other goroutines register, unless a reset comes in between.
THEOREM OverflowsOnlyWhenFull == Spec => []OverflowOnlyWhenFull
<1>1. Records => OverflowOnlyWhenFull
  BY DEF Records, Recorded, LabelRight, FamilyRight, Full, OverflowOnlyWhenFull
<1>2. Init => Capped
  BY NoNames DEF Init, Capped
<1>3. Init => Records
  <2>1. Init => \A t \in Threads : pc[t] = "idle"
    BY DEF Init
  <2>. QED
    BY <2>1 DEF Records, Recorded
<1>. QED
  BY <1>1, <1>2, <1>3, InitLabels, FormsNext, NextCapped, RecordsNext, PTL DEF Spec

----------------------------------------------------------------------------
(* Types.                                                                  *)

Switches ==
  /\ schema \in {"perOp", "labeled", "both"} /\ family \in BOOLEAN
  /\ wpc \in [Workers -> {"idle", "hook"}] /\ staticKV \subseteq {"service", "env"}

LEMMA SwitchesNext == Forms /\ Requests /\ Switches /\ [Next]_vars => Switches'
<1>. SUFFICES ASSUME Forms, Requests, Switches, [Next]_vars PROVE Switches'
  OBVIOUS
<1>1. ASSUME NEW t \in Threads, ThreadStep(t) PROVE Switches'
  <2>1. UNCHANGED <<schema, wpc, staticKV>>
    BY <1>1, ThreadFrame DEF hook, labels
  <2>2. family' \in BOOLEAN
    BY <1>1 DEF Switches, ThreadStep, registry, Begin, LookLabels, CopyLabels, Finish, Schema, Seen, Register,
                LookFamily, ReturnFamily, CreateFamily, Find, Mint, AddTotal, AddErrors, AddPanics
  <2>. QED
    BY <2>1, <2>2 DEF Switches
<1>2. CASE Reset
  <2>1. UNCHANGED wpc /\ family' \in BOOLEAN
    BY <1>2 DEF Switches, Reset, registry, hook, Handle, Configure, Shape, ResetCaches, ResetFamily, ClearStatics, AppendStatic
  <2>2. schema' = schema \/ schema' = conf.to.schema
    BY <1>2 DEF Reset, registry, Handle, Configure, Shape, ResetCaches, ResetFamily, ClearStatics, AppendStatic
  <2>3. conf.to.schema \in {"perOp", "labeled", "both"}
    BY Configured DEF Requests, Request
  <2>4. staticKV' \subseteq {"service", "env"}
    BY <1>2 DEF Switches, Reset, labels, Handle, Configure, Shape, ResetCaches, ResetFamily, ClearStatics, AppendStatic
  <2>. QED
    BY <2>1, <2>2, <2>3, <2>4 DEF Switches
<1>3. ASSUME NEW w \in Workers, Hook(w) \/ \E n \in 1..2 : Snapshot(w, n) PROVE Switches'
  BY <1>3 DEF Switches, Hook, Snapshot, others, registry, labels
<1>4. CASE UNCHANGED vars
  BY <1>4 DEF Switches, vars, registry, hook, labels
<1>. QED
  BY <1>1, <1>2, <1>3, <1>4 DEF Next

\* Every variable has its type.
THEOREM TypeCorrect == Spec => []TypeOK
<1>1. Forms /\ Requests /\ Arrays /\ Switches => TypeOK
  <2>. SUFFICES ASSUME Forms, Requests, Arrays, Switches PROVE TypeOK
    OBVIOUS
  <2>1. statics.len <= statics.cap /\ statics.cap <= 2 /\ \A c \in 0..2 : Len(cells[c]) <= c
    BY DEF Arrays
  <2>2. /\ pc \in [Threads -> {"idle", "labels", "copy", "running", "schema", "errors", "panics",
                              "broken: map", "broken: nil map", "broken: nil"} \cup Registering]
        /\ touched \subseteq Threads
    BY Zenon DEF Forms, Positions
  <2>. QED
    BY <2>1, <2>2 DEF Switches, TypeOK
<1>2. Init => Switches
  BY DEF Init, Switches
<1>. QED
  BY <1>1, <1>2, InitLabels, FormsNext, RequestsNext, ArraysNext, SwitchesNext, PTL DEF Spec
============================================================================
