------------------------------ MODULE Metrics ------------------------------
(***************************************************************************)
(* What boeng counts: the labels and the metrics of operations and events  *)
(* (boeng/metrics.go, and startOp and Emit of boeng/run.go) while Init and *)
(* MetricsHandler reset the instruments under them, and the counters of    *)
(* the asynchronous pipeline (the hook in reexport.go and otel_logger.go). *)
(*                                                                         *)
(* One step is one critical section of labelsMu, labeledMu or metricsMu,   *)
(* one access of shared memory outside of them, or one call of an          *)
(* instrument.  The duration is recorded like the total, and the shared    *)
(* overflow family is created like any other: neither is modelled.  Which  *)
(* provider an instrument belongs to is the subject of ObsLifecycle.       *)
(***************************************************************************)
EXTENDS Integers, Sequences, FiniteSets, SequencesExt

CONSTANTS
  Threads,       \* goroutines that run operations and emit events
  Workers,       \* goroutines of the pipeline that call the metrics hook
  Names,         \* names of operations and events: sequences of characters
  Lowered,       \* the upper-case letters, and the lower-case letter of each
  Allowed,       \* characters that a metric name keeps as they are
  Subjects,      \* subjects: records [kind, keys]
  Configs,       \* what Init is called with: records [statics, labels, schema]
  MaxNames,      \* maxDistinctMetricNames: 512 in the code
  MaxDelta,      \* the largest delta the hook counts one by one: 1000 in the code
  MaxCalls,      \* bound on the calls of the goroutines
  MaxResets,     \* bound on the calls of Init and MetricsHandler
  MaxFlushes     \* bound on the batches of the pipeline

ASSUME MetricsAssumption ==
  /\ \A c \in Configs : /\ c.statics \in Seq({"service", "env"}) /\ IsInjective(c.statics)
                        /\ c.schema \in {"perOp", "labeled", "both"}
  /\ \A s \in Subjects : s.kind \in {"nil", "loggable", "map", "nilMap", "struct", "other"}
  /\ MaxNames \in Nat \ {0} /\ MaxDelta \in Nat /\ MaxCalls \in Nat /\ MaxResets \in Nat
  /\ MaxFlushes \in Nat

VARIABLES
  schema,        \* metricShape
  family,        \* labeledSet is there
  labeledOps,    \* the label values registered
  cache,         \* opMetricsCache and evtMetricsCache: the names with a family
  labelAllowed,  \* the allowlist of labels
  cells,         \* backing arrays of staticAttrs, by capacity: records [key, no]
  statics,       \* staticAttrs: records [cap, len]
  staticKV,      \* the keys of staticLabelKV
  conf,          \* the call of configureMetrics or MetricsHandler in progress
  pc, call,      \* where each goroutine is, and its call
  count,         \* the counters: <<name, suffix>>
  \* the pipeline's hook
  stats,         \* entries processed
  wpc, snap,     \* where each worker is, and the Stats it took
  prev,          \* the Stats last counted
  incs, deltas,  \* what the counter and the histogram of large deltas have got
  \* history
  touched,       \* goroutines whose current phase a reset overlapped
  current,       \* what the last Init to begin asked for, and its number
  older,         \* a worker locked hookMu with Stats older than prev
  calls, resets, flushes

registry == <<schema, family, labeledOps, cache>>
labels   == <<labelAllowed, cells, statics, staticKV, current>>
hook     == <<stats, wpc, snap, prev, incs, deltas, older, flushes>>
vars     == <<registry, labels, conf, pc, call, count, hook, touched, calls, resets>>

Overflow == <<"overflow">>
Kinds == {"op", "event"}
NoConf == [step |-> "idle", to |-> [statics |-> <<>>, labels |-> {}, schema |-> "perOp"], init |-> FALSE, no |-> 0]
NoLook == [allowed |-> {}, slice |-> [cap |-> 0, len |-> 0], cells |-> <<>>, current |-> NoConf]

\* What a call has looked up, the labels it made of it, and what it counts where.
NoCall == [kind |-> "op", safe |-> <<>>, keys |-> {}, look |-> NoLook, labels |-> <<>>, users |-> {},
           outcome |-> "ok", schema |-> "perOp", had |-> {}, label |-> <<>>, family |-> <<>>]

Init ==
  /\ schema = "perOp" /\ family = FALSE /\ labeledOps = {} /\ cache = [k \in Kinds |-> {}]
  /\ labelAllowed = {"service", "env"}
  /\ cells = [c \in 0..2 |-> <<>>] /\ statics = [cap |-> 0, len |-> 0] /\ staticKV = {}
  /\ conf = NoConf /\ current = NoConf
  /\ pc = [t \in Threads |-> "idle"] /\ call = [t \in Threads |-> NoCall]
  /\ count = [s \in {} |-> 0]
  /\ stats = 0 /\ wpc = [w \in Workers |-> "idle"] /\ snap = [w \in Workers |-> 0]
  /\ prev = 0 /\ incs = 0 /\ deltas = 0
  /\ touched = {} /\ older = FALSE
  /\ calls = 0 /\ resets = 0 /\ flushes = 0

----------------------------------------------------------------------------
(* Pure functions.                                                         *)

\* Runs of other characters become one underscore; those at the end are cut off.
sanitizeMetricName(name) ==
  LET Write(o, c) ==
        CASE c \in DOMAIN Lowered -> [out |-> Append(o.out, Lowered[c]), gap |-> FALSE]
          [] c \in Allowed        -> [out |-> Append(o.out, c), gap |-> FALSE]
          [] OTHER                -> IF o.gap THEN o ELSE [out |-> Append(o.out, "_"), gap |-> TRUE]
      out == FoldLeft(Write, [out |-> <<>>, gap |-> TRUE], name).out
      last == {i \in DOMAIN out : out[i] # "_"}
  IN  IF last = {} THEN <<"unnamed">>
      ELSE SubSeq(out, 1, CHOOSE i \in last : \A j \in last : j <= i)

\* The keys of a subject: nothing of a nil, of an empty pointer or of a plain value.
extractFields(s) == IF s.kind \in {"loggable", "map", "struct"} THEN s.keys ELSE {}

PerOp(s)   == s \in {"perOp", "both"}
Labeled(s) == s \in {"labeled", "both"}

----------------------------------------------------------------------------
(* The labels of a call.                                                   *)

Go(t, p) == pc' = [pc EXCEPT ![t] = p]

Called == calls < MaxCalls /\ flushes = 0 /\ calls' = calls + 1

\* startOp up to its labels, or Emit, which writes into the map of the subject.
Begin(t, kind, name, s) ==
  /\ pc[t] = "idle" /\ Called
  /\ call' = [call EXCEPT ![t] = [NoCall EXCEPT !.kind = kind, !.safe = sanitizeMetricName(name),
       !.keys = extractFields(s) \cup IF kind = "event" /\ s.kind = "map" THEN {"event"} ELSE {}]]
  /\ IF kind = "event" /\ s.kind = "nilMap" THEN Go(t, "broken: nil map") ELSE Go(t, "labels")
  /\ touched' = touched \ {t}
  /\ UNCHANGED <<registry, labels, conf, count, hook, resets>>

\* labelsMu is free: configureMetrics holds it throughout, MetricsHandler never.
LabelsFree == conf.step = "idle" \/ ~conf.init

\* The slice of static labels, not what it holds, and the allowlist.
Look == [allowed |-> labelAllowed, slice |-> statics, cells |-> cells[statics.cap], current |-> current]

\* Looks while configureMetrics holds the lock.
LookLabelsUnlocked(t) ==
  /\ pc[t] = "labels"
  /\ call' = [call EXCEPT ![t].look = Look]
  /\ Go(t, "copy")
  /\ UNCHANGED <<registry, labels, conf, count, hook, touched, calls, resets>>

\* metricLabels under the read lock.
LookLabels(t) ==
  /\ pc[t] = "labels" /\ LabelsFree
  /\ call' = [call EXCEPT ![t].look = Look]
  /\ Go(t, "copy")
  /\ UNCHANGED <<registry, labels, conf, count, hook, touched, calls, resets>>

\* The rest of it, without the lock: each word of the array may be old or new.  Then the
\* allowed keys of the subject but the static ones; configureMetrics may be writing to the
\* map that says which these are, which the Go runtime answers by ending the process.
CopyLabels(t) ==
  LET look == call[t].look
      now  == cells[look.slice.cap]
      Words(i) == [key : {look.cells[i].key, now[i].key}, no : {look.cells[i].no, now[i].no}]
      mine == call[t].keys \cap look.allowed
  IN  /\ pc[t] = "copy"
      /\ \E copied \in [1..look.slice.len -> UNION {Words(i) : i \in 1..look.slice.len}] :
           /\ \A i \in DOMAIN copied : copied[i] \in Words(i)
           /\ call' = [call EXCEPT ![t].labels = copied, ![t].users = mine \ staticKV]
      /\ \/ IF call[t].kind = "op" THEN Go(t, "running") ELSE Go(t, "schema")
         \/ conf.step \in {"service", "env"} /\ mine # {} /\ Go(t, "broken: map")
      /\ UNCHANGED <<registry, labels, conf, count, hook, touched, calls, resets>>

----------------------------------------------------------------------------
(* recordOp and recordEvent.                                               *)

\* The operation ends.
Finish(t) ==
  /\ pc[t] = "running"
  /\ \E o \in {"ok", "error", "panic"} : call' = [call EXCEPT ![t].outcome = o]
  /\ Go(t, "schema")
  /\ UNCHANGED <<registry, labels, conf, count, hook, touched, calls, resets>>

\* What of its own the name has at the moment: a label value, a family.
Has(t) ==
  {x \in {"label", "family"} :
     call[t].safe \in IF x = "label" THEN labeledOps ELSE cache[call[t].kind]}

Schema(t) ==
  /\ pc[t] = "schema"
  /\ call' = [call EXCEPT ![t] = [@ EXCEPT !.keys = {}, !.look = NoLook, !.labels = <<>>, !.users = {},
                                              !.schema = schema, !.had = Has(t)]]
  /\ IF Labeled(schema) THEN Go(t, "seen") ELSE Go(t, "find")
  /\ touched' = touched \ {t}
  /\ UNCHANGED <<registry, labels, conf, count, hook, calls, resets>>

\* Looks at the cap before it looks for the name.
SeenLate(t) ==
  /\ pc[t] = "seen"
  /\ IF Cardinality(labeledOps) >= MaxNames THEN call' = [call EXCEPT ![t].label = Overflow] /\ Go(t, "family")
     ELSE IF call[t].safe \in labeledOps THEN call' = [call EXCEPT ![t].label = call[t].safe] /\ Go(t, "family")
     ELSE Go(t, "register") /\ UNCHANGED call
  /\ UNCHANGED <<registry, labels, conf, count, hook, touched, calls, resets>>

\* labeledOpValue under the read lock.
Seen(t) ==
  /\ pc[t] = "seen"
  /\ \/ /\ call[t].safe \in labeledOps
        /\ call' = [call EXCEPT ![t].label = call[t].safe]
        /\ Go(t, "family")
     \/ /\ call[t].safe \notin labeledOps /\ Cardinality(labeledOps) >= MaxNames
        /\ call' = [call EXCEPT ![t].label = Overflow]
        /\ Go(t, "family")
     \/ /\ call[t].safe \notin labeledOps /\ Cardinality(labeledOps) < MaxNames
        /\ Go(t, "register") /\ UNCHANGED call
  /\ UNCHANGED <<registry, labels, conf, count, hook, touched, calls, resets>>

\* Registers without a second look at the cap.
RegisterAnyway(t) ==
  /\ pc[t] = "register"
  /\ labeledOps' = labeledOps \cup {call[t].safe}
  /\ call' = [call EXCEPT ![t].label = call[t].safe]
  /\ Go(t, "family")
  /\ UNCHANGED <<schema, family, cache, labels, conf, count, hook, touched, calls, resets>>

\* labeledOpValue under the write lock: looks at the cap again, not at the name.
Register(t) ==
  /\ pc[t] = "register"
  /\ IF Cardinality(labeledOps) < MaxNames
     THEN labeledOps' = labeledOps \cup {call[t].safe} /\ call' = [call EXCEPT ![t].label = call[t].safe]
     ELSE UNCHANGED labeledOps /\ call' = [call EXCEPT ![t].label = Overflow]
  /\ Go(t, "family")
  /\ UNCHANGED <<schema, family, cache, labels, conf, count, hook, touched, calls, resets>>

\* Relies on Init to have made the family.
LookFamilyNot(t) ==
  /\ pc[t] = "family"
  /\ Go(t, "return")
  /\ UNCHANGED <<registry, labels, conf, call, count, hook, touched, calls, resets>>

\* labeledMetrics under the read lock.
LookFamily(t) ==
  /\ pc[t] = "family"
  /\ IF family THEN Go(t, "return") ELSE Go(t, "create")
  /\ UNCHANGED <<registry, labels, conf, call, count, hook, touched, calls, resets>>

Add(s) == count' = [x \in DOMAIN count \cup {s} |-> IF x \notin DOMAIN count THEN 1
                                                   ELSE count[x] + IF x = s THEN 1 ELSE 0]

Observed(t) == IF PerOp(call[t].schema) THEN Go(t, "find") /\ UNCHANGED call
               ELSE Go(t, "idle") /\ call' = [call EXCEPT ![t] = NoCall]

\* Without the lock: labeledSet is read again, and used.
ReturnFamily(t) ==
  /\ pc[t] = "return"
  /\ \/ family /\ Observed(t)
     \/ ~family /\ Go(t, "broken: nil") /\ UNCHANGED call
  /\ UNCHANGED <<registry, labels, conf, count, hook, touched, calls, resets>>

\* Under the write lock, and the use of what it returns.
CreateFamily(t) ==
  /\ pc[t] = "create"
  /\ family' = TRUE
  /\ Observed(t)
  /\ UNCHANGED <<schema, labeledOps, cache, labels, conf, count, hook, touched, calls, resets>>

\* opMetricsFor and eventMetricsFor under the read lock.
Find(t) ==
  /\ pc[t] = "find"
  /\ IF call[t].safe \in cache[call[t].kind]
     THEN call' = [call EXCEPT ![t].family = call[t].safe] /\ Go(t, "total")
     ELSE Go(t, "mint") /\ UNCHANGED call
  /\ UNCHANGED <<registry, labels, conf, count, hook, touched, calls, resets>>

\* Under the write lock: looks again, then at the cap.
Mint(t) ==
  LET c == call[t]
  IN  /\ pc[t] = "mint"
      /\ IF c.safe \in cache[c.kind] \/ Cardinality(cache[c.kind]) < MaxNames
         THEN cache' = [cache EXCEPT ![c.kind] = @ \cup {c.safe}] /\ call' = [call EXCEPT ![t].family = c.safe]
         ELSE UNCHANGED cache /\ call' = [call EXCEPT ![t].family = Overflow]
      /\ Go(t, "total")
      /\ UNCHANGED <<schema, family, labeledOps, labels, conf, count, hook, touched, calls, resets>>

Return(t) == Go(t, "idle") /\ call' = [call EXCEPT ![t] = NoCall]

\* Counts the total of what did not fail.
AddTotalOfSuccess(t) ==
  /\ pc[t] = "total"
  /\ IF call[t].outcome = "ok" THEN Add(<<call[t].family, "total">>) ELSE UNCHANGED count
  /\ IF call[t].outcome = "ok" THEN Return(t) ELSE Go(t, "errors") /\ UNCHANGED call
  /\ UNCHANGED <<registry, labels, conf, hook, touched, calls, resets>>

\* The counter of an operation and that of an event have the same name.
AddTotal(t) ==
  /\ pc[t] = "total"
  /\ Add(<<call[t].family, "total">>)
  /\ IF call[t].outcome = "ok" THEN Return(t) ELSE Go(t, "errors") /\ UNCHANGED call
  /\ UNCHANGED <<registry, labels, conf, hook, touched, calls, resets>>

AddErrors(t) ==
  /\ pc[t] = "errors"
  /\ Add(<<call[t].family, "error_total">>)
  /\ IF call[t].outcome = "error" THEN Return(t) ELSE Go(t, "panics") /\ UNCHANGED call
  /\ UNCHANGED <<registry, labels, conf, hook, touched, calls, resets>>

AddPanics(t) ==
  /\ pc[t] = "panics"
  /\ Add(<<call[t].family, "panic_total">>)
  /\ Return(t)
  /\ UNCHANGED <<registry, labels, conf, hook, touched, calls, resets>>

----------------------------------------------------------------------------
(* configureMetrics and resetMetricInstruments.                            *)

Registering == {"seen", "register", "family", "return", "create", "find", "mint", "total"}

\* A reset changes what the goroutines in one of these places are about to use.
Touch(places) == touched' = touched \cup {t \in Threads : pc[t] \in places}

Begun == conf.step = "idle" /\ resets < MaxResets /\ flushes = 0 /\ resets' = resets + 1

\* MetricsHandler: resetMetricInstruments alone.
Handle ==
  /\ Begun
  /\ conf' = [NoConf EXCEPT !.step = "caches"]
  /\ UNCHANGED <<registry, labels, pc, call, count, hook, touched, calls>>

\* Init: takes labelsMu, and replaces the allowlist.
Configure(c) ==
  /\ Begun
  /\ conf' = [step |-> "shape", to |-> c, init |-> TRUE, no |-> resets']
  /\ current' = conf'
  /\ labelAllowed' = {"service", "env"} \cup c.labels
  /\ UNCHANGED <<registry, cells, statics, staticKV, pc, call, count, hook, touched, calls>>

Shape ==
  /\ conf.step = "shape"
  /\ schema' = conf.to.schema /\ family' = FALSE /\ labeledOps' = {}
  /\ conf' = [conf EXCEPT !.step = "caches"]
  /\ Touch(Registering)
  /\ UNCHANGED <<cache, labels, pc, call, count, hook, calls, resets>>

ResetCaches ==
  /\ conf.step = "caches"
  /\ cache' = [k \in Kinds |-> {}]
  /\ conf' = [conf EXCEPT !.step = "set"]
  /\ Touch(Registering)
  /\ UNCHANGED <<schema, family, labeledOps, labels, pc, call, count, hook, calls, resets>>

ResetFamily ==
  /\ conf.step = "set"
  /\ family' = FALSE
  /\ conf' = IF conf.init THEN [conf EXCEPT !.step = "clear"] ELSE NoConf
  /\ Touch(Registering)
  /\ UNCHANGED <<schema, labeledOps, cache, labels, pc, call, count, hook, calls, resets>>

\* The step that writes the i-th static label, or the end, with the unlock.
Next_(i) == IF i > Len(conf.to.statics) THEN NoConf ELSE [conf EXCEPT !.step = conf.to.statics[i]]

\* Cuts the slice to nothing, keeping its array, and makes a new map.
ClearStatics ==
  /\ conf.step = "clear"
  /\ statics' = [statics EXCEPT !.len = 0]
  /\ staticKV' = {}
  /\ conf' = Next_(1)
  /\ Touch({"copy"})
  /\ UNCHANGED <<registry, labelAllowed, cells, current, pc, call, count, hook, calls, resets>>

\* append: in place while the capacity lasts; then the write to the map.
AppendStatic ==
  LET cell == [key |-> conf.step, no |-> conf.no]
      n    == statics.len + 1
      cap  == IF n <= statics.cap THEN statics.cap ELSE n
      kept == SubSeq(cells[statics.cap], 1, statics.len)
      rest == IF cap = statics.cap THEN SubSeq(cells[cap], n + 1, cap) ELSE <<>>
  IN  /\ conf.step \in {"service", "env"}
      /\ cells' = [cells EXCEPT ![cap] = kept \o <<cell>> \o rest]
      /\ statics' = [cap |-> cap, len |-> n]
      /\ staticKV' = staticKV \cup {conf.step}
      /\ conf' = Next_(n + 1)
      /\ Touch({"copy"})
      /\ UNCHANGED <<registry, labelAllowed, current, pc, call, count, hook, calls, resets>>

----------------------------------------------------------------------------
(* The hook of the pipeline.  It shares no variable with the rest, so that *)
(* a behaviour shows the one or the other.                                 *)

others == <<registry, labels, conf, pc, call, count, touched, calls, resets>>

\* A worker has processed n entries, and reads the Stats.
Snapshot(w, n) ==
  /\ wpc[w] = "idle" /\ flushes < MaxFlushes /\ calls + resets = 0
  /\ flushes' = flushes + 1
  /\ stats' = stats + n
  /\ snap' = [snap EXCEPT ![w] = stats']
  /\ wpc' = [wpc EXCEPT ![w] = "hook"]
  /\ UNCHANGED <<prev, incs, deltas, older, others>>

\* Counts all of the Stats each time.
HookAll(w) ==
  /\ wpc[w] = "hook"
  /\ incs' = incs + snap[w] /\ prev' = snap[w] /\ UNCHANGED deltas
  /\ older' = (older \/ snap[w] < prev)
  /\ wpc' = [wpc EXCEPT ![w] = "idle"]
  /\ snap' = [snap EXCEPT ![w] = 0]
  /\ UNCHANGED <<stats, flushes, others>>

\* The hook, under hookMu.
Hook(w) ==
  LET n == snap[w] - prev
  IN  /\ wpc[w] = "hook"
      /\ incs'   = IF snap[w] >= prev /\ n <= MaxDelta THEN incs + n ELSE incs
      /\ deltas' = IF snap[w] >= prev /\ n > MaxDelta THEN deltas + n ELSE deltas
      /\ prev' = snap[w]
      /\ older' = (older \/ snap[w] < prev)
      /\ wpc' = [wpc EXCEPT ![w] = "idle"]
      /\ snap' = [snap EXCEPT ![w] = 0]
      /\ UNCHANGED <<stats, flushes, others>>

----------------------------------------------------------------------------
\* A concurrent map access has ended the process.
Alive == \A t \in Threads : pc[t] # "broken: map"

ThreadStep(t) ==
  \/ \E k \in Kinds, n \in Names, s \in Subjects : Begin(t, k, n, s)
  \/ LookLabels(t) \/ CopyLabels(t) \/ Finish(t)
  \/ Schema(t) \/ Seen(t) \/ Register(t)
  \/ LookFamily(t) \/ ReturnFamily(t) \/ CreateFamily(t)
  \/ Find(t) \/ Mint(t) \/ AddTotal(t) \/ AddErrors(t) \/ AddPanics(t)

Reset ==
  \/ Handle \/ \E c \in Configs : Configure(c)
  \/ Shape \/ ResetCaches \/ ResetFamily \/ ClearStatics \/ AppendStatic

Next ==
  /\ Alive
  /\ \/ \E t \in Threads : ThreadStep(t)
     \/ Reset
     \/ \E w \in Workers : Hook(w) \/ \E n \in 1..2 : Snapshot(w, n)

Spec == Init /\ [][Next]_vars

----------------------------------------------------------------------------
(* Properties.                                                             *)

Count(n, suffix) == IF <<n, suffix>> \in DOMAIN count THEN count[<<n, suffix>>] ELSE 0

\* Every variable has its type.
TypeOK ==
  /\ schema \in {"perOp", "labeled", "both"} /\ family \in BOOLEAN
  /\ staticKV \subseteq {"service", "env"}
  /\ statics.len <= statics.cap /\ statics.cap <= 2
  /\ \A c \in 0..2 : Len(cells[c]) <= c
  /\ pc \in [Threads -> {"idle", "labels", "copy", "running", "schema", "errors", "panics",
                         "broken: map", "broken: nil map", "broken: nil"} \cup Registering]
  /\ wpc \in [Workers -> {"idle", "hook"}]
  /\ touched \subseteq Threads

\* However many goroutines register a name at the same time, no registry ever has more names
\* than its cap (comment of maxDistinctMetricNames).
CapHolds ==
  /\ Cardinality(labeledOps) <= MaxNames
  /\ \A k \in Kinds : Cardinality(cache[k]) <= MaxNames

\* A call goes to the overflow series only if the registry is full and the name had no
\* series when the call began to record, and to its own series otherwise; a reset in
\* between may change that (G3: the comments of maxDistinctMetricNames, opMetricsFor and
\* labeledOpValue).
OverflowOnlyWhenFull ==
  \A t \in Threads \ touched :
    LET c == call[t]
    IN  /\ pc[t] = "family" =>
             \/ c.label = c.safe /\ c.safe \in labeledOps
             \/ c.label = Overflow /\ "label" \notin c.had /\ Cardinality(labeledOps) = MaxNames
        /\ pc[t] = "total" =>
             \/ c.family = c.safe /\ c.safe \in cache[c.kind]
             \/ c.family = Overflow /\ "family" \notin c.had /\ Cardinality(cache[c.kind]) = MaxNames

\* The labels of a call are the static ones of one Init, complete, and the allowed ones of
\* its subject, no key twice, unless an Init writes them between the look and the copy.
LabelsOfOneInit ==
  \A t \in Threads \ touched : pc[t] \in {"running", "schema"} =>
    LET c  == call[t]
        to == c.look.current.to
    IN  /\ c.labels = [i \in DOMAIN to.statics |-> [key |-> to.statics[i], no |-> c.look.current.no]]
        /\ c.users = (c.keys \cap ({"service", "env"} \cup to.labels)) \ ToSet(to.statics)

\* Whenever the metrics are scraped, no series has more panics than errors, nor more errors
\* than operations (boeng/README.md: <op>_panic_total also bumps <op>_error_total).
ScrapeConsistent ==
  \A s \in DOMAIN count :
    /\ Count(s[1], "panic_total") <= Count(s[1], "error_total")
    /\ Count(s[1], "error_total") <= Count(s[1], "total")

\* Recording breaks its caller only if a reset comes in between.
BreaksOnlyByReset ==
  \A t \in Threads : pc[t] \in {"broken: map", "broken: nil"} => t \in touched

\* The counters of the pipeline say what was processed, unless a worker comes to the hook
\* with Stats older than those last counted: then they say too much, and never too little.
HookExact ==
  /\ incs + deltas >= prev
  /\ ~older => incs + deltas = prev

\* labeledMetrics "returns the fixed instrument family, creating it on first use"
\* (metrics.go:179).
FamilyReturned == \A t \in Threads : pc[t] # "broken: nil"
============================================================================
