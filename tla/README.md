# TLA+ verification of obs-brutal

obs-brutal is a Go library for structured logging with traces and metrics: a logger
with an asynchronous pipeline and a choice of sinks (`internal/`), and the `boeng`
runtime, which wraps functions in observed operations. This directory holds its formal
model: TLA+ modules, TLC configurations and TLAPS proofs. Paths and line numbers below
are relative to the root of the repository.

## 1. The system

```
 application ──► boeng.Run / Enter / Step / Emit        (boeng/run.go, enter.go)
                    │            │
                    │            └──► per-op instruments  (boeng/metrics.go) ──► global MeterProvider
                    ▼
              logger: unified | async | strategy | otel   (internal/core/service)
                    │
                    ▼
        async pipeline: logChan ─► batch worker ─► batchChan ─► sink workers
                    │
                    ▼
   sinks: stdout, file, Loki, ClickHouse, alerts; wrapped by buffered / async sinks
```

`boeng.Init` builds sinks, logger and OTel providers into one `Obs`, makes it the process
default and closes the previous one.

| Component | State | Operations | What makes it hard | What makes it correct |
|---|---|---|---|---|
| **Async pipeline** `internal/core/service/base/async.go` | `logChan`, `batchChan`, the batch being filled, `stopped`, `quit`, `stopOnce`, policy, counters | `log`/`WriteAsync` (three policies), batch worker, sink workers, `Stop`, `Stats` | callers race workers and `Stop`; full queues; eviction; drain | at most one write per entry; `Stop` leaves nothing behind; no send on a closed channel; order; counters; everything returns |
| **Pipeline metrics hook** `otel_logger.go:197`, `reexport.go:49` | last snapshot | hook called by every worker | snapshot taken before the lock | counters say what was processed |
| **Loki sink** `sink/network/loki.go` | buffer, backoff gate, batch size, `stopCh` | `Write`, `flush`, `requeue`, `post`, ticker, `Close`, `Configure` | pushes overlap because the lock is released during HTTP; retries; unclear answers; outage | no entry vanishes uncounted; none held twice; bounded buffer; pushed in the end |
| **Async, buffered, toggle sink** `sink/async`, `sink/buffered`, `sink/stdout/toggle.go` | queue, buffer, mutex, stop channels | `Write`, workers, flusher, `Close`, `Configure` | `Write` races `Close`; the sink inside fails | entries accounted for; drained on `Close`; no duplicates without cause |
| **Alert sinks** `sink/alerts` | none | `deliver`, `postOnce` | retries under a budget, unclear answers | attempts and time bounded; duplicates explained |
| **File sinks** `sink/file` | handle, backups | `Write`, rotate, `Close` | failing renames and reopens | nothing truncated; order of the backups |
| **Operation runtime** `boeng/run.go`, `boeng/enter.go` | per handle: error, `closed` flag; per call: what was recovered | `Run`, `Enter`, `Step`, `Fail`, `Close`, `CloseWith`, `Emit` | panics, `Goexit`, handles shared by goroutines | one completion per operation; no failure hidden; no panic swallowed |
| **Adapters** `boeng/http,gin,mongo` (`rabbit`, `redis`) | recorded status; commands in flight | middlewares, monitor; the others wrap calls in `Run` | what the handler left; callbacks of a driver | a failed response or command is a failed operation; each command closed once |
| **Obs lifecycle** `boeng/boeng.go` | process default, logger, provider, `closed` | `Init`, `Close`, `D`, `MetricsHandler` | re-Init under traffic; racing Inits; partly failed setup | previous instance closed; resources released; no operation bound to a dead provider |
| **OTel providers** `adapter/outbound/otel`, `telemetry` | global tracer and meter providers, ownership marks | adopt, install, shut down | check-then-install on process globals | an application's provider is never shut down, nor boeng's own adopted |
| **Metric instruments** `boeng/metrics.go` | registries, cap 512, schema, allowlist, static labels | `metricLabels`, `recordOp`, `recordEvent`, `configureMetrics`, reset | double-checked caches, reset under traffic | caps hold; no false overflow; labels of one Init; counters consistent at any scrape |
| **Loggers** `service/base/unified.go`, `service/strategy`, `service/otel_logger.go` | strategy objects, fields; filters, samplers, maskers | derived loggers, log calls, `Add*`, `Remove*` | loggers derived from a shared one; strategies changed under traffic | lines do not mix; a masker's secrets stay masked |
| **Security helpers** `service/security` | access rules, audit trail | `LogWithSecurity`, `FilterFieldsByAccess`, `SetFieldAccess` | works on the shared logger | a reader sees what the rules allow; the trail says so |

`PROJECT.json` lists every component, also those without concurrency or state, with the reason why
it is not modelled, and under `hazards` each place where the code is hard to test.

## 2. Modules

| Module | Models | Checked by | Proved in |
|---|---|---|---|
| `LogDelivery` | abstract: what an asynchronous pipeline promises, without queues or workers | `AsyncPipeline` implements it | `AsyncPipelineProofs` |
| `SinkDelivery` | abstract: what a sink promises, without buffers, goroutines or requests | `LokiSink` and `Sinks` implement it | `LokiSinkProofs`, `SinksProofs` |
| `AsyncPipeline` | the pipeline and the loggers' calls into it | `MCAsyncPipeline` | `AsyncPipelineProofs` |
| `LokiSink` | the Loki push sink and its server | `MCLokiSink` | `LokiSinkProofs` |
| `Sinks` | chains of wrapping sinks, and the alert and file sinks at their end | `MCSinks` | `SinksProofs` |
| `OpRuntime` | operations, handles, panics; the HTTP, gin and MongoDB adapters | `MCOpRuntime` | `OpRuntimeProofs` |
| `ObsLifecycle` | `Init`, `Close`, `MetricsHandler`, the global providers and the instruments bound to them | `MCObsLifecycle` | `ObsLifecycleProofs` |
| `Metrics` | labels, registries and counters of operations and events, resets; the pipeline's hook | `MCMetrics` | `MetricsProofs` |
| `Loggers` | derived loggers, strategies, secured lines | `MCLoggers` | `LoggersProofs` |

The modules meet where the components do: what `OpRuntime` calls a completion is what `Metrics` counts; the cache that
`ObsLifecycle` binds to a provider is the registry of `Metrics`; a line that `Loggers` writes is the entry of
`AsyncPipeline`, whose write to the sinks is the `Write` of `Sinks`, whose Loki leaf is `LokiSink`. `SequenceLemmas` holds the lemmas about sequences
that the proofs about queues, batches and buffers share.

Some operators belong to no specification: `QuitNoDrain`, `CloseEarly`, `RequeueNot`, `ReturnSwallow`, `SeenLate`, `AddTotalOfSuccess`,
`WithOnlyFieldsNot`, `RotateUp`, ... Each is a plausible mistake in the action after it; `PROJECT.json` pairs it with a property
that must fail when it takes the action's place.

### AsyncPipeline

One step is one channel operation or one atomic of the code. The state of a caller (`at`) is
its position in `WriteAsync`: `check` (the stopped test), a policy's name (about to send),
`evict`, `resend` (the two further selects of DropOldest), `sync` (WriteAsync said no). `logChan` and
`batchChan` are bounded sequences. A `select` is a disjunction: the batch worker in `select`
may receive, tick or see `quit`, whichever is ready, as Go chooses at random. `Stop` is a
`sync.Once` (`once`), whose body closes `quit`, waits for the batch worker, closes
`batchChan` and waits for the sink workers; other callers wait in the Once.
The tick needs a non-empty batch, because a tick with an empty one does nothing.
`SetBackpressurePolicy` may happen at any time. `accepted`, `early`, `evicted` and
`delivered` are history.

Abstracted: the entry's contents and level, the `errors` and `batches` counters, the buffer pool. Writing one entry to all
sinks is one step: a sink's error changes only a counter. The timer of BlockShort may fire at any time. The metrics hook is in `Metrics`.

`KeepsPromise` says that the pipeline implements `LogDelivery`: an entry is pending from the
log call until it is written or evicted; it is *owned* if it was accepted before `stopped` was
set; closing ends only when nothing owned is pending. Entries accepted between the
`stopped` test of their caller and the end of the drain are the gap that the run
`pipeline_stranded` shows; the abstract promise does not cover them, on purpose.

### LokiSink

One step is one critical section of `s.mu` or one HTTP request. A goroutine in `post` holds the batch it
took out (`vals`). The server stores a batch (`PostOk`), refuses it (`PostRefused`: 429, 5xx, no
connection), rejects it (`PostRejected`: other 4xx, which ends the push at once) or stores it with an answer that
looks like a failure (`PostUnclear`). A failed push puts its batch back, whatever the reason. Time is reduced to whether the
backoff gate is closed: `GateExpires` may open it at any moment. The final flush of `Close` waits for the ticker. An entry is
numbered when it enters the buffer.

Abstracted: labels, headers, encoding (an entry that cannot be marshalled never enters the
buffer), an empty endpoint (the sink is then off), the waiting times between retries.
`KeepsPromise` says that the sink implements `SinkDelivery`: an entry is held from its `Write` until it is stored or trimmed, and it never comes back, neither
from a push that was under way nor by a requeue, unless the server stored it and answered as if it had not.

`Configure` changes the batch size; `timeout_ms` has no effect once the ticker runs, which is
so in the code as well.

### Sinks

A chain begins with the async or the buffered sink (an async one wraps a buffered one), may pass a toggle, and ends in a `leaf`:
the optimal file sink, an alert sink or the Loki sink. One step is one access of a flag or a channel, one critical section, or one write of
one entry at the end of the chain; a flush holds the mutex of the buffered sink all along, so its entries go one after the other
while others wait. `Check` and `Send` are the two halves of the async sink's `Write`, between which `CloseFlag` and the drain of the workers
may come. A flush keeps what failed (`kept`) and trims it at the cap (`FlushEnd`).

`deliver` of the alert sinks makes one request per step (`AlertPost`) and counts attempts, elapsed time and the doubling delay, all in
tenths of a second: the budget is 40, a slow request 25. `FileWrite` opens the file if it is not open, rotates it if it is full, with
any subset of the renames failing, and appends; `FileRefused` is a file that cannot be opened, before or after a rotation. `files[0]` is the
log file, `files[i]` the backup `.i`. An entry in `Unencodable` has a field JSON cannot encode. The Loki leaf stands for what `LokiSink`
means to its caller: it may return an error for an entry it keeps.

A chain as a whole implements `SinkDelivery` too (`KeepsPromise`): entries in the queue, in a hand, in the buffer or kept by a flush are held; refused, switched off and
trimmed ones are given up. The two refinements are what one sink may rely on in the next.

Abstracted: the buffered sink's timeout (once something was flushed, the next `Put` may find it over), what a service is sent, compression.
`lumberjack` rotates behind a lock of its own and is external.

### OpRuntime

A goroutine is a stack of calls that hold an operation: `run`, `step`, a handler inside the `http` or `gin` middleware, a function with a
deferred `close` or `closeWith`, or a plain `call` of Close. `mode` says what unwinds the
stack: nothing, a panic, or `runtime.Goexit`. Leaving a call takes two steps, because other
goroutines may use the handle in between: first the deferred function recovers and, by kind,
stores the step's error in the parent (`LeaveStep`), looks at what the handler left (`LeaveServing`) or wins the closed flag (`LeaveEnter`);
then it reads the stored error, reports the outcome and raises the panic again (`Finish`).
`Recover` is a recover of the application, or of the server that runs it. `finishes` collects the outcomes an operation
reports: the completion line, the metrics and the end of the span are one report.

`Respond` is a call of `WriteHeader` or `Write`: `status` is what statusWriter records, `answer` what the client gets. `AddError` is
`c.Error` of gin. The monitor of MongoDB enters an operation in `CommandStarted` and closes it in `CommandEnded`, which any goroutine may run;
`inflight` is its table. The hooks for redis and rabbit and the HTTP transport are calls of `Run`.

Abstracted: names, subjects, fields, durations, which error it was. `Success` changes nothing in
the code. A nil handle does nothing. Close is deferred directly, as the documentation of
`Op` demands; called from a deferred closure it could not recover.

### ObsLifecycle

A goroutine (`pc`, `ob`, `seen`) is idle, in Init, in Close, in MetricsHandler or creating an instrument. One
step is one access of a global: the OTel tracer and meter globals, the two ownership marks of `provider.go`, the
`meterInstalled` and `closed` flags, the default under its lock, the instrument cache under its own. Init is
`Start` (configureMetrics) ─ `Look`, `Decide` (adopt, export, or neither) ─ `SetTracer`, `OwnTracer` ─ for
an exporting one the install and `Telemetry`, `TelemetryMeter` ─ `Swap` ─ `CloseFlag`, `Shutdown` of the Obs it replaced.
`LookMeter` to `OwnMeter` is `InstallMeterProvider`, which MetricsHandler also calls; it then resets the cache. `Mint`
holds `metricsMu` from reading the global to filling the cache. The application may install its own providers at any
time. `tracer[o]` is where the Obs opens its spans: its own provider, the application's, or one it took for the application's.
`running` and `pushing` are the background goroutines an Obs may leave behind: the pipeline, and the periodic exporter of metrics.

Abstracted: sinks, resources, labels, levels, the propagator, what the exporters send. One entry stands for the caches of
per-operation, per-event and labeled instruments. An exporter that cannot be built is a free choice in `Decide`. An Init whose
provider fails before that (the merge of two resources) is left out: it leaves an Obs without provider. OpenTelemetry's default meter provider
(`NoProvider`) passes instruments on to the first provider installed; an instrument bound to it is recorded as such.

### Metrics

A call of an operation or an event goes through the code's phases: `Begin` (name and subject), `LookLabels` under the read lock of
`labelsMu`, `CopyLabels` without it, `Finish` with an outcome, then `recordOp` or `recordEvent`: `Schema`, the labeled schema (`Seen`, `Register`,
`LookFamily`, `ReturnFamily` or `CreateFamily`), the per-name one (`Find`, `Mint`), and each counter in a step of its own (`AddTotal`, `AddErrors`,
`AddPanics`), because a scrape may come between them. Names are sequences of characters here, since `sanitizeMetricName` can map two
operations to one series.

`configureMetrics` (`Configure`, `Shape`, ... `AppendStatic`) and `resetMetricInstruments` (`Handle`, `ResetCaches`, `ResetFamily`) run in the
steps between their locks. The static labels are a slice over a backing array: cutting it to length 0 and appending writes into the array that a call
may be copying, so `CopyLabels` finds old or new words in any mixture. It also reads `staticLabelKV` without the lock, which the Go runtime answers with
the end of the process if a write is under way (`broken: map`). The other `broken` states are a nil family (`broken: nil`) and `Emit` into a nil map.
`touched` marks the goroutines a reset overlapped in the phase they are in.

The hook (`Snapshot`, `Hook`) shares no variable with the rest; to keep the product of the two small, a behaviour shows one or the other.

### Loggers

An OTel logger points to a strategy object, which holds the fields (`base`). `Derive` stands for the calls that attach something and make a new object,
`DeriveNothing` for those that return the receiver. A log call goes from `Log` (level test, copy of the fields, promotion of the ids) to
`ProcessEntry` (filters, samplers and maskers under the read lock of the manager) to `Write`. A unified logger has no strategies.
Filters, samplers, maskers, the masker's switch and the access rules change in between. `LogWithSecurity` is copy, filter and audit (`FilterFieldsByAccess`),
`WithOnlyFields`, and the line (`Emit`). Of a value it is modelled who attached it and what it is to the maskers: plain, with a pattern both maskers know
(`card`), with one only the security masker knows (`national`), not a string, a struct, masked.

Abstracted: message, time, level names, spans, formatting, `SecureLogger`'s reports and counters.

## 3. Runs

| Run | Instance | Shows |
|---|---|---|
| `pipeline_safety` | 2 callers, 2 stoppers, {} to 2 workers, 3 policies with changes, batches of 2, queue of 2, 3 entries; 431 k states | `NoSendOnClosed`, `StopLeavesNothingBehind`, `SingleWorkerFIFO`, `StatsReconcile`, `KeepsPromise` |
| `pipeline_live` | 2 callers, 1 stopper, 0 or 1 worker, 3 entries; 194 k states | `StopTerminates`, `LogReturns`, `AcceptedIsResolved` |
| `pipeline_stranded` | 1 caller, 1 stopper | `NothingStranded` fails (finding 1) |
| `loki` | 1 writer, ticker, Close, batches of 1 or 2 with changes, cap of one batch, 1 retry, 3 entries; 74 k states | `NothingVanishes`, `HeldOnce`, `GrowsWithinCap`, `KeepsPromise`, `EventuallyPushed`, `CloseTerminates` |
| `sinks` | every chain; 1 writer, 1 worker, flusher, Close; queue of 1, buffer of 2, 2 backups of one entry, 3 entries of which one cannot be encoded, 1 switch of the toggle; 360 k states | `Accounted`, `CloseDrains`, `FilesInOrder`, `KeepsPromise`, `CloseReturns` |
| `op_runtime` | 2 goroutines, 1 request id, 3 operations, depth 3; 4.9 M states | `FinishedOnce`, `FailureNotHidden`, `PanicNeverSwallowed`, `NoneForgotten`, `PanicReported` |
| `obs_lifecycle` | 2 goroutines, 2 Inits, exporting and not, OTLP endpoint in the environment; 7.5 M states | `ShutDownOnce`, `NoneForgotten`, `DefaultServes`, `SpansLive`, `HandlerRebinds`, `PipelinesStopped` |
| `obs_instruments` | the same | `InstrumentsFollow` fails (finding 2) |
| `metrics` | 2 goroutines, 2 calls, 2 resets by 2 configurations, cap 1; 2 workers with 4 batches, largest delta 1; 4.3 M states | `CapHolds`, `OverflowOnlyWhenFull`, `LabelsOfOneInit`, `ScrapeConsistent`, `BreaksOnlyByReset`, `HookExact` |
| `metrics_nil` | the same | `FamilyReturned` fails (finding 3) |
| `loggers` | 2 goroutines, 2 strategy objects, 1 change of strategies or rules, 2 readers, an audit trail of one record; 4.4 M states | `LineIsolated`, `RawOnlyInIds`, `SecuredLineFiltered`, `PersonalDataAudited` |
| `loggers_shared` | 1 goroutine | `FieldsNotCleared` fails (finding 4) |

**Why these bounds are enough.** *Pipeline.* The queue holds one batch of two, so three entries overfill it,
make a full and a partial batch, and let DropOldest evict while the batch worker receives. Two callers are needed
for an eviction that finds the queue emptied, or filled again. Two workers are needed for reordering, none for
the inline path. *Loki.* The writer, the ticker and Close are three flushers, whose pushes overlap; a change of the batch size moves the cap under a full buffer.
*Sinks.* Three entries fill a buffer of two and a queue of one; with files of one entry and two backups they rotate twice and can use up every backup; an alert
makes two requests within the budget and one that exceeds it. *Operations.* Three operations make a parent with two steps, or three nested calls,
shared by two goroutines. *Obs.* Two Inits are one that is replaced and one that replaces it; two goroutines let them overlap, or let one Init overlap a Close, a
handler or an operation. *Metrics.* Two names compete for a cap of one; two calls of two goroutines meet one Init in every phase, and a second one that writes into the
array of the first. *Loggers.* One shared and one derived logger, one field that is an id and personal data, one that is secret; one change at every point of a line.

The code's factors (queue of four batches, two batches per worker, retry buffers of ten batches, 512 names, deltas of 1000, 10000 records) are
constants, small here so that the limits are reached. `MaxEntries`, `MaxOps`, `MaxDepth`, `MaxObs`, `MaxCalls`, `MaxResets`, `MaxFlushes`, `MaxLoggers`, `MaxChanges` and
`MaxToggles` bound otherwise unbounded counters. Goroutines of one kind are interchangeable, hence the symmetry in the safety runs; runs with liveness
use none. Type invariants are theorems instead of runs where a module has proofs.

**Fairness.** The Go scheduler runs every goroutine that can go on, so each goroutine's steps are
weakly fair. The batch worker's `select` chooses at random among ready cases; weak fairness of `BatchTick` and
`BatchQuit` says that a case that stays ready is chosen at some time (in `select` they stay enabled
until taken or until a flush; entries are bounded, so receives cannot defer them for ever). `TickerExit` (Loki) and `FlusherExit` (buffered sink)
are strongly fair: both cases of their select come round again and again, and the random choice
takes the stop channel at some time. So are `Put` and the steps of Close in `Sinks`, which wait for a mutex: Go's mutex is starvation-free.
`GateExpires` is fair because time passes. Sinks and requests end: sinks are assumed
to return from `Write`, and the HTTP clients of Loki and of the alerts have timeouts. Nobody is obliged to log, to change the policy, to close or to call Stop.
`EventuallyPushed` assumes in its premise that the ticker's requests do not fail for ever.

All runs check deadlock but those of `Metrics` and `Sinks`. The other models stop only in `Finished`, when every call has been made and has returned, or never.
`Metrics` stops when a concurrent map access ends the process, or when its calls are used up; `Sinks` when its entries are written and Close has returned. That
nobody waits for ever there is what `CloseReturns` says.

## 4. Findings and disagreements

1. **An accepted entry can be stranded by Stop** (`pipeline_stranded`). A caller tests `stopped` (`async.go:88`), is
   overtaken by `Stop`, whose batch worker drains the queue and leaves, and then sends: `WriteAsync` returns true, and
   nobody reads the queue again. The comment of `Stop` (`async.go:245-249`) and `CHANGELOG.md:199-200` promise otherwise.
2. **A second Init can leave operations recording to a dead provider** (`obs_instruments`). `configureMetrics`
   (`boeng.go:107`) drops the cached instruments before the new provider is installed; an operation in between caches instruments of
   the old one, which the same Init then shuts down. The comment (`metrics.go:139-142`) wants to prevent just that.
3. **A reset can make a recording operation panic** (`metrics_nil`). `labeledMetrics` (`metrics.go:185`) tests `labeledSet` under the read lock, lets go of it and returns the
   variable, which a second Init or MetricsHandler may have set to nil. The comment (`metrics.go:179-180`) says that it returns the family.
4. **A secured line takes fields away from the shared logger** (`loggers_shared`). `LogWithSecurity` calls `WithOnlyFields` (`otel_logger.go:143`), which
   replaces the strategy of the receiver. The test `TestSecurityLogWithSecurityDoesNotClearOriginalFields` (`security_clone_test.go:32`) says in its name that it does not.

Disagreements between code and text that the models contain, without a run of their own:

- The final flush of a Loki sink can be skipped: `Close` opens the gate "to let the final flush attempt go through immediately" (`loki.go:256`), and a failing push of
  the ticker closes it again before.
- The trim of the Loki buffer can drop a younger entry and keep an older one (`loki.go:198-202` says "dropping oldest"): batches of overlapping flushes are put back in
  the order of their failures.
- An exporting Init replaces the application's meter provider: `InstallMeterProvider` leaves it alone, but `NewOTelTelemetry` (`telemetry/otel.go:41`) sets both
  globals. `boeng/README.md:273-274`, `CHANGELOG.md:48` and `provider.go:305-308` say that boeng never does.
- A named asynchronous logger is synchronous, and its pipeline is never stopped: `F("service", ...)` (`boeng.go:160`) returns a synchronous clone, without `Stop`.
  `CHANGELOG.md:262-263` and `boeng.go:170-172` say that a second Init does not leak the pipeline. `PipelinesStopped` covers the loggers that have a `Stop`.
- statusWriter keeps the first code (`http.go:125`), also an informational one, and then misses a 5xx that it exists to see (`http.go:115-117`). `FailureNotHidden` leaves
  out requests whose recorded status is informational.
- `boeng/README.md:216-217` and `CHANGELOG.md:262` say that a second Init closes the previous instance first; the code publishes the new one and then closes
  the previous one, which `DefaultServes` relies on.

What else the models show, and no text contradicts:

- *Operations.* A `Goexit` in a handler is reported as success. `Emit` writes the key `event` into the caller's map, and panics if that map is nil (`run.go:155`).
- *Obs.* Overlapping Inits can adopt a provider of boeng's own, because it is installed before it is marked as owned (`provider.go:237-238`); `SpansLive` is stated for Inits that do
  not overlap. An error of the tracer provider's shutdown keeps the meter provider from being shut down (`provider.go:336-340`).
- *Metrics.* Two operations whose names differ in punctuation or case share a series; an operation and an event of one name share `<name>_total`. At the cap, a name that was registered
  between the two locks is reported as overflow once (`metrics.go:216-233`). During a second Init, static labels may be mixed, and the process may end (`metrics.go:343`).
- *Loggers.* Ids at the top of a line and the message never pass a masker. An id that is no string is neither promoted nor printed (`unified.go:221`). `LogWithSecurity` ignores its
  level. Of two overlapping calls of it, one reader may see the other's fields.
- *Sinks.* An entry that cannot be encoded stays in the buffer of the buffered sink, to be tried at every flush. Entries written after `Close` wait for a flush that never comes, or reopen the
  file. A toggle does not pass `Close` on. The alert budget is tested before a request and can be exceeded by one request (`alerts/common.go:54`).

## 5. Proofs

Every safety and action property that a passing run checks is a theorem. Seven modules prove them, one per component, with the lemmas of `SequenceLemmas`, for every value of the
constants that satisfies the named assumption of the component's module (`ConstantsAssumption`, `LokiAssumption`, `SinksAssumption`, `OpAssumption`, `LifecycleAssumption`,
`MetricsAssumption`, `LoggersAssumption`: sizes are positive, bounds natural numbers, names of goroutines distinct). They assume neither that the
sets of goroutines are finite, except for the pipeline's workers, nor any bound on entries, calls or depth.

**`AsyncPipelineProofs`** (`TypeCorrect`, `ShutdownCorrect`, `NeverSendsOnClosed`, `StopDrains`, `EntriesInOnePlace`, `Implements`, `StatsExplain`, `KeepsOrder`). `TypeOK` is inductive as it stands, because it includes the
bounds of the channels and that a batch that is not being flushed is not full. `NoSendOnClosed` and `StopLeavesNothingBehind` are not inductive: that the batch worker is
done when `batchChan` is closed follows from what the stopper in `batchWait` waited for, and that everything is empty when a
second stopper returns follows from what the first one saw. `LeaversInv` says what a goroutine that has left implies,
`StopInv` what the phase of the Once and of each stopper implies. The refinement of `LogDelivery` rests on `DeliveryInv`: where an entry can be (`PlacesInv`), that no two
places hold it (`OnceInv`, the reason why it is written at most once), that a drain leaves no entry behind that was accepted before `stopped` was set (`DrainInv`), and what
the counters count (`CountInv`). `OrderInv` is the inductive form of `SingleWorkerFIFO`: with at most one worker the entries move in a line from the worker's hand through `batchChan` and
the batch to the queue, and whatever is ahead there was accepted first.

**`LokiSinkProofs`** (`TypeCorrect`, `KeepsEntries`, `HoldsOnce`, `DuplicatesUnclear`, `StaysWithinCap`, `Implements`, `PromiseAccounts`). `IInv` is `TypeOK`, `Accounted`, `HeldOnce` and `Clear`.
`Accounted` is `NothingVanishes` entry by entry; taking a batch and putting it back keep it only because nothing is held twice, so the two go together. `Clear` adds
that an entry that is stored and still in a push had an unclear answer. The lemmas `Cut`, `Appended` and `Concatenated` of `SequenceLemmas` and `BufferSet` say what cutting, appending, joining and trimming
do to the elements and the injectivity of a sequence. `Implements` maps each step to one of `SinkDelivery` or to none: `Write` takes an entry and may give up older ones, a request stores a batch that
nothing else holds, a requeue gives up what it trims. `PromiseAccounts` is what the abstract specification implies. `StaysWithinCap` is an action property, shown for the two actions that let the buffer grow.

**`SinksProofs`** (`ChainCorrect`, `Accounts`, `ExplainsDuplicates`, `Drains`, `FilesOrdered`, `Implements`). `SinksInv` joins the types, `OnceInv` (queue, hands, buffer and the kept
entries are disjoint), `StoredInv` (`Accounted` and `DuplicatesExplained`, which only hold together with `OnceInv`), `MutexInv` (who flushes holds the mutex), `CloseInv` (how far Close
is, and who has left by then) and `LeftInv` (what a final flush can leave). `CloseDrains` is not inductive: that the workers are gone when Close has returned comes from what it waited
for long before. `FilesOrdered` needs `FileInv`: `FilesInOrder`, and the log file never holds more than fills a file, so that a rotation
moves full files only. `Rotate` is one function of the files before instead of a loop of renames, and `FiledRotate` shows where every entry is after it. `AtTheEnd` says what the file, alert and Loki sinks do alike, which
is all the invariants need; for the refinement (`Implements`), `LeafOutcomes` reduces each of their writes to one of four: stored, let go, not stored, stored with an error.

**`OpRuntimeProofs`** (`TypeCorrect`, `FinishesOnce`, `ForgetsNone`, `NeverSwallowsPanic`, `ReportsPanic`, `HidesNoFailure`). The question behind `FinishedOnce` is who has the *right* to finish an
operation: without a handle, the call that opened it; with one, the call that won its closed flag. `Held` says of each call on a stack what it holds and that whoever has the
right finds no report yet, `Sole` that no two calls have it, `Unheld` that what is open and in no call is unreported. `Ended` (what is closed has been finished, or is
being finished) gives `NoneForgotten`. `HidesNoFailure` needs where the error is: `Errs` (a step's error is in its parent before the step finishes), `Responses`
(what the middleware recorded against what the client got), `Known` (what is known to have failed has its error in the handle, or in the call that
finishes it) and `Waiting` (a command in flight has not failed).

**`ObsLifecycleProofs`** (`TypeCorrect`, `ShutsDownOnce`, `ForgetsNone`, `ServesDefault`, `StopsPipelines`, `Rebinds`, `SpansStayLive`). All rest on `Owned`: an Obs being built is not published, and one being closed is.
`OneShutdown` replaces the count in `ShutDownOnce` by the one goroutine between the closed flag and the shutdown. `ClosesForUser` makes `DefaultServes` inductive, `StopUnderWay` makes `PipelinesStopped` hold in the middle of
a Close as well, `MintLocked` says that whoever holds `metricsMu` mints from the global provider once a handler was served. `OwnSpans` says why no Obs adopts
another's tracer provider while Inits do not overlap: one goroutine builds at a time, and what is global is marked as owned, is the application's, or is about to be marked.

**`MetricsProofs`** (`CapsHold`, `CountsAll`, `BreaksByReset`, `ScrapesConsistent`, `LabelsAreOfOneInit`, `OverflowsOnlyWhenFull`, `TypeCorrect`). `Capped` adds that the registries are finite, so that their size counts. `Counted` is `HookExact` with types. `Touched` says for each place where a
reset bites that the goroutine there is marked. `Ledger` keeps the books of `ScrapeConsistent`: for every series, errors counted plus errors owed (by goroutines between
their total and their error) are at most the total, and likewise for panics. `LabelsOfOneInit` needs to know the array behind the static labels: `Requests` says
what `configureMetrics` works on and how far it is, `Arrays` that the array in use holds the first labels of it, `Looked` that what a call looked at is still there unless it was touched.
`OverflowsOnlyWhenFull` follows from `Records`: a call that goes to the shared series found its name missing and the registry full, and a registry that is full stays so until a reset.

**`LoggersProofs`** (`LoggersCorrect`, `LinesIsolated`, `MaskersMask`, `SecuredFiltered`, `SecuredAudited`). `LoggersInv` joins the types; `Derived` (what each strategy object
has, and that only the shared one may have lost fields), `Borrowed` (what `LogWithSecurity` took from it) and `Lines` (the parts of an entry on its way, field by field); `Covers` (a masker
that covers an entry is at work until the entry has passed) with `RawOnlyInIds`; `Alone` (a secured call that no other overlaps finds the shared logger as it set it); and `Audited` (how far from the end
of the trail the record of a call is).

**Only model-checked**: the liveness properties `StopTerminates`, `LogReturns`, `AcceptedIsResolved`, `EventuallyPushed`, `CloseTerminates` and `CloseReturns`. They rest on fairness, hence on ENABLED, which
the prover does not handle. The four runs that expect a violation are TLC's as well.

## 6. Not modelled

- Wording, formatting, JSON, reflection over the fields of subjects, password hashing, request validation, security reports, levels by name: data without control.
- ClickHouse (one synchronous request per entry, with a client without timeout), stdout, JSON and zerolog sinks: stateless forwarding.
- Types, interfaces, re-exports, option setters, the factory and the buffer pools; examples, benchmarks, compose files and scripts.
- Third-party exporters, HTTP frameworks, brokers, drivers and `lumberjack`: external. Trace headers of the adapters (the transport writes them into
  the caller's request, `Publish` into the caller's headers) and what rabbit's `Consume` makes of the handler's error.
- Data races on plain fields (`SetMetricsHook` after start, `ToggleSink.enabled`, `post` reading `retries`): each read gives the old or the new
  value. Where a race shows more than that, in the static labels, it is modelled.
- A sink whose `Write` never returns would block a worker, the batch worker and `Stop`; the code has no deadline for it.

## 7. What is left

The composition of the buffered sink with the whole of `LokiSink` instead of its errors: `SinkDelivery` is the interface, and both sides are shown to implement it. That the final
flush of a Loki sink may be skipped (`loki.go:257`) is described in section 4 and has no property. The liveness properties have no proof.
