---------------------------- MODULE ObsLifecycle ----------------------------
(***************************************************************************)
(* The life of an Obs: Init, Close and MetricsHandler of boeng/boeng.go,    *)
(* with the global providers of OpenTelemetry they share with the           *)
(* application (otel/provider.go, telemetry/otel.go) and the cache of       *)
(* instruments that is bound to one of them (boeng/metrics.go).             *)
(*                                                                         *)
(* Init takes its lock only to replace the default, so everything before    *)
(* that interleaves with other Inits, with operations that record metrics,  *)
(* with handlers, and with an application that installs its own providers.  *)
(*                                                                         *)
(* Obs o builds the tracer provider o and the meter provider o.  The        *)
(* process global is NoProvider until someone installs one.  One step is    *)
(* one access of a global (an atomic pointer, a locked section); resources, *)
(* exporters, sinks and labels are left out, and one entry stands for the   *)
(* caches of instruments, which are all filled and dropped alike.           *)
(***************************************************************************)
EXTENDS Naturals, FiniteSets

CONSTANTS
  Threads,       \* goroutines of the application
  MaxObs,        \* bound on the number of calls of Init
  Configs,       \* the configurations Init is called with
  Endpoint,      \* OTEL_EXPORTER_OTLP_ENDPOINT is set
  App,           \* the provider the application owns
  NoProvider,    \* OpenTelemetry's default, which is no SDK provider
  NoOne          \* no goroutine

ASSUME LifecycleAssumption ==
  /\ MaxObs \in Nat /\ Endpoint \in BOOLEAN
  /\ Configs \subseteq [explicit : BOOLEAN, service : BOOLEAN, env : BOOLEAN, async : BOOLEAN]
  /\ {App, NoProvider} \cap (0..MaxObs) = {} /\ App # NoProvider
  /\ NoOne \notin Threads

Obs == 1..MaxObs
NoObs == 0
Providers == Obs \cup {App, NoProvider}
NoInstrument == NoObs

Labels == {"idle",
           "look", "compare", "setTracer", "ownTracer", "telemetry", "telemetryMeter", "swap",
           "foreign", "claim", "setMeter", "ownMeter", "reset",
           "close", "shutdown", "mint"}

VARIABLES
  \* goroutines
  pc,             \* the next step of each
  ob,             \* the Obs it works on
  seen,           \* the global provider it read
  \* the Obs
  made,           \* how many Init began
  conf,           \* the configuration of each
  exports,        \* those that export
  tracer,         \* the provider each opens its spans on
  published,      \* those that became the default
  def,            \* the default
  closed,         \* the closed flags
  running,        \* those whose asynchronous pipeline runs
  shutdowns,      \* how often the provider of each was shut down
  pushing,        \* those whose meter provider pushes to the collector
  \* globals
  globalTracer, ownedTracer,
  globalMeter, ownedMeter,
  installed,      \* the meterInstalled flags
  cache,          \* the meter provider the cached instruments are bound to
  metricsMu,      \* who holds it to fill the cache
  \* history
  overlapped,     \* two Inits ran at the same time
  byUser,         \* Obs the application called Close on
  served          \* the global meter provider is what a MetricsHandler that returned installed

threadVars == <<pc, ob, seen>>
obsVars    == <<made, conf, exports, tracer, published, def>>
closeVars  == <<closed, running, shutdowns, pushing>>
tracerVars == <<globalTracer, ownedTracer>>
meterVars  == <<globalMeter, ownedMeter, installed, served>>
cacheVars  == <<cache, metricsMu>>
history    == <<overlapped, byUser>>
vars == <<threadVars, obsVars, closeVars, tracerVars, meterVars, cacheVars, history>>

NoConfig == [explicit |-> FALSE, service |-> FALSE, env |-> FALSE, async |-> FALSE]

Init ==
  /\ pc = [t \in Threads |-> "idle"] /\ ob = [t \in Threads |-> NoObs]
  /\ seen = [t \in Threads |-> NoProvider]
  /\ made = 0 /\ conf = [o \in Obs |-> NoConfig] /\ exports = {}
  /\ tracer = [o \in Obs |-> NoProvider] /\ published = {} /\ def = NoObs
  /\ closed = {} /\ running = {} /\ shutdowns = [o \in Obs |-> 0] /\ pushing = {}
  /\ globalTracer = NoProvider /\ ownedTracer = NoProvider
  /\ globalMeter = NoProvider /\ ownedMeter = NoProvider /\ installed = {} /\ served = FALSE
  /\ cache = NoInstrument /\ metricsMu = NoOne
  /\ overlapped = FALSE /\ byUser = {}

At(t, label) == pc[t] = label
Goto(t, label) == pc' = [pc EXCEPT ![t] = label]
Forget(t) == seen' = [seen EXCEPT ![t] = NoProvider]
Return(t) ==
  /\ Goto(t, "idle")
  /\ ob' = [ob EXCEPT ![t] = NoObs]
  /\ Forget(t)

\* A goroutine is building an Obs in Init until it publishes it.
Building(t) == ob[t] # NoObs /\ ob[t] \notin published

\* Mutant: any SDK provider counts as the application's.
ForeignAny(global, owned) == global # NoProvider

\* An SDK provider that is not the one boeng remembers as its own.
Foreign(global, owned) == global # NoProvider /\ global # owned

----------------------------------------------------------------------------
(* Init, up to the publication of the Obs.                                  *)

\* Init: configureMetrics drops the cached instruments.
Start(t, c) ==
  /\ At(t, "idle") /\ made < MaxObs /\ metricsMu = NoOne
  /\ made' = made + 1
  /\ conf' = [conf EXCEPT ![made'] = c]
  /\ cache' = NoInstrument
  /\ ob' = [ob EXCEPT ![t] = made']
  /\ Goto(t, "look")
  /\ overlapped' = (overlapped \/ \E u \in Threads : Building(u))
  /\ UNCHANGED <<seen, exports, tracer, published, def, closeVars, tracerVars,
                 meterVars, metricsMu, byUser>>

\* AdoptableGlobalTracerProvider reads the global, then what boeng owns.
Look(t) ==
  /\ At(t, "look")
  /\ seen' = [seen EXCEPT ![t] = globalTracer]
  /\ Goto(t, "compare")
  /\ UNCHANGED <<ob, obsVars, closeVars, tracerVars, meterVars, cacheVars, history>>

Adoptable(t) == Foreign(seen[t], ownedTracer)

\* exportViaBoeng
ExportVia(t) ==
  /\ conf[ob[t]].service
  /\ conf[ob[t]].explicit \/ (~Adoptable(t) /\ Endpoint)

\* The provider exports if that was asked for and the exporters could be built; otherwise it
\* adopts what the application installed, or is one that does not export.
Decide(t) ==
  /\ At(t, "compare")
  /\ \/ /\ ExportVia(t)
        /\ exports' = exports \cup {ob[t]}
        /\ Goto(t, "setTracer")
        /\ pushing' = pushing \cup {ob[t]}
        /\ UNCHANGED tracer
     \/ /\ Adoptable(t)
        /\ tracer' = [tracer EXCEPT ![ob[t]] = seen[t]]
        /\ Goto(t, "swap")
        /\ UNCHANGED <<exports, pushing>>
     \/ /\ ~Adoptable(t)
        /\ Goto(t, "setTracer")
        /\ UNCHANGED <<exports, tracer, pushing>>
  /\ Forget(t)
  /\ UNCHANGED <<ob, made, conf, published, def, closed, running, shutdowns,
                 tracerVars, meterVars, cacheVars, history>>

\* newProvider without a provider to adopt.
SetTracer(t) ==
  /\ At(t, "setTracer")
  /\ globalTracer' = ob[t]
  /\ tracer' = [tracer EXCEPT ![ob[t]] = ob[t]]
  /\ Goto(t, "ownTracer")
  /\ UNCHANGED <<ob, seen, made, conf, exports, published, def, closeVars, ownedTracer,
                 meterVars, cacheVars, history>>

OwnTracer(t) ==
  /\ At(t, "ownTracer")
  /\ ownedTracer' = ob[t]
  /\ Goto(t, IF ob[t] \in exports THEN "foreign" ELSE "swap")
  /\ UNCHANGED <<ob, seen, obsVars, closeVars, globalTracer, meterVars, cacheVars,
                 history>>

\* NewOTelTelemetry installs both providers whatever is there.
Telemetry(t) ==
  /\ At(t, "telemetry")
  /\ globalTracer' = ob[t]
  /\ Goto(t, "telemetryMeter")
  /\ UNCHANGED <<ob, seen, obsVars, closeVars, ownedTracer, meterVars, cacheVars,
                 history>>

TelemetryMeter(t) ==
  /\ At(t, "telemetryMeter")
  /\ globalMeter' = ob[t]
  /\ served' = FALSE
  /\ Goto(t, "swap")
  /\ UNCHANGED <<ob, seen, obsVars, closeVars, tracerVars, ownedMeter, installed,
                 cacheVars, history>>

\* The logger has a pipeline if the Obs exports or is asynchronous.  With a service or an
\* environment to add, an asynchronous logger is replaced by its synchronous clone, which
\* has no Stop.
HasPipeline(o) == o \in exports \/ conf[o].async
HasStop(o) == o \in exports \/ (conf[o].async /\ ~conf[o].service /\ ~conf[o].env)

\* Mutants: Init closes what the default is after the swap, or only an Obs with a
\* pipeline.
SwapReadsLate(t) ==
  /\ At(t, "swap")
  /\ def' = ob[t]
  /\ published' = published \cup {ob[t]}
  /\ running' = IF HasPipeline(ob[t]) THEN running \cup {ob[t]} ELSE running
  /\ IF def = NoObs THEN Return(t) ELSE Goto(t, "close") /\ UNCHANGED <<ob, seen>>
  /\ UNCHANGED <<made, conf, exports, tracer, closed, shutdowns, pushing, tracerVars,
                 meterVars, cacheVars, history>>
SwapLeaks(t) ==
  /\ At(t, "swap")
  /\ def' = ob[t]
  /\ published' = published \cup {ob[t]}
  /\ running' = IF HasPipeline(ob[t]) THEN running \cup {ob[t]} ELSE running
  /\ IF def = NoObs \/ ~HasPipeline(def)
     THEN Return(t)
     ELSE Goto(t, "close") /\ ob' = [ob EXCEPT ![t] = def] /\ UNCHANGED seen
  /\ UNCHANGED <<made, conf, exports, tracer, closed, shutdowns, pushing, tracerVars,
                 meterVars, cacheVars, history>>

\* The Obs becomes the default; the one it replaces is closed next.
Swap(t) ==
  /\ At(t, "swap")
  /\ def' = ob[t]
  /\ published' = published \cup {ob[t]}
  /\ running' = IF HasPipeline(ob[t]) THEN running \cup {ob[t]} ELSE running
  /\ IF def = NoObs
     THEN Return(t)
     ELSE Goto(t, "close") /\ ob' = [ob EXCEPT ![t] = def] /\ UNCHANGED seen
  /\ UNCHANGED <<made, conf, exports, tracer, closed, shutdowns, pushing, tracerVars,
                 meterVars, cacheVars, history>>

----------------------------------------------------------------------------
(* Close.                                                                   *)

CloseCall(t, o) ==
  /\ At(t, "idle") /\ o \in published
  /\ ob' = [ob EXCEPT ![t] = o]
  /\ byUser' = byUser \cup {o}
  /\ Goto(t, "close")
  /\ UNCHANGED <<seen, obsVars, closeVars, tracerVars, meterVars, cacheVars,
                 overlapped>>

\* Mutant: Close does not test the flag it sets.
CloseTwice(t) ==
  /\ At(t, "close")
  /\ closed' = closed \cup {ob[t]} /\ Goto(t, "shutdown")
  /\ UNCHANGED <<ob, seen, obsVars, running, shutdowns, pushing, tracerVars, meterVars,
                 cacheVars, history>>

CloseFlag(t) ==
  /\ At(t, "close")
  /\ IF ob[t] \in closed
     THEN Return(t) /\ UNCHANGED closed
     ELSE closed' = closed \cup {ob[t]} /\ Goto(t, "shutdown") /\ UNCHANGED <<ob, seen>>
  /\ UNCHANGED <<obsVars, running, shutdowns, pushing, tracerVars, meterVars,
                 cacheVars, history>>

\* Mutant: the provider is shut down first, and an error of it is returned at once.
ShutdownReturns(t) ==
  /\ At(t, "shutdown")
  /\ shutdowns' = [shutdowns EXCEPT ![ob[t]] = @ + 1]
  /\ \/ /\ running' = IF HasStop(ob[t]) THEN running \ {ob[t]} ELSE running
        /\ pushing' = pushing \ {ob[t]}
     \/ ob[t] \in exports /\ tracer[ob[t]] = ob[t] /\ UNCHANGED <<running, pushing>>
  /\ Return(t)
  /\ UNCHANGED <<obsVars, closed, tracerVars, meterVars, cacheVars, history>>

\* The pipeline is stopped, then the provider.  An error of the tracer provider, which only an
\* exporter can cause, keeps the meter provider from being shut down.
Shutdown(t) ==
  /\ At(t, "shutdown")
  /\ running' = IF HasStop(ob[t]) THEN running \ {ob[t]} ELSE running
  /\ shutdowns' = [shutdowns EXCEPT ![ob[t]] = @ + 1]
  /\ \/ pushing' = pushing \ {ob[t]}
     \/ ob[t] \in exports /\ tracer[ob[t]] = ob[t] /\ UNCHANGED pushing
  /\ Return(t)
  /\ UNCHANGED <<obsVars, closed, tracerVars, meterVars, cacheVars, history>>

----------------------------------------------------------------------------
(* The global meter provider: InstallMeterProvider, called by MetricsHandler *)
(* and by an Init that exports.                                             *)

Handler(t, o) ==
  /\ At(t, "idle") /\ o \in published
  /\ ob' = [ob EXCEPT ![t] = o]
  /\ Goto(t, "foreign")
  /\ UNCHANGED <<seen, obsVars, closeVars, tracerVars, meterVars, cacheVars, history>>

\* Where InstallMeterProvider returns to when it installed nothing.
NotInstalled(t) ==
  IF Building(t) THEN Goto(t, "telemetry") /\ Forget(t) /\ UNCHANGED ob ELSE Return(t)

\* ForeignMeterProviderInstalled reads the global, then what boeng owns.
LookMeter(t) ==
  /\ At(t, "foreign")
  /\ seen' = [seen EXCEPT ![t] = globalMeter]
  /\ Goto(t, "claim")
  /\ UNCHANGED <<ob, obsVars, closeVars, tracerVars, meterVars, cacheVars, history>>

Claim(t) ==
  /\ At(t, "claim")
  /\ IF Foreign(seen[t], ownedMeter) \/ ob[t] \in installed
     THEN NotInstalled(t) /\ UNCHANGED installed
     ELSE installed' = installed \cup {ob[t]} /\ Goto(t, "setMeter") /\ Forget(t) /\ UNCHANGED ob
  /\ UNCHANGED <<obsVars, closeVars, tracerVars, globalMeter, ownedMeter, served,
                 cacheVars, history>>

SetMeter(t) ==
  /\ At(t, "setMeter")
  /\ globalMeter' = ob[t]
  /\ served' = FALSE
  /\ Goto(t, "ownMeter")
  /\ UNCHANGED <<ob, seen, obsVars, closeVars, tracerVars, ownedMeter, installed,
                 cacheVars, history>>

OwnMeter(t) ==
  /\ At(t, "ownMeter")
  /\ ownedMeter' = ob[t]
  /\ Goto(t, IF Building(t) THEN "telemetry" ELSE "reset")
  /\ UNCHANGED <<ob, seen, obsVars, closeVars, tracerVars, globalMeter, installed,
                 served, cacheVars, history>>

\* MetricsHandler drops the instruments minted before the install.
Reset(t) ==
  /\ At(t, "reset") /\ metricsMu = NoOne
  /\ cache' = NoInstrument
  /\ served' = (globalMeter = ob[t])
  /\ Return(t)
  /\ UNCHANGED <<obsVars, closeVars, tracerVars, globalMeter, ownedMeter, installed,
                 metricsMu, history>>

----------------------------------------------------------------------------
(* Operations, and the application.                                         *)

\* Mutant: the instrument is created before the lock is taken.
MintUnlocked(t) ==
  /\ At(t, "idle") /\ cache = NoInstrument
  /\ seen' = [seen EXCEPT ![t] = globalMeter]
  /\ Goto(t, "mint")
  /\ UNCHANGED <<ob, obsVars, closeVars, tracerVars, meterVars, cacheVars, history>>

\* opMetricsFor without a cached instrument: the global is read and the instrument cached in
\* one locked section.
Mint(t) ==
  /\ At(t, "idle") /\ cache = NoInstrument /\ metricsMu = NoOne
  /\ metricsMu' = t
  /\ seen' = [seen EXCEPT ![t] = globalMeter]
  /\ Goto(t, "mint")
  /\ UNCHANGED <<ob, obsVars, closeVars, tracerVars, meterVars, cache, history>>

Minted(t) ==
  /\ At(t, "mint")
  /\ cache' = seen[t]
  /\ metricsMu' = NoOne
  /\ Return(t)
  /\ UNCHANGED <<obsVars, closeVars, tracerVars, meterVars, history>>

\* The application installs its own providers.
AppTracer ==
  /\ globalTracer # App
  /\ globalTracer' = App
  /\ UNCHANGED <<threadVars, obsVars, closeVars, ownedTracer, meterVars, cacheVars,
                 history>>

AppMeter ==
  /\ globalMeter # App
  /\ globalMeter' = App
  /\ served' = FALSE
  /\ UNCHANGED <<threadVars, obsVars, closeVars, tracerVars, ownedMeter, installed,
                 cacheVars, history>>

InitStep(t) ==
  \/ \E c \in Configs : Start(t, c)
  \/ Look(t) \/ Decide(t) \/ SetTracer(t) \/ OwnTracer(t)
  \/ Telemetry(t) \/ TelemetryMeter(t) \/ Swap(t)
CloseStep(t) ==
  \/ \E o \in Obs : CloseCall(t, o)
  \/ CloseFlag(t) \/ Shutdown(t)
MeterStep(t) ==
  \/ \E o \in Obs : Handler(t, o)
  \/ LookMeter(t) \/ Claim(t) \/ SetMeter(t) \/ OwnMeter(t) \/ Reset(t)

Next ==
  \/ \E t \in Threads : InitStep(t) \/ CloseStep(t) \/ MeterStep(t) \/ Mint(t) \/ Minted(t)
  \/ AppTracer \/ AppMeter

Spec == Init /\ [][Next]_vars
----------------------------------------------------------------------------
(* Properties.                                                              *)

Flags == served \in BOOLEAN /\ overlapped \in BOOLEAN

\* A goroutine works on an Obs exactly while it is in Init, Close or MetricsHandler.
Working == \A t \in Threads : ob[t] = NoObs <=> pc[t] \in {"idle", "mint"}

\* Every variable has its type.
TypeOK ==
  /\ Flags /\ Working
  /\ pc \in [Threads -> Labels] /\ ob \in [Threads -> Obs \cup {NoObs}]
  /\ seen \in [Threads -> Providers]
  /\ made \in 0..MaxObs /\ conf \in [Obs -> Configs \cup {NoConfig}] /\ exports \subseteq Obs
  /\ tracer \in [Obs -> Providers] /\ published \subseteq Obs /\ def \in Obs \cup {NoObs}
  /\ closed \subseteq Obs /\ running \subseteq Obs /\ pushing \subseteq Obs
  /\ shutdowns \in [Obs -> Nat]
  /\ globalTracer \in Providers /\ ownedTracer \in Obs \cup {NoProvider}
  /\ globalMeter \in Providers /\ ownedMeter \in Obs \cup {NoProvider}
  /\ installed \subseteq Obs
  /\ cache \in Providers \cup {NoInstrument} /\ metricsMu \in Threads \cup {NoOne}
  /\ byUser \subseteq Obs

\* Goroutines that won the right to close an Obs and have not shut its provider down yet.
Closing(o) == {t \in Threads : ob[t] = o /\ At(t, "shutdown")}

\* Close does its work once: however many goroutines call it, and Init calls it too, the
\* provider of an Obs is shut down by exactly one of them (boeng.go:180-190).
ShutDownOnce ==
  \A o \in Obs : shutdowns[o] + Cardinality(Closing(o)) = IF o \in closed THEN 1 ELSE 0

\* However Inits overlap, an Obs that was the default and is not any more is closed, or the
\* Init that replaced it is about to close it: nothing leaks (boeng.go:166-176).
NoneForgotten ==
  \A o \in published \ {def} : o \in closed \/ \E t \in Threads : At(t, "close") /\ ob[t] = o

\* No Init closes the default: what the package functions find is open unless the application
\* closed it (boeng.go:166-176).
DefaultServes == def \in closed => def \in byUser

\* As long as Inits do not overlap, an Obs that is open has a tracer provider that is open:
\* boeng does not adopt a provider of its own, which goes away with the Obs that built it
\* (provider.go:47-50).
SpansLive ==
  ~overlapped =>
    \A o \in published \ closed : tracer[o] \in Obs => shutdowns[tracer[o]] = 0

\* Once MetricsHandler has returned with its provider installed, no operation records through
\* an instrument of an earlier provider, not even one that was minting it during the install
\* (boeng.go:232-236).
HandlerRebinds == served => cache \in {NoInstrument, globalMeter}

\* No call of Init, Close or MetricsHandler is under way, nor the minting of an instrument.
Quiet == \A t \in Threads : At(t, "idle")

\* A second Init leaves no operation writing to the previous provider, which is shut down
\* (metrics.go:139-142), where Inits do not overlap and each one that exports, and nobody else,
\* installed its provider.  It fails: the cache is dropped before the provider is installed.
InstrumentsFollow ==
  Quiet /\ ~overlapped /\ installed = exports /\ globalMeter = def /\ def \notin closed =>
    (cache \in Obs => shutdowns[cache] = 0)

\* Whatever becomes of the providers, the pipeline of a closed Obs is stopped, if its logger
\* has a Stop (boeng.go:170-173).  The clone that adds a service or an environment to an
\* asynchronous logger has none, and its pipeline runs on.
PipelinesStopped == Quiet => \A o \in running \cap closed : ~HasStop(o)
=============================================================================
