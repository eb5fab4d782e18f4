# A formal model of tel

`tel` is a Go library that gives a service its telemetry: an OpenTelemetry
meter and tracer provider with OTLP exporters, an allocation-free layer of
instruments with interned label sets, a cardinality detector, a monitor HTTP
server, structured logging with a rate limit, and a fasthttp middleware. These
modules model the parts of it whose correctness depends on interleavings,
failures and restarts. TLC checks them on small instances, and TLAPS proves every
safety property of the runs for every instance.

All paths below are relative to `src/`.

## 1. Inventory

| Component | State | Operations | Interacts with |
| --- | --- | --- | --- |
| Lifecycle (`tel.go`, `NewWithProviders` in `trace.go`) | `started`, `epoch`, the providers, shutdown functions, `registry`, `cardinality`, `monitor`, `traceInstalled`, under `t.mu` | `New`, `NewWithProviders`, `Start`, `Shutdown`, rollback, `AllowSubjects`, `Registry`, `CardinalityStats` | builds and releases everything below; installs the process-wide tracer provider |
| Providers and exporters (`provider.go`, `trace_provider.go`, `otlp_dial.go`, `compression.go`) | one metric and one trace pipeline per generation | create, shut down (provider, then exporter) | called by the lifecycle |
| Monitor server (`monitor.go`) | a listener, a goroutine in `Serve`, a goroutine per request | `start`, `shutdown`, `/healthz`, `/stats`, recovery of a panicking handler | reads the lifecycle through `CardinalityStats` |
| Cardinality detector (`cardinality.go`) | `records`, `overflows`, `denied`, `stopCh`, `doneCh` | `Start`, `Stop`, `ObserveMiss`, `ObserveDenied`, `Snapshot`, periodic report | told by the attribute cache, asked by the monitor |
| Attribute cache (`metric.go`) | 16 shards of three maps with an RWMutex each, an atomic `size`, the allow list, the set of denied strings | `lookup`, `lookup2`, `lookup3`, `Allow`, `Subjects`, `Len` | called by every instrument |
| Instruments (`instruments.go`) | three maps of instruments per registry; an epoch per instrument | `Counter`, `Histogram`, `Gauge`, `Add*`, `Record*`, `Timer` | check `t.epoch`, use the cache, call the SDK's meter |
| Log rate sampler (`log_sampler.go`) | a window's end and a count for every level and globally | `Sample` | called by zerolog for every event |
| Trace sampler (`sampler.go`) | none | `ShouldSample`, the parser of its configuration | called by the SDK for every span |
| Spans and propagation (`trace.go`) | the span in a context | `StartSpan`, `EndSpan`, `Inject`, `Extract` | uses the lifecycle's tracer |
| Middleware (`middleware/fasthttp`) | one request | `Server`, `Recover` | spans, logging |
| Logging (`zlog.go`, `zlog_fields.go`, `ctx_fields.go`) | the process logger, zerolog's default logger, the global level, fields in a context | `ConfigureLogger`, `SetLogger`, `Ctx`, `WithFields`, `TraceFunc`, `Fatal` | used everywhere |
| Configuration (`config_env.go`, `config_env_gen.go`, `model.go`, `defaults.go`) | the variables of the process, a snapshot of them, the global Telemetry | `GetConfigFromEnv`, `Init`, `InitWithConfig`, `ReloadConfig` | configures the logger, then creates and starts the Telemetry |

What is hard about them, and what makes each correct:

- **Lifecycle.** `Start` builds everything outside the lock and commits under it;
  two Starts race, one rolls back; `Shutdown` takes the generation under the lock
  and releases it outside. Any step can fail. Correct means: nothing leaks, nothing
  is released twice, the running generation is whole, the process-wide provider
  is reset by whoever installed it, every call returns.
- **Attribute cache.** Double-checked insertion under sixteen locks with one
  shared size, taken by compare-and-swap. Correct means: the size is exact, the limit
  holds, a label set never moves between the overflow series and its own, the
  counters say what happened, and the answers are those of a sequential cache.
- **Instruments.** The same pattern for creation, and the epoch that must keep an
  old instrument from recording into a provider that is gone.
- **Allow list.** Labels are kept in two places, by the Telemetry and by the running
  cache, and reach them in different critical sections.
- **Rate sampler.** Two atomics that are updated together without a lock, and a
  wall clock that can be set back.
- **Monitor.** `Shutdown` waits for requests that wait for `t.mu`. Correct means:
  neither waits for ever, an answer is about one generation, and none is left
  running.
- **Middleware, spans and logging.** A request outlives the provider and the logger
  it began under, and a handler may panic. Correct means: spans end with the
  outcome of the request, a failure is reported once, lines carry the right ids and
  go to the logger of now, traces are kept or dropped whole.
- **Start-up.** The environment is read twice, once through a snapshot; a `.env` file
  and `os.Setenv` change it; the logger is stored in two places in four steps. Correct
  means: a configuration means an environment that was there while it was read, and
  the logger and the Telemetry are those of one call.

`PROJECT.json` lists every hazard with its source line and the properties that
cover it.

## 2. Modules

| Module | Models | Abstract specification |
| --- | --- | --- |
| `Lifecycle` | `New`, `NewWithProviders`, `Start`, `rollbackStart`, `Shutdown` in `tel.go` and `trace.go` with `provider.go`, `trace_provider.go`, `otlp_dial.go`, the start and stop of `monitor.go` and `cardinality.go` | `Generations`, through `LifecycleRefinement` |
| `LifecycleProofs` | proofs about `Lifecycle` and `Monitor`, and of the refinement of `Generations` | |
| `Monitor` | the requests of `monitor.go`, `CardinalityStats`; composes with `Lifecycle` | `Generations`, through `LifecycleRefinement` |
| `AttrCache` | `lookup*`, `entry*`, `reserveSlot`, `isAllowed`, `noteDenied`, `Subjects` in `metric.go`; `newCardinalityDetector`, `ObserveMiss`, `ObserveDenied`, `Snapshot`, `report` in `cardinality.go` | `Interner` |
| `AttrCacheProofs` | proofs about `AttrCache`, and of the refinement of `Interner` | |
| `Instruments` | `getOrCreate`, the three constructors, `instrumentLive` and all `Add*` and `Record*` methods and `Timer` in `instruments.go` | |
| `InstrumentsProofs` | proofs about `Instruments` | |
| `AllowList` | `AllowSubjects` and the label copy of `Start` in `tel.go`, `Allow` in `metric.go` | |
| `AllowListProofs` | proofs about `AllowList` | |
| `RateSampler` | `NewRateSampler` with the parser of its limits, `Sample`, `inc` in `log_sampler.go` | |
| `RateSamplerProofs` | that windows end, and what they let past | |
| `ProcessLogger` | `ConfigureLogger`, `InitLogger`, `applyLoggerFromConfig`, `SetLogger` in `zlog.go` | |
| `ProcessLoggerProofs` | that the two loggers agree | |
| `Spans` | `sampler.go`: its parser and its decisions; what a tracer does when it starts a span | |
| `Requests` | `Server` and `Recover` in `middleware/fasthttp`, `StartSpan`, `EndSpan`, `Extract` in `trace.go`, `TraceFunc`, `WithFields`, `Ctx`; extends `ProcessLogger` and `Spans` | |
| `RequestsProofs` | that spans are settled, failures reported once, traces whole, and lines correlated and written to the logger of now; extends `ProcessLoggerProofs` | |
| `Environment` | the configuration as a function of the environment: `loadConfig` in `config_env_gen.go`, `applyNestedEnv`, `resolvePod` in `config_env.go`, `DefaultConfig` | `Meaning`, a definition field by field |
| `Startup` | `Init`, `InitWithConfig`, `GetConfigFromEnv`, `ReloadConfig`, `Fatal`; extends `ProcessLogger` and `Environment` | `ProcessLogger`, by proof |
| `StartupProofs` | that `Startup` implements `ProcessLogger`, what one call installs, and what a configuration means | |
| `MC*` | constants and symmetry for TLC | |

### Lifecycle

A *generation* is what one `Start` builds: it bears the Start's name, and `gen[s]`
holds the state of its metric and trace pipelines, listener and detector. `holder`
is the generation whose parts are in the fields of `Telemetry`, which `Start` fills
and `Shutdown` empties in one critical section each, together with `started`,
`epoch` and the registry. `globalTP` is OpenTelemetry's process-wide tracer
provider: a generation, the application's own (`Foreign`) or none. A Telemetry made by
`NewWithProviders` is a second initial state: it is started, with the providers it
was given and nothing else, so a `Start` does nothing and a `Shutdown` takes it like
any other. A call is at a
point `pc`; each point is one access to shared state, so TLC interleaves the calls
where goroutines can be interleaved. A `Start` goes through `init`, `built`,
`commit` and `activate`; it can fail at the exporters (`InitFails`) or at the
listener (`ListenFails`), or lose the race (`LoseRace`), and then rolls back step
by step. A `Shutdown` takes the generation, stops the detector and waits for
it, and shuts the metric pipeline, the trace pipeline and the monitor down and
resets the process-wide provider, going on after an error. The detector's
goroutine and the monitor's `Serve` goroutine are processes: `Serve` may run after
the server has been told to shut down. A Telemetry that traces resets the process-wide
provider without looking whose it is (`tel.go:387`), the application's as well:
`ForeignKept` is about the Telemetrys that do not trace.

`Generations` says what that amounts to: at most one generation is live, one that is
gone has nothing open and never comes back, and one that drains is gone in the
end. `LifecycleRefinement` maps a Start's and a Shutdown's points to its phases.

### Monitor

A request is accepted by a serving listener, then answers by itself (`/healthz`) or
reads `m.tel` and, under `t.mu`, the detector and the registry (`/stats`); `det` and
`reg` say of which generation they were. Every step of a call is `Lifecycle`'s own,
and `http.Server.Shutdown` is held back until its server has no active request or
the context ends. A handler may panic at any point and is answered.

### AttrCache

An entry is determined by its key, so the maps of all shards are one set of keys,
and a key is a sequence of one to three labels: the arity tells the three maps
apart, so `entry`, `entry2` and `entry3` are one action each step. The hash is a
constant function into the shards. The lookup's steps are those between which
another goroutine can run: the read under `RLock`, the lock, the second look, the
load of `size`, the compare-and-swap, each counter and the insertion. `Snapshot`
reads the size, the shards and the counters step by step; `Report` is a tick of the
detector, with its percentage clamped as the constructor does it. `Interner` is the same
cache without concurrency: every lookup is answered at one instant.

### Instruments

`Start`'s commit and `Shutdown`'s beginning replace the registry and raise the
epoch together (in `Lifecycle`, `EpochFences`), so a registry is named by its
epoch and `Restart` is one step. A user fetches the registry, asks it for an
instrument and keeps it, then records as often as it likes; the check of the epoch,
the lookup of the labels and the call of the SDK are separate steps. Counters,
histograms and gauges differ in the value only; a histogram may also record through a
`Timer`, which looks at the epoch when it stops and not when it starts.

### AllowList

With `DenyUnknown` on. `AllowSubjects` appends to `allowedLabels` and picks the
current cache in one critical section, and then calls `Allow`, which loads the list
and stores a larger copy. `Start` copies `allowedLabels` into a private cache and
publishes the cache at its commit.

### RateSampler

Every atomic operation of `inc` is a step, and so is the look at the clock. Time is
a number, `Tick` its second, and `SetBack` takes it back; `back` remembers by how
much in all. The limits are parsed from the parts of the configured list, some of
which do not parse. `admitted` is a history variable: the
messages let past a counter since its window was opened.

### ProcessLogger

A logger is who built it and whose service fields were attached to it. `proc` is the
atomic pointer and `dflt` zerolog's `DefaultContextLogger`; `ConfigureLogger` stores
both twice, first the bare logger and then, loaded again, the one with the fields.
`newest` and `overlap` are history: the last call to begin, and whether it began while
another was under way. Calls that race may leave the two pointers different and the
fields of one call on the logger of the other, which the code allows. `LoggersAgree`
says what they may not leave, a logger that is not complete, and that a later call
which runs alone puts everything right.

### Spans and Requests

`Spans` has the sampler as operators: the parser, the SDK's ratio and parent-based
rules and `statusTraceIDRatioSampler` on top of them. A trace id counts by the tenth
of the id space it falls into. `Requests` takes a request through
`Recover(Server(handler))`: `Extract` (if a propagator is installed), the read of the
tracer under the lock and its use afterwards, the handler, which may log, add fields,
call `TraceFunc` or start a span of its own, answer or panic, then the end of the span
and the completion line. `Start`, `Shutdown`, `SetGlobal` and the steps of
`ProcessLogger` run at any moment in between. `line` is the line the last step
handed to a logger.

### Environment and Startup

A variable is unset, empty, readable or garbled, and a field of the configuration
holds its variable or a default. `LoadConfig` reads the snapshot and reports what it
cannot read, `ApplyNestedEnv` reads the process and falls back. `Startup` runs
concurrent calls through `.env`, the snapshot, both readers, `ConfigureLogger` in
the steps of `ProcessLogger`, `SetGlobal` and `Start`, which here succeeds or fails;
`Fatal` ends the process or, with another exit function, lets the call go on. `found` is
history: the environments the process had from the moment a call had loaded `.env` to
the end of its `LoadNested`. That is one, unless the application sets a variable
meanwhile; a configuration may then be of two, field by field, and of none but those
(`ConfigMeansEnvironment`). What `applyNestedEnv` reads it reads in one step, which no
field can tell but the pod's name: it depends on `POD_NAME` and then `HOSTNAME`, and with
both set between the two reads it could be the host's. `ReloadConfig`'s reload and
snapshot are one step too, which stands at the last reload before the snapshot.
`mixed` is to `Init` what `overlap` is to the logger: which of two racing calls has the
logger and which the global Telemetry is open, and `InitInstallsBoth` speaks of a
call that did not run into another, whatever those before it left.

## 3. Runs

| Run | Instance | Shows |
| --- | --- | --- |
| `lifecycle_safety` | 3 Starts, 2 Shutdowns, 4 configurations, every failure | `NoOrphan`, `SoleOwner`, `RunningIntact`, `NoStickyGlobal`, `ShutdownComplete`, `ForeignKept`, `EpochFences` |
| `lifecycle_live` | 2 and 2, 1 request, 3 configurations (module `MCMonitor`) | a response is about one generation (`StatsOfOneGeneration`), no request outlives its monitor (`QuietAfterShutdown`), each is answered (`RequestsAnswered`); every call returns (`CallsReturn`); the address is freed in the end (`AddressFreed`); `Lifecycle` with requests implements `Generations`, fairness included |
| `attrcache` | 3 lookups, 1 Snapshot, 3 keys, 2 shards, 2 entries | `SizeIsExact`, `OverflowIsFinal`, `CountersAgree`, `SnapshotCounted`, `WarningsHold`; `AttrCache` implements `Interner`; every call ends (`CacheCallsReturn`) |
| `instruments` | 2 users, 3 instruments of which 2 fit, 1 restart | `InstrumentsBounded`, `NoOrphanInstrument`, `RecordsWhereBegun`; asking for an instrument ends (`GetReturns`) |
| `allowlist` | 3 calls, 2 Starts, labels a, b and "" | an undisturbed call holds for every later cache (`QuietCallsHold`) |
| `ratesampler` | 2 loggers, 4 messages each, limits 2 and 3, 3 instants, 1 step back | what a window lets past at most: the limit for every logger, and with a clock that was set back twice the limit less one for every logger but one, on top of the limit (`WindowBounded`); windows end, at the latest by what the clock was set back (`WindowsEnd`) |
| `requests` | 1 request, 1 reconfiguration of the logger, 3 samplers | `SpansSettled`, `FailureReportedOnce`, `LinesCorrelate`, `TracesWhole`, `LinesFollowLogger` |
| `startup` | 2 calls, 1 `Setenv` of 3 variables, 7 variables in every state, on their own or in `.env` | `LoggersAgree`, `ConfigMeansEnvironment`, `ReloadMeansEnvironment`, `InitInstallsBoth` |

The largest are `ratesampler` (6.6 million states), `requests` (2.1 million) and
`startup` (0.8 million).

Four more runs look for what a comment of the code says and the code does not do;
TLC finds each violated:

| Run | The code says | What happens |
| --- | --- | --- |
| `lifecycle_rollback` | `tel.go:217` "tear down what we built" | the losing Start resets the process-wide tracer provider even when it is the winner's by then |
| `allowlist_prestart` | `tel.go:418` "Safe before or after Start; pre-Start values are applied" | a label registered between Start's copy and its commit reaches no cache |
| `allowlist_racing` | `metric.go:86` "Allow registers label values" | of two concurrent calls the later store drops the other's labels |
| `ratesampler_capped` | `log_sampler.go:18` "caps log volume per second" | a late `count.Store(1)` lets one message too many past, with the clock standing still |

Some smaller differences show in the models without a run of their own. Shutdown can
return before the monitor's `Serve` goroutine has run, with the address still bound
(`monitor.go:57`); `AddressFreed` says it is freed in the end. And `Subjects` lists the
joined keys of two and three labels, although its comment speaks of keys of one
(`metric.go:393`); `ReadShard` collects all of them. `README.md:29`
says that `Init` does `Start` and then `SetGlobal`; the code makes the Telemetry global
first (`config_env.go:149`), so one whose `Start` fails stays global (`Create`,
`Start` in `Startup`). `ReloadConfig` replaces the whole record and reads only the
generated part, so the nested sections become zero (`LoadConfig`). After a panic the
span is left open and `Recover`'s line carries no ids (`recover.go:20-26`); a span that
is never ended is never exported.

**Bounds.** Three Starts are enough for a winner, a loser and a restart to overlap,
two Shutdowns for one to overtake the other or to act on a generation that is not the
last. The configurations differ in what the properties can tell: export with and
without traces, a fixed and an ephemeral port, with and without detector and
monitor. Two entries and three keys in two shards give two lookups of one key, two
keys in one shard, shards racing for the last slot, and overflow; the empty label
and two keys that are shown alike are among the keys, and the caches explored deny
nothing, one key, or two with one string. Two users over a restart, with an
instrument too many, give every race of `getOrCreate`. Eight messages
allow a window to overshoot, to expire and to be reopened by a logger that
is late; with limits of one the overshoot cannot happen, and a limit of three tells
the bound of a clock that was set back from that of one that only advances. Requests
share only what the environment changes, so one is enough, with a trace of its own
that a ratio of one half drops and a caller's that it keeps; the samplers are the
default, one that keeps all and one that raises errors. Fields of the configuration do
not depend on each other, except the pod's name on two variables, so variables of
every kind share a value, and `HOSTNAME` is set with and without `POD_NAME`; the
variable that is set meanwhile is one of the generated loader, one of `applyNestedEnv`
or one that a reload reports. A third call, which puts right what two racing ones left,
is beyond the run; `Agreement` and `OneCallInstalls` prove it for any number. Shards (2
for 16), epochs, time and messages are capped by constants that the modules name.

**Symmetry** is used in runs without liveness only, over calls, loggers and labels,
which the modules never order or name. `attrcache` checks liveness and has none;
there the keys are handed to the lookups in one order only (`MCCalls`), which loses
nothing because lookups are interchangeable.

**Type invariants.** Those of the composed modules (`MTypeOK`, `RTypeOK`, `STypeOK`)
and `TypeOK` of `Instruments` document the variables. They can be added to the
configuration of their run and hold there; the runs leave them out.

**Deadlock.** In `Lifecycle`, `AttrCache`, `AllowList`, `RateSampler`, `Requests` and
`Startup` every call is made once and the system may come to rest, so the check for
deadlock is off there and the liveness runs show that no call is left waiting. In
`Instruments` users never stop, and it is on.

**Fairness.** A call that has begun keeps running: weak fairness on its steps,
because Go schedules every goroutine that is ready, and the exporters and
`http.Server.Shutdown` are bounded by the caller's context. The same holds for
the detector's and the monitor's goroutine. Nothing makes the application call
anything, so beginning a call is never fair. A request of the monitor goes on once it
is accepted (its handlers do not block and the server has a `WriteTimeout`), but that
it panics is not assumed, and neither is that the context of a `Shutdown` ends its wait:
`CallsReturn` holds because the requests end. In `Instruments` a goroutine
competes for a registry's mutex with others that come back for ever, so its steps
are strongly fair: a Go RWMutex lets a waiting writer in before new readers and
the readers before the next writer.

## 4. Proofs

Every invariant and action property of the passing runs is also a theorem, for every
value of the constants. The modules assume of those what the code gives: calls are of
one kind and none is named `None` or `Foreign` (`CallsAssumption`); a key has one to
three labels and a shard, the lookups in a process and the loggers are finitely many
(`KeysAssumption`, `ShardAssumption`, `LookupsAssumption`, `LoggersAssumption`); a cache
and a registry have room for one entry, as their constructors see to (`MaxAssumption`),
and the sampler's limits are numbers or do not parse (`LimitAssumption`); the settings
of a cache are well-typed (`SettingsAssumption`), there is an instrument to ask for
(`InstrumentAssumption`); and neither a `.env` file nor `os.Setenv` unsets a variable
(`WorldsAssumption`). TLC evaluates them in the runs.

| Theorem | States | Of |
| --- | --- | --- |
| `Invariance` (`LifecycleProofs`) | the inductive invariant `IInv` | `Lifecycle` |
| `TypeCorrect` | `TypeOK` | |
| `HolderIntact` | `RunningIntact` | |
| `OneOwner` | `SoleOwner` | |
| `NoLeak` | `NoOrphan` | |
| `ReleasedAll` | `ShutdownComplete` | |
| `GlobalOwned` | `NoStickyGlobal` | |
| `ForeignStays` | `ForeignKept` | |
| `EpochMoves` | `EpochFences` | |
| `GenerationsHold`, `GenerationsPromise` | `G!GSpec`, the safety part of `ImplementsGenerations`, and what it promises | |
| `MonitorInvariance`, `GenerationsUnderLoad` | the same invariant with requests, and `G!GSpec` | `Monitor` |
| `StatsWhole` | `StatsOfOneGeneration` | |
| `QuietBehindShutdown` | `QuietAfterShutdown` | |
| `TypeCorrect`, `SizeExact`, `RefusedForGood` (`AttrCacheProofs`) | `TypeOK`, `SizeIsExact`, `OverflowIsFinal` | `AttrCache` |
| `CountersExact`, `SnapshotsCounted`, `WarningsTrue` | `CountersAgree`, `SnapshotCounted`, `WarningsHold` | |
| `AnswersAsInterner` | `ImplementsInterner` | |
| `TypeCorrect`, `BoundKept` (`InstrumentsProofs`) | `TypeOK`, `InstrumentsBounded` | `Instruments` |
| `NoneOrphaned`, `RecordsStay` | `NoOrphanInstrument`, `RecordsWhereBegun` | |
| `Invariance`, `TypeCorrect`, `QuietCallsKeep` (`AllowListProofs`) | the inductive invariant, `TypeOK`, `QuietCallsHold` | `AllowList` |
| `TypeCorrect`, `WindowsEndSoon`, `WindowsBounded` (`RateSamplerProofs`) | `TypeOK`, `WindowsEnd`, `WindowBounded` | `RateSampler` |
| `CappedWithoutRace` | `WindowCapped`, with one logger or limits of one | |
| `Agreement` (`ProcessLoggerProofs`) | `LoggersAgree` | `ProcessLogger` |
| `RequestInvariance`, `SettledSpans`, `ReportedOnce` (`RequestsProofs`) | the inductive invariant `RInv`, `SpansSettled`, `FailureReportedOnce` | `Requests` |
| `WeaveInvariance`, `WholeTraces`, `LinesNameSpans` | the inductive invariant `WInv`, `TracesWhole`, `LinesCorrelate` | |
| `LoggerInvariance`, `LinesGoToLogger` | the invariant of `ProcessLogger` among requests, `LinesFollowLogger` | |
| `StartupAgreement`, `OneCallInstalls` (`StartupProofs`) | `LoggersAgree`, `InitInstallsBoth` | `Startup` |
| `ConfigIsMeaning`, `ReloadIsMeaning` | `ConfigMeansEnvironment`, `ReloadMeansEnvironment` | |

Hardly any of these properties is inductive by itself. The inductive invariants, and
why they are needed:

**Lifecycle.** That a returned Shutdown has released everything needs to be known at
every point of the Shutdown before, and it needs that no other call still adds to the
generation. `IInv` conjoins: `Owners` (a generation is held by `t` or taken by one
Shutdown, and only after its Start committed), `Stages` (what a generation consists of
at each point of its Start), `RunningIntact`, `Drained` (what a Shutdown has released by
each of its points), `GlobalInstalled` (a generation is installed process-wide only
when it exports traces) and `NoStickyGlobal`. Each has a lemma that every action keeps
it, one step per action. The three steps of a Shutdown that release something are
one case, `Releases`: `ReleaseFrame` and `ReleaseShuts` state once that such a step
touches only the generation its call took and only shuts. `NoLeak`, `OneOwner` and
`ReleasedAll` then follow from `IInv` state by state. `ForeignStays` adds that only a
Start which installs a provider is remembered to have done so (`Remembered`).

**Generations.** The refinement reads the phase of a generation off the points of its
Start and of the Shutdown that took it (`PhaseFacts`, from `IInv`), shows that a step of
one call leaves the phases of all other generations alone, and then maps the calls' own
steps: `InitProviders` builds, `Commit` goes live, `ShutdownSwap` retires, the steps
that release close or stutter, the last one finishes. `GenerationsPromise` then needs
the six steps of `Generations` only.

**Monitor.** A request's steps leave the variables of `Lifecycle` alone and the wait for
requests only holds a Shutdown back, so `IInv` carries over. That `/stats` is about
one generation holds because the detector and the registry are read in one critical
section; that none is left behind a Shutdown because a server that is told to shut down
accepts no more and the Shutdown passes its wait only without an active request.

**Attribute cache.** The lock of a shard excludes the other lookups of its keys
(`Locked`), so a key found missing under the lock stays missing (`Missing`); the size is
the number of cached keys and of slots taken; a cache that was full stays full and no
lookup is about to insert a key that was refused (`Refused`). Each action has an
*effect* lemma that states its step once, and the sets that are counted change by one
lookup at most (`OneMoreOrLess`). Snapshots need that the counter of misses never falls
behind the number of cached keys. For `Interner`, a lookup is answered when it finds its
key, takes a slot, finds the cache full or its key refused; all other steps stutter.

**Instruments.** The write lock of a registry excludes other creations, so there is
still room for what its holder found missing (`Locked`, `Room`); the meter has what is
in the map and what is about to be (`Accounted`); and a record that passed the check of
the epoch began in the epoch of its registry (`InTime`).

**Allow list.** `QuietCallsHold` needs what holds of every list while it is made: the
labels of an undisturbed call are kept for later Starts (`Kept`), are in every copy a
Start has made since (`Copied`), in the running list unless the call has yet to replace
it (`InRunning`), and in the copy of every later call that is about to replace it
(`Loaded`).

**Rate sampler.** `WindowsEnd`: a logger's time is never ahead of the clock by more than
it was set back, so the window it opens ends within a tick and that. For
`WindowBounded`, a window's budget is the limit, and the limit less one more for every
time its count is put back to one. Who can still do that is read off the loggers: those
about to do it from a look at an earlier window (`Stale`), of which no new ones appear
while the window is open, and those that found it over and have not swapped yet
(`Stuck`), who do so once each before it is closed. With one logger, or limits of one,
the bound is the limit itself (`CappedWithoutRace`): `WindowCapped` is violated by races
only.

**Process logger and start-up.** `LoggersAgree` speaks of moments without a call under
way. The invariant says what holds during one: a call that has not begun has no logger
but its own bare one (`Fresh`), and without overlap an active call is the newest and has
got as far with the two pointers as its point says (`Alone`, `Progress`).
`StartupAgreement` and `LoggerInvariance` need no second proof of it: every step of
`Startup` and of `Requests` is one of `ProcessLogger`'s or leaves its variables alone.
`OneCallInstalls` adds how a call's place in `Init` and its place in `ConfigureLogger` go
together (`InStep`) and that after a call which ran into no other the global Telemetry is its own
(`OneByOne`). That racing calls leave complete loggers needs an invariant of its own,
`LeftInv`: the process logger is what some call stored last, unless a call has its last
store ahead of it, and so the default one. What a
call knows of the environment is `Told`, in `CInv`: the environment of the process is
among those it found, `.env` has nothing to add to it, also after a variable is set
(`OverlaidOnce`, `OverlayKept`), the snapshot is of one of them, and the configuration is
loaded from one. That the two loaders, each from an environment of its own, give every
field what `Meaning` gives it in one of the two (`LoadsMeaning`) is a fact about the
tables, in which
`GeneratedDefaults` and `NestedDefaults` compare the defaults of the tags, of
`applyNestedEnv` and of `DefaultConfig`: the comment at `defaults.go:5`, that they must
stay in sync, is so.

**Requests.** `RInv` says, for every request, which spans may be open at which point,
that an answer is there from the handler's return on, that a report is made by the last
step only, and that a skipped path has neither span nor report of `Server`'s
(`Settling`, `Skipping`). A step of one request leaves the others alone (`OneRequest`),
so each action is a lemma about one request. `WInv` says how the context of a request is
woven into its spans: until `Server` has started its span the span context is the
caller's; from then on it has the span's id and is sampled as the span is kept, and a
sampler that is not parent-based has decided by the trace alone (`Woven`), so a later span
of the same trace, under whatever sampler, finds what it needs. `Decides` states what a
sampler goes by. That a logger is stored on a context only together with a span or
fields, so that `Ctx` never hands it out (`Passed`), gives `LinesFollowLogger`.

Two attempts failed for a good reason and corrected the models. An earlier
`WindowBounded`, the limit for every logger whatever the clock does, is false once the
clock is set back: a logger then puts the count of a window back a second time; the
run's limits were too small to show it. And an earlier `Meaning` gave a host without a
name an empty service, where the code says `unknown` (`config_env.go:32-34`); no run has
such a host.

Only model-checked: liveness (`CallsReturn`, `AddressFreed`, `RequestsAnswered`,
`CacheCallsReturn`, `GetReturns`) and the fairness part of `ImplementsGenerations`,
which are out of the prover's reach; and the four runs that look for a violation.

## 5. Not modelled

- Formatting, colours and stack traces of logging; TLS, resources, views, dial
  options and compression, which are configuration handed to OpenTelemetry; the
  SDK itself, whose exporters and instruments appear as calls that succeed or fail.
- `Inject` and the map carrier, which write into a message of the caller's; the
  attributes of messaging spans; `WithAttrs`, which copies an instrument; the `Must`
  and `Audit` variants of the generated loader, which read the same.
- The memory figures of `/stats`, and the values of records and durations.
- `bytesconv`, the example and the benchmarks: no state.
- Counters that wrap: 64-bit counters of events do not get there.
- A generation's `ctx`: an expired context makes a shutdown step fail, which is
  one of the outcomes of the step.

## 6. Plan

1. What the violated properties leave, as it is proved for `WindowCapped`: what the
   rollback of a losing Start does keep of the winner's provider, and which labels
   survive two racing calls of `AllowSubjects`.
2. A composition of `Lifecycle`, `Instruments` and `AttrCache`, in which a record
   runs across a restart with the labels of its cache.
