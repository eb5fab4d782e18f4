------------------------------ MODULE Lifecycle ------------------------------
(* The lifecycle of one Telemetry value (tel.go): any number of Start and      *)
(* Shutdown calls running concurrently on it, the monitor server's and the     *)
(* cardinality detector's goroutines, and the process-wide OpenTelemetry       *)
(* tracer provider they share with the application.                            *)
(*                                                                             *)
(* Every element of Starts is one call of Start, every element of Shutdowns    *)
(* one call of Shutdown; a restart is one more element.  The resources a Start *)
(* builds (the two export pipelines, the monitor's listener, the detector's    *)
(* goroutine) are a GENERATION, named by the call that built it.  A step       *)
(* between two lock operations is atomic when only its own call can see what   *)
(* it changes.  installPropagator always installs the same value, so it is no  *)
(* state here.  A Telemetry made with the caller's own providers                *)
(* (NewWithProviders) begins with a generation no Start built; it is named by  *)
(* a call of Start that then does nothing.                                     *)
EXTENDS Naturals, FiniteSets

CONSTANTS Starts,      \* the calls of Start, one element each
          Shutdowns,   \* the calls of Shutdown, one element each
          Configs,     \* the configurations a Telemetry may be made with
          None,        \* no generation; as globalTP, the no-op tracer provider
          Foreign      \* a tracer provider the application installs itself

ConfigType == [export: BOOLEAN, traces: BOOLEAN, detector: BOOLEAN,
               monitor: {"off", "fixed", "ephemeral"}]

ASSUME CallsAssumption == /\ Starts \cap Shutdowns = {}
                          /\ None \notin Starts
                          /\ Foreign \notin Starts \cup {None}

ASSUME ConfigsAssumption == Configs \subseteq ConfigType

VARIABLES
  cfg,             \* t.cfg: never written after newTelemetry
  started,         \* t.started
  epoch,           \* t.epoch
  holder,          \* the generation in t.{metricProvider,...,monitor}
  traceInstalled,  \* t.traceInstalled
  globalTP,        \* otel.GetTracerProvider()
  gen,             \* [s] the resources of generation s
  pc,              \* where each call is
  call             \* [d] the locals of Shutdown d

fields == <<started, epoch, holder, traceInstalled>>
vars == <<cfg, fields, globalTP, gen, pc, call>>

(* A pipeline is "down" once its Shutdown was called, whatever that returned;  *)
(* "given" is a provider of the caller's, with no shutdown function in t.      *)
(* A listener is "refusing" when http.Server.Shutdown came before Serve.       *)
GenType == [metrics: {"none", "up", "down", "given"},
            tracer: {"none", "up", "down", "given"},
            listener: {"none", "bound", "serving", "refusing", "closed"},
            bound: BOOLEAN,                 \* the monitor answers for t
            detector: {"none", "created", "running", "exited"},
            stopped: BOOLEAN]               \* the detector's stopCh is closed
NoResources == [metrics |-> "none", tracer |-> "none", listener |-> "none",
                bound |-> FALSE, detector |-> "none", stopped |-> FALSE]
GivenProviders == [NoResources EXCEPT !.metrics = "given", !.tracer = "given"]

CallType == [gen: Starts \cup {None},       \* the generation it took
             trace: BOOLEAN,                \* its traceInstalled
             err: {"nil", "exporter", "monitor"}]   \* what failed last

(* The points of a Start while its generation is in its locals only ...        *)
Building == {"built", "commit"}
Losing == {"loseMonitor", "loseProviders", "loseGlobal"}
Failing == {"failProviders", "failGlobal", "clear"}
Returned == {"done", "failed"}
StartPC == {"idle", "init", "activate"} \cup Building \cup Losing \cup Failing
             \cup Returned
(* ... and of a Shutdown while it releases what it took.                       *)
Draining == {"stop", "wait", "metrics", "traces", "monitor", "global"}
ShutdownPC == {"idle", "done"} \cup Draining

(* The types of the variables, at every point of Start and Shutdown: t holds a *)
(* generation exactly while it is started, and a Shutdown that has begun to    *)
(* release has one to release (tel.go:239, 336-366).                           *)
TypeOK ==
  /\ cfg \in Configs
  /\ started \in BOOLEAN
  /\ epoch \in Nat
  /\ holder \in Starts \cup {None}
  /\ started <=> holder # None
  /\ traceInstalled \in BOOLEAN
  /\ globalTP \in Starts \cup {None, Foreign}
  /\ gen \in [Starts -> GenType]
  /\ pc \in [Starts \cup Shutdowns -> StartPC \cup ShutdownPC]
  /\ \A s \in Starts : pc[s] \in StartPC
  /\ \A d \in Shutdowns : pc[d] \in ShutdownPC
  /\ call \in [Shutdowns -> CallType]
  /\ \A d \in Shutdowns : pc[d] \in Draining => call[d].gen # None

(* newTelemetry: no-op providers, epoch 0, nothing installed.                  *)
New ==
  /\ started = FALSE /\ holder = None
  /\ gen = [s \in Starts |-> NoResources]
  /\ pc = [c \in Starts \cup Shutdowns |-> "idle"]

(* NewWithProviders: started from the beginning, with nothing of t's own to    *)
(* release: no shutdown functions, no monitor, no detector whatever cfg says.  *)
NewWithProviders(p) ==
  /\ started = TRUE /\ holder = p
  /\ gen = [s \in Starts |-> IF s = p THEN GivenProviders ELSE NoResources]
  /\ pc = [c \in Starts \cup Shutdowns |-> IF c = p THEN "done" ELSE "idle"]

Init ==
  /\ cfg \in Configs
  /\ New \/ \E p \in Starts : NewWithProviders(p)
  /\ epoch = 0 /\ traceInstalled = FALSE
  /\ globalTP = None
  /\ call = [d \in Shutdowns |-> [gen |-> None, trace |-> FALSE, err |-> "nil"]]

-----------------------------------------------------------------------------
(* What of generation s has not been told to stop.                             *)
MetricsOpen(s) == gen[s].metrics = "up"
TracerOpen(s) == gen[s].tracer = "up"
MonitorOpen(s) == gen[s].listener \in {"bound", "serving"}
DetectorOpen(s) == gen[s].detector \in {"created", "running"} /\ ~gen[s].stopped

(* Helpers.                                                                    *)

Goto(c, from, to) == pc[c] = from /\ pc' = [pc EXCEPT ![c] = to]
Skip(c, from, to) == Goto(c, from, to) /\ UNCHANGED <<cfg, fields, globalTP, gen, call>>

(* initProviders installs the tracer provider only when export is on.          *)
InstallsTraces == cfg.export /\ cfg.traces

(* newMeterProvider, newTracerProvider: what a generation gets.                *)
MetricPipeline == IF cfg.export THEN "up" ELSE "none"
TracePipeline == IF InstallsTraces THEN "up" ELSE "none"

(* Two listeners never share a fixed MonitorAddr; port 0 always finds one.     *)
AddressFree ==
  cfg.monitor = "fixed" =>
    \A s \in Starts : gen[s].listener \notin {"bound", "serving", "refusing"}

Down(pipeline) == IF pipeline = "up" THEN "down" ELSE pipeline

(* cardinalityDetector.Start: t.cardinality is nil unless the detector is on.  *)
Started(d) == IF d = "created" THEN "running" ELSE d

(* monitorServer.shutdown, http.Server.Shutdown: the listener is closed here   *)
(* only when Serve has registered it.                                          *)
Closed(listener) == CASE listener = "bound" -> "refusing"
                      [] listener = "serving" -> "closed"
                      [] OTHER -> listener

(* errors.Join: an error is remembered, the next step is taken all the same.   *)
MayFail(d, can, err) == \E e \in {call[d].err} \cup (IF can THEN {err} ELSE {}) :
                          call' = [call EXCEPT ![d].err = e]

-----------------------------------------------------------------------------
(* Slips one could make in the steps below.  No specification uses them; each  *)
(* is what one of the properties is there to exclude.                          *)

(* A lost race that returns without rolling anything back.                     *)
LoseRaceLeaks(s) == started /\ Skip(s, "commit", "done")

(* A rollback that shuts down t.monitor in place of its own monitor.           *)
RollbackHeldMonitor(s) ==
  /\ Goto(s, "loseMonitor", "loseProviders")
  /\ gen' = [gen EXCEPT ![IF started THEN holder ELSE s].listener = Closed(@)]
  /\ UNCHANGED <<cfg, fields, globalTP, call>>

(* A rollback that leaves the tracer provider installed.                       *)
RollbackKeepsGlobal(s) == Skip(s, "loseGlobal", "done") \/ Skip(s, "failGlobal", "clear")

(* A detector that is started only while it is still t's.                      *)
ActivateIfHeld(s) ==
  /\ Goto(s, "activate", "done")
  /\ gen' = [gen EXCEPT ![s] = [@ EXCEPT !.bound = cfg.monitor # "off",
                !.detector = IF holder = s THEN Started(gen[s].detector)
                                                                ELSE gen[s].detector]]
  /\ UNCHANGED <<cfg, fields, globalTP, call>>

(* A Serve goroutine that waits for the monitor to be bound.                   *)
ServeOnceBound(s) ==
  /\ gen[s].bound /\ gen[s].listener \in {"bound", "refusing"}
  /\ gen' = [gen EXCEPT ![s].listener = IF @ = "bound" THEN "serving" ELSE "closed"]
  /\ UNCHANGED <<cfg, fields, globalTP, pc, call>>

(* A Shutdown that goes by the configuration and not by what t holds.          *)
StopIfConfigured(d) ==
  /\ cfg.detector
  /\ Goto(d, "stop", "wait")
  /\ gen' = [gen EXCEPT ![call[d].gen].stopped = TRUE]
  /\ UNCHANGED <<cfg, fields, globalTP, call>>

(* A Shutdown that leaves its generation in t, or the epoch as it was.         *)
TakeAndKeep(d) ==
  /\ call' = [call EXCEPT ![d] = [@ EXCEPT !.gen = holder,
                                           !.trace = traceInstalled]]
  /\ UNCHANGED <<cfg, fields, globalTP, gen>>

TakeSameEpoch(d) ==
  /\ started' = FALSE /\ holder' = None /\ traceInstalled' = FALSE
  /\ call' = [call EXCEPT ![d] = [@ EXCEPT !.gen = holder,
                                           !.trace = traceInstalled]]
  /\ UNCHANGED <<cfg, epoch, globalTP, gen>>

(* A Shutdown that returns at the first error.                                 *)
ShutdownMetricsOrReturn(d) ==
  /\ Goto(d, "metrics", "traces") \/ (cfg.export /\ Goto(d, "metrics", "done"))
  /\ gen' = [gen EXCEPT ![call[d].gen].metrics = Down(@)]
  /\ UNCHANGED <<cfg, fields, globalTP, call>>

(* A Shutdown that resets the tracer provider whoever installed it.            *)
ResetAlways(d) ==
  /\ Goto(d, "global", "done")
  /\ globalTP' = None
  /\ UNCHANGED <<cfg, fields, gen, call>>

-----------------------------------------------------------------------------
(* Start                                                                       *)

(* tel.go:173-179: the first look at started; the lock is released after it.   *)
StartCheck(s) == Skip(s, "idle", IF started THEN "done" ELSE "init")

(* initProviders succeeds.  The pipelines are local until SetTracerProvider,   *)
(* which is its last step.                                                     *)
InitProviders(s) ==
  /\ Goto(s, "init", "built")
  /\ gen' = [gen EXCEPT ![s] = [@ EXCEPT !.metrics = MetricPipeline,
                                         !.tracer = TracePipeline]]
  /\ globalTP' = IF InstallsTraces THEN s ELSE globalTP
  /\ UNCHANGED <<cfg, fields, call>>

(* newMeterProvider fails, or newTracerProvider does and the meter provider    *)
(* just built is shut down again (tel.go:276-281).                             *)
InitFails(s) ==
  /\ cfg.export
  /\ Goto(s, "init", "failed")
  /\ \E reached \in {"none", "down"} : gen' = [gen EXCEPT ![s].metrics = reached]
  /\ UNCHANGED <<cfg, fields, globalTP, call>>

SkipMonitor(s) == cfg.monitor = "off" /\ Skip(s, "built", "commit")

(* monitorServer.start: Listen succeeds and the Serve goroutine is spawned.    *)
Listen(s) ==
  /\ cfg.monitor # "off" /\ AddressFree
  /\ Goto(s, "built", "commit")
  /\ gen' = [gen EXCEPT ![s].listener = "bound"]
  /\ UNCHANGED <<cfg, fields, globalTP, call>>

(* Listen fails: the address is taken, by an own listener or by another        *)
(* process, or the context is done.                                            *)
ListenFails(s) == cfg.monitor # "off" /\ Skip(s, "built", "failProviders")

(* tel.go:223-240: the fields and the registry of t are replaced.              *)
Install(s) ==
  /\ Goto(s, "commit", "activate")
  /\ started' = TRUE
  /\ epoch' = epoch + 1
  /\ holder' = s
  /\ traceInstalled' = InstallsTraces
  /\ gen' = [gen EXCEPT ![s].detector = IF cfg.detector THEN "created" ELSE "none"]
  /\ UNCHANGED <<cfg, globalTP, call>>

(* tel.go:214-221: the second look at started is under the same lock.          *)
Commit(s) == ~started /\ Install(s)
LoseRace(s) == started /\ Skip(s, "commit", "loseMonitor")

(* tel.go:242-248, after the lock: bind the monitor to t and start the         *)
(* detector's goroutine.                                                       *)
Activate(s) ==
  /\ Goto(s, "activate", "done")
  /\ gen' = [gen EXCEPT ![s] = [@ EXCEPT !.bound = cfg.monitor # "off",
                                         !.detector = Started(gen[s].detector)]]
  /\ UNCHANGED <<cfg, fields, globalTP, call>>

(* rollbackStart: after a lost race it begins with the monitor, after a failed *)
(* Listen there is no monitor.                                                 *)
RollbackMonitor(s) ==
  /\ Goto(s, "loseMonitor", "loseProviders")
  /\ gen' = [gen EXCEPT ![s].listener = Closed(@)]
  /\ UNCHANGED <<cfg, fields, globalTP, call>>

RollbackProviders(s) ==
  /\ Goto(s, "loseProviders", "loseGlobal") \/ Goto(s, "failProviders", "failGlobal")
  /\ gen' = [gen EXCEPT ![s] = [@ EXCEPT !.metrics = Down(gen[s].metrics),
                                         !.tracer = Down(gen[s].tracer)]]
  /\ UNCHANGED <<cfg, fields, globalTP, call>>

(* tel.go:327-329: providers.traceInstalled resets whatever is installed.      *)
RollbackGlobal(s) ==
  /\ Goto(s, "loseGlobal", "done") \/ Goto(s, "failGlobal", "clear")
  /\ globalTP' = IF InstallsTraces THEN None ELSE globalTP
  /\ UNCHANGED <<cfg, fields, gen, call>>

(* tel.go:303-308: a failed Listen also clears an install t remembers.         *)
ClearInstall(s) ==
  /\ Goto(s, "clear", "failed")
  /\ globalTP' = IF traceInstalled THEN None ELSE globalTP
  /\ traceInstalled' = FALSE
  /\ UNCHANGED <<cfg, started, epoch, holder, gen, call>>

-----------------------------------------------------------------------------
(* Shutdown                                                                    *)

ShutdownNoop(d) == ~started /\ Skip(d, "idle", "done")

(* tel.go:342-366: what t holds moves to the call's locals.                    *)
Take(d) ==
  /\ started' = FALSE
  /\ epoch' = epoch + 1
  /\ holder' = None
  /\ traceInstalled' = FALSE
  /\ call' = [call EXCEPT ![d] = [@ EXCEPT !.gen = holder,
                                           !.trace = traceInstalled]]
  /\ UNCHANGED <<cfg, globalTP, gen>>

BeginShutdown(d) == Goto(d, "idle", "stop") /\ Take(d)

(* tel.go:335-342: started is read and cleared under the same lock.            *)
ShutdownSwap(d) == started /\ BeginShutdown(d)

(* cardinalityDetector.Stop closes stopCh; closing it twice panics.  A nil     *)
(* detector is skipped.                                                        *)
CloseStop(d) ==
  /\ Goto(d, "stop", "wait")
  /\ gen[call[d].gen].detector # "none"
  /\ gen' = [gen EXCEPT ![call[d].gen].stopped = TRUE]
  /\ UNCHANGED <<cfg, fields, globalTP, call>>

SkipStop(d) == Skip(d, "stop", "metrics") /\ gen[call[d].gen].detector = "none"

(* <-d.doneCh                                                                  *)
WaitStop(d) == Skip(d, "wait", "metrics") /\ gen[call[d].gen].detector = "exited"

ShutdownMetrics(d) ==
  /\ Goto(d, "metrics", "traces")
  /\ gen' = [gen EXCEPT ![call[d].gen].metrics = Down(@)]
  /\ MayFail(d, MetricsOpen(call[d].gen), "exporter")
  /\ UNCHANGED <<cfg, fields, globalTP>>

ShutdownTraces(d) ==
  /\ Goto(d, "traces", "monitor")
  /\ gen' = [gen EXCEPT ![call[d].gen].tracer = Down(@)]
  /\ MayFail(d, TracerOpen(call[d].gen), "exporter")
  /\ UNCHANGED <<cfg, fields, globalTP>>

ShutdownMonitor(d) ==
  /\ Goto(d, "monitor", "global")
  /\ gen' = [gen EXCEPT ![call[d].gen].listener = Closed(@)]
  /\ MayFail(d, gen[call[d].gen].listener # "none", "monitor")
  /\ UNCHANGED <<cfg, fields, globalTP>>

ResetGlobal(d) ==
  /\ Goto(d, "global", "done")
  /\ globalTP' = IF call[d].trace THEN None ELSE globalTP
  /\ UNCHANGED <<cfg, fields, gen, call>>

-----------------------------------------------------------------------------
(* Goroutines, and the application                                             *)

(* cardinalityDetector.run: stopCh is closed, doneCh gets closed.              *)
DetectorExits(s) ==
  /\ gen[s].detector = "running" /\ gen[s].stopped
  /\ gen' = [gen EXCEPT ![s].detector = "exited"]
  /\ UNCHANGED <<cfg, fields, globalTP, pc, call>>

(* http.Server.Serve registers the listener, unless Shutdown came first: then  *)
(* it closes the listener and returns ErrServerClosed.                         *)
Serve(s) ==
  /\ gen[s].listener \in {"bound", "refusing"}
  /\ gen' = [gen EXCEPT ![s].listener = IF @ = "bound" THEN "serving" ELSE "closed"]
  /\ UNCHANGED <<cfg, fields, globalTP, pc, call>>

(* The application may install a tracer provider of its own at any time.       *)
InstallForeign == globalTP' = Foreign /\ UNCHANGED <<cfg, fields, gen, pc, call>>

-----------------------------------------------------------------------------
(* What a call does once begun, and what begins it.                            *)
StartStep(s) ==
  \/ InitProviders(s) \/ InitFails(s)
  \/ SkipMonitor(s) \/ Listen(s) \/ ListenFails(s)
  \/ Commit(s) \/ LoseRace(s) \/ Activate(s)
  \/ RollbackMonitor(s) \/ RollbackProviders(s) \/ RollbackGlobal(s)
  \/ ClearInstall(s)

ShutdownStep(d) ==
  \/ CloseStop(d) \/ SkipStop(d) \/ WaitStop(d)
  \/ ShutdownMetrics(d) \/ ShutdownTraces(d) \/ ShutdownMonitor(d)
  \/ ResetGlobal(d)

Next ==
  \/ \E s \in Starts : StartCheck(s) \/ StartStep(s) \/ DetectorExits(s) \/ Serve(s)
  \/ \E d \in Shutdowns : ShutdownNoop(d) \/ ShutdownSwap(d) \/ ShutdownStep(d)
  \/ InstallForeign

(* A call that has begun keeps running (exporters and http.Server.Shutdown are *)
(* bounded by the caller's context), and the Go scheduler runs every ready     *)
(* goroutine.  Nothing makes the application call Start or Shutdown.           *)
Fairness ==
  /\ \A s \in Starts : /\ WF_vars(StartStep(s))
                       /\ WF_vars(DetectorExits(s))
                       /\ WF_vars(Serve(s))
  /\ \A d \in Shutdowns : WF_vars(ShutdownStep(d))

Spec == Init /\ [][Next]_vars
FairSpec == Spec /\ Fairness

-----------------------------------------------------------------------------
(* Who answers for what.                                                       *)

(* Some Shutdown took s and is at one of the points At.                        *)
ShutdownHas(s, At) == \E d \in Shutdowns : call[d].gen = s /\ pc[d] \in At

(* Every pipeline, listener and goroutine that is still open has a call or t   *)
(* that will release it: concurrent Starts, failed Starts and Shutdowns leak   *)
(* nothing (tel.go:214-221, 299-311, 345-389).                                 *)
NoOrphan ==
  \A s \in Starts :
    /\ MetricsOpen(s) =>
         \/ holder = s
         \/ pc[s] \in Building \cup {"loseMonitor", "loseProviders", "failProviders"}
         \/ ShutdownHas(s, {"stop", "wait", "metrics"})
    /\ TracerOpen(s) =>
         \/ holder = s
         \/ pc[s] \in Building \cup {"loseMonitor", "loseProviders", "failProviders"}
         \/ ShutdownHas(s, {"stop", "wait", "metrics", "traces"})
    /\ MonitorOpen(s) =>
         \/ holder = s
         \/ pc[s] \in {"commit", "loseMonitor"}
         \/ ShutdownHas(s, Draining \ {"global"})
    /\ DetectorOpen(s) => holder = s \/ ShutdownHas(s, {"stop"})

(* One owner per generation: t lets go of it in the step that gives it to a    *)
(* Shutdown, and no two Shutdowns take the same one, so stopCh is never closed *)
(* twice and no exporter is shut down twice (tel.go:345-354).                  *)
SoleOwner ==
  /\ \A d \in Shutdowns : call[d].gen # None => holder # call[d].gen
  /\ \A d, e \in Shutdowns : call[d].gen # None /\ call[d].gen = call[e].gen => d = e
  /\ \A d \in Shutdowns : pc[d] = "stop" => ~gen[call[d].gen].stopped

(* While t is started, what it holds is whole: no concurrent losing Start, and *)
(* no Shutdown of an earlier generation, has touched a resource of the holder; *)
(* providers the caller gave it stay as they were given.                       *)
RunningIntact ==
  started =>
    LET g == gen[holder] IN
      \/ pc[holder] = "done" /\ g = GivenProviders
      \/ /\ pc[holder] \in {"activate", "done"}
         /\ g.metrics = MetricPipeline /\ g.tracer = TracePipeline
         /\ g.listener \in IF cfg.monitor = "off" THEN {"none"} ELSE {"bound", "serving"}
         /\ ~g.stopped
         /\ g.detector = IF ~cfg.detector THEN "none"
                         ELSE IF pc[holder] = "activate" THEN "created" ELSE "running"

(* The process-wide tracer provider never outlives its generation unnoticed:   *)
(* whoever built it still has to reset it (lifecycle_test.go:61, 101).         *)
NoStickyGlobal ==
  \A s \in Starts : globalTP = s =>
    \/ holder = s /\ traceInstalled
    \/ pc[s] \in Building \cup Losing \cup {"failProviders", "failGlobal"}
    \/ \E d \in Shutdowns : call[d].gen = s /\ call[d].trace /\ pc[d] \in Draining

(* A Shutdown that returned has shut every part of its generation down, also   *)
(* the parts after one whose shutdown failed (tel.go:368-389).                 *)
ShutdownComplete ==
  \A d \in Shutdowns : pc[d] = "done" /\ call[d].gen # None =>
    LET s == call[d].gen IN
      /\ ~MetricsOpen(s) /\ ~TracerOpen(s) /\ ~MonitorOpen(s)
      /\ gen[s].detector \in {"none", "exited"}
      /\ globalTP # s

(* A tracer provider the application installed stays when this Telemetry never *)
(* installs one: no teardown path resets a provider tel did not set            *)
(* (lifecycle_test.go:84-98).                                                  *)
ForeignKept ==
  [][globalTP = Foreign /\ ~InstallsTraces => globalTP' = Foreign]_vars

(* The epoch moves exactly when t changes hands, and never back, so no two     *)
(* generations are told apart by the same epoch (tel.go:223, 343).             *)
EpochFences ==
  [][/\ epoch' >= epoch
     /\ (epoch' # epoch) <=> (holder' # holder)]_vars

(* Every call that has begun returns: Stop never waits for a detector nobody   *)
(* starts, even when Shutdown overtakes the Start that committed it.           *)
CallsReturn ==
  /\ \A s \in Starts : pc[s] # "idle" ~> pc[s] \in Returned
  /\ \A d \in Shutdowns : pc[d] # "idle" ~> pc[d] = "done"

(* A monitor told to shut down frees its address in the end, also when the     *)
(* shutdown comes before its Serve goroutine has run (monitor.go:57-79).       *)
AddressFreed ==
  \A s \in Starts : gen[s].listener = "refusing" ~> gen[s].listener = "closed"

-----------------------------------------------------------------------------
(* What the code's words say and its behaviour does not.                       *)

(* tel.go:217 "Another Start won the race; tear down what we built": the       *)
(* rollback of one Start leaves the tracer provider of another alone.          *)
TearsDownOnlyItsOwn ==
  [][\A s \in Starts : pc[s] \in Losing /\ pc'[s] # pc[s] /\ globalTP' # globalTP
                      => globalTP = s]_vars
=============================================================================
