-------------------------- MODULE LifecycleProofs --------------------------
(* Proofs about Lifecycle, for every set of calls and every configuration,     *)
(* that it implements Generations, and about Monitor, for every set of         *)
(* requests.                                                                   *)
EXTENDS Monitor, TLAPS

(* Who holds a generation.  Only a committed Start is ever held, by t or by    *)
(* one Shutdown.                                                               *)
Owners ==
  /\ holder # None => pc[holder] \in {"activate", "done"}
  /\ \A d \in Shutdowns : pc[d] = "idle" => call[d].gen = None
  /\ \A d \in Shutdowns : call[d].gen # None =>
       pc[call[d].gen] \in {"activate", "done"} /\ holder # call[d].gen
  /\ \A d, e \in Shutdowns : call[d].gen # None /\ call[d].gen = call[e].gen => d = e

NothingOpen(s) == ~MetricsOpen(s) /\ ~TracerOpen(s) /\ ~MonitorOpen(s)
Taken(s) == \E d \in Shutdowns : call[d].gen = s

(* What a generation consists of while its Start is under way.                 *)
StageOf(s) ==
  /\ pc[s] \in {"idle", "init", "failed"} => NothingOpen(s)
  /\ pc[s] \in Building => gen[s].metrics = MetricPipeline /\ gen[s].tracer = TracePipeline
  /\ pc[s] \notin {"activate", "done"} => gen[s].detector = "none" /\ ~gen[s].stopped
  /\ pc[s] \in {"idle", "init", "built"} \cup Failing => gen[s].listener = "none"
  /\ pc[s] = "commit" =>
       gen[s].listener \in IF cfg.monitor = "off" THEN {"none"} ELSE {"bound", "serving"}
  /\ pc[s] \in {"loseProviders", "loseGlobal"} => ~MonitorOpen(s)
  /\ pc[s] \in {"loseGlobal", "failGlobal", "clear"} => NothingOpen(s)
  /\ pc[s] = "activate" =>
       /\ gen[s].detector = IF cfg.detector THEN "created" ELSE "none"
       /\ holder = s \/ Taken(s)
  /\ pc[s] = "done" => /\ gen[s].detector # "created"
                       /\ \/ holder = s \/ Taken(s)
                          \/ NothingOpen(s) /\ gen[s].detector = "none"
  /\ ~cfg.detector => gen[s].detector = "none"

Stages == \A s \in Starts : StageOf(s)

(* How far a Shutdown has come with the generation it took.                    *)
DrainedTo(d, s) ==
  /\ pc[d] = "stop" => ~gen[s].stopped
  /\ pc[d] # "stop" => gen[s].stopped \/ gen[s].detector = "none"
  /\ pc[d] \notin {"stop", "wait"} => gen[s].detector \in {"none", "exited"}
  /\ pc[d] \in {"traces", "monitor", "global", "done"} => ~MetricsOpen(s)
  /\ pc[d] \in {"monitor", "global", "done"} => ~TracerOpen(s)
  /\ pc[d] \in {"global", "done"} => ~MonitorOpen(s)

Drained == \A d \in Shutdowns, s \in Starts : call[d].gen = s => DrainedTo(d, s)

GlobalInstalled == globalTP \in Starts => InstallsTraces

(* The inductive invariant.                                                    *)
IInv == /\ TypeOK
        /\ Owners
        /\ Stages
        /\ RunningIntact
        /\ Drained
        /\ GlobalInstalled
        /\ NoStickyGlobal

-----------------------------------------------------------------------------
(* Typing.  A record that changes in two fields is typed by naming the two new *)
(* values first.                                                               *)

(* A generation replaced in the table.                                         *)
LEMMA PutGen ==
  ASSUME gen \in [Starts -> GenType], NEW s \in Starts, NEW r \in GenType,
         gen' = [gen EXCEPT ![s] = r]
  PROVE  gen' \in [Starts -> GenType]
OBVIOUS

(* A generation with some of its fields replaced.                              *)
LEMMA PutFields ==
  ASSUME NEW r \in GenType, NEW b \in BOOLEAN
  PROVE  /\ [r EXCEPT !.stopped = b] \in GenType
         /\ \A m, x \in {"none", "up", "down", "given"} :
              [r EXCEPT !.metrics = m, !.tracer = x] \in GenType
         /\ \A d \in {"none", "created", "running", "exited"} :
              [r EXCEPT !.bound = b, !.detector = d] \in GenType
BY DEF GenType

(* The type invariant is inductive.                                            *)
LEMMA TypeStep == TypeOK /\ [Next]_vars => TypeOK'
<1>. SUFFICES ASSUME TypeOK, [Next]_vars PROVE TypeOK'
  OBVIOUS
<1>. USE CallsAssumption, ConfigsAssumption
<1>. USE DEF Skip, Goto, fields, StartPC, ShutdownPC, Building, Losing,
             Failing, Returned, Draining
<1>g. gen \in [Starts -> GenType]
  BY DEF TypeOK
<1>d. call \in [Shutdowns -> CallType]
  BY DEF TypeOK
<1>c. ASSUME NEW d \in Shutdowns, pc[d] \in Draining PROVE call[d].gen \in Starts
  BY <1>c, <1>d DEF TypeOK, CallType
<1>1. ASSUME NEW s \in Starts, StartCheck(s) PROVE TypeOK'
  BY <1>1 DEF StartCheck, TypeOK
<1>2. ASSUME NEW s \in Starts, InitProviders(s) PROVE TypeOK'
  <2>. DEFINE a == MetricPipeline
              b == TracePipeline
  <2>1. a \in {"none", "up", "down", "given"} /\ b \in {"none", "up", "down", "given"}
    BY <1>g DEF MetricPipeline, TracePipeline
  <2>2. gen' = [gen EXCEPT ![s] = [@ EXCEPT !.metrics = a, !.tracer = b]]
    BY <1>2 DEF InitProviders
  <2>. HIDE DEF a, b
  <2>r. [gen[s] EXCEPT !.metrics = a, !.tracer = b] \in GenType
    BY <1>g, <2>1, PutFields, Zenon
  <2>3. gen' \in [Starts -> GenType]
    BY <1>g, <2>2, <2>r, PutGen, Zenon
  <2>4. /\ pc' \in [Starts \cup Shutdowns -> StartPC \cup ShutdownPC]
        /\ \A x \in Starts : pc'[x] \in StartPC
        /\ \A x \in Shutdowns : pc'[x] = pc[x]
    BY <1>2 DEF InitProviders, TypeOK
  <2>5. globalTP' \in Starts \cup {None, Foreign}
    BY <1>2 DEF InitProviders, TypeOK
  <2>6. UNCHANGED <<cfg, fields, call>>
    BY <1>2 DEF InitProviders
  <2>. QED BY <2>3, <2>4, <2>5, <2>6 DEF TypeOK
<1>3. ASSUME NEW s \in Starts, InitFails(s) PROVE TypeOK'
  <2>2. gen' \in [Starts -> GenType]
    BY <1>3, <1>g DEF InitFails, GenType
  <2>. QED BY <1>3, <2>2 DEF InitFails, TypeOK
<1>4. ASSUME NEW s \in Starts, SkipMonitor(s) PROVE TypeOK'
  BY <1>4 DEF SkipMonitor, TypeOK
<1>5. ASSUME NEW s \in Starts, Listen(s) PROVE TypeOK'
  <2>2. gen' \in [Starts -> GenType]
    BY <1>5, <1>g DEF Listen, GenType
  <2>. QED BY <1>5, <2>2 DEF Listen, TypeOK
<1>6. ASSUME NEW s \in Starts, ListenFails(s) PROVE TypeOK'
  BY <1>6 DEF ListenFails, TypeOK
<1>7. ASSUME NEW s \in Starts, Commit(s) PROVE TypeOK'
  <2>1. traceInstalled' \in BOOLEAN
    BY <1>7 DEF Commit, Install, InstallsTraces
  <2>2. gen' \in [Starts -> GenType]
    BY <1>7, <1>g DEF Commit, Install, GenType
  <2>. QED BY <1>7, <2>1, <2>2 DEF Commit, Install, TypeOK
<1>8. ASSUME NEW s \in Starts, LoseRace(s) PROVE TypeOK'
  BY <1>8 DEF LoseRace, TypeOK
<1>9. ASSUME NEW s \in Starts, Activate(s) PROVE TypeOK'
  <2>. DEFINE a == cfg.monitor # "off"
              b == Started(gen[s].detector)
  <2>1. a \in BOOLEAN /\ b \in {"none", "created", "running", "exited"}
    BY <1>g DEF Started, GenType
  <2>2. gen' = [gen EXCEPT ![s] = [@ EXCEPT !.bound = a, !.detector = b]]
    BY <1>9 DEF Activate
  <2>. HIDE DEF a, b
  <2>r. [gen[s] EXCEPT !.bound = a, !.detector = b] \in GenType
    BY <1>g, <2>1, PutFields, Zenon
  <2>3. gen' \in [Starts -> GenType]
    BY <1>g, <2>2, <2>r, PutGen, Zenon
  <2>4. /\ pc' \in [Starts \cup Shutdowns -> StartPC \cup ShutdownPC]
        /\ \A x \in Starts : pc'[x] \in StartPC
        /\ \A x \in Shutdowns : pc'[x] = pc[x]
    BY <1>9 DEF Activate, TypeOK
  <2>5. UNCHANGED <<cfg, fields, globalTP, call>>
    BY <1>9 DEF Activate
  <2>. QED BY <2>3, <2>4, <2>5 DEF TypeOK
<1>10. ASSUME NEW s \in Starts, RollbackMonitor(s) PROVE TypeOK'
  <2>2. gen' \in [Starts -> GenType]
    BY <1>10, <1>g DEF RollbackMonitor, GenType, Closed
  <2>. QED BY <1>10, <2>2 DEF RollbackMonitor, TypeOK
<1>11. ASSUME NEW s \in Starts, RollbackProviders(s) PROVE TypeOK'
  <2>. DEFINE a == Down(gen[s].metrics)
              b == Down(gen[s].tracer)
  <2>1. a \in {"none", "up", "down", "given"} /\ b \in {"none", "up", "down", "given"}
    BY <1>g DEF Down, GenType
  <2>2. gen' = [gen EXCEPT ![s] = [@ EXCEPT !.metrics = a, !.tracer = b]]
    BY <1>11 DEF RollbackProviders
  <2>. HIDE DEF a, b
  <2>r. [gen[s] EXCEPT !.metrics = a, !.tracer = b] \in GenType
    BY <1>g, <2>1, PutFields, Zenon
  <2>3. gen' \in [Starts -> GenType]
    BY <1>g, <2>2, <2>r, PutGen, Zenon
  <2>. QED BY <1>11, <2>3 DEF RollbackProviders, TypeOK
<1>12. ASSUME NEW s \in Starts, RollbackGlobal(s) PROVE TypeOK'
  BY <1>12 DEF RollbackGlobal, TypeOK
<1>13. ASSUME NEW s \in Starts, ClearInstall(s) PROVE TypeOK'
  BY <1>13 DEF ClearInstall, TypeOK
<1>14. ASSUME NEW s \in Starts, DetectorExits(s) PROVE TypeOK'
  <2>2. gen' \in [Starts -> GenType]
    BY <1>14, <1>g DEF DetectorExits, GenType
  <2>. QED BY <1>14, <2>2 DEF DetectorExits, TypeOK
<1>15. ASSUME NEW s \in Starts, Serve(s) PROVE TypeOK'
  <2>2. gen' \in [Starts -> GenType]
    BY <1>15, <1>g DEF Serve, GenType
  <2>. QED BY <1>15, <2>2 DEF Serve, TypeOK
<1>16. ASSUME NEW d \in Shutdowns, ShutdownNoop(d) PROVE TypeOK'
  BY <1>16 DEF ShutdownNoop, TypeOK
<1>17. ASSUME NEW d \in Shutdowns, ShutdownSwap(d) PROVE TypeOK'
  <2>. DEFINE a == holder
              b == traceInstalled
  <2>1. a \in Starts \cup {None} /\ b \in BOOLEAN
    BY DEF TypeOK
  <2>2. call' = [call EXCEPT ![d] = [@ EXCEPT !.gen = a, !.trace = b]]
    BY <1>17 DEF ShutdownSwap, BeginShutdown, Take
  <2>3. call'[d].gen = holder /\ holder # None
    BY <1>17 DEF ShutdownSwap, BeginShutdown, Take, TypeOK, CallType
  <2>4. \A x \in Shutdowns \ {d} : call'[x] = call[x]
    BY <1>17 DEF ShutdownSwap, BeginShutdown, Take, TypeOK
  <2>. HIDE DEF a, b
  <2>5. call' \in [Shutdowns -> CallType]
    BY <1>d, <2>1, <2>2 DEF CallType
  <2>6. \A x \in Shutdowns : pc'[x] \in Draining => call'[x].gen # None
    BY <1>17, <2>3, <2>4 DEF ShutdownSwap, BeginShutdown, TypeOK
  <2>7. /\ pc' \in [Starts \cup Shutdowns -> StartPC \cup ShutdownPC]
        /\ \A x \in Starts : pc'[x] \in StartPC
        /\ \A x \in Shutdowns : pc'[x] \in ShutdownPC
    BY <1>17 DEF ShutdownSwap, BeginShutdown, TypeOK
  <2>8. /\ started' = FALSE /\ holder' = None /\ traceInstalled' = FALSE
        /\ epoch' \in Nat
        /\ UNCHANGED <<cfg, globalTP, gen>>
    BY <1>17 DEF ShutdownSwap, BeginShutdown, Take, TypeOK
  <2>. QED BY <2>5, <2>6, <2>7, <2>8 DEF TypeOK
<1>18. ASSUME NEW d \in Shutdowns, CloseStop(d) PROVE TypeOK'
  <2>1. call[d].gen \in Starts
    BY <1>18, <1>c DEF CloseStop
  <2>. DEFINE r == [gen[call[d].gen] EXCEPT !.stopped = TRUE]
  <2>r. r \in GenType
    BY <1>g, <2>1, PutFields, Zenon
  <2>u. gen' = [gen EXCEPT ![call[d].gen] = r]
    BY <1>18 DEF CloseStop
  <2>. HIDE DEF r
  <2>2. gen' \in [Starts -> GenType]
    BY <1>g, <2>1, <2>r, <2>u, PutGen, Zenon
  <2>3. /\ pc' \in [Starts \cup Shutdowns -> StartPC \cup ShutdownPC]
        /\ \A x \in Starts : pc'[x] = pc[x]
        /\ \A x \in Shutdowns : pc'[x] \in ShutdownPC
        /\ \A x \in Shutdowns : pc'[x] \in Draining => pc[x] \in Draining
    BY <1>18 DEF CloseStop, TypeOK
  <2>4. UNCHANGED <<cfg, fields, globalTP, call>>
    BY <1>18 DEF CloseStop
  <2>. QED BY <2>2, <2>3, <2>4 DEF TypeOK
<1>19. ASSUME NEW d \in Shutdowns, SkipStop(d) PROVE TypeOK'
  BY <1>19 DEF SkipStop, TypeOK
<1>20. ASSUME NEW d \in Shutdowns, WaitStop(d) PROVE TypeOK'
  BY <1>20 DEF WaitStop, TypeOK
<1>21. ASSUME NEW d \in Shutdowns, ShutdownMetrics(d) PROVE TypeOK'
  <2>1. call[d].gen \in Starts
    BY <1>21, <1>c DEF ShutdownMetrics
  <2>2. gen' \in [Starts -> GenType]
    BY <1>21, <1>g, <2>1 DEF ShutdownMetrics, GenType, Down
  <2>. QED BY <1>21, <2>2 DEF ShutdownMetrics, TypeOK, MayFail, CallType
<1>22. ASSUME NEW d \in Shutdowns, ShutdownTraces(d) PROVE TypeOK'
  <2>1. call[d].gen \in Starts
    BY <1>22, <1>c DEF ShutdownTraces
  <2>2. gen' \in [Starts -> GenType]
    BY <1>22, <1>g, <2>1 DEF ShutdownTraces, GenType, Down
  <2>. QED BY <1>22, <2>2 DEF ShutdownTraces, TypeOK, MayFail, CallType
<1>23. ASSUME NEW d \in Shutdowns, ShutdownMonitor(d) PROVE TypeOK'
  <2>1. call[d].gen \in Starts
    BY <1>23, <1>c DEF ShutdownMonitor
  <2>2. gen' \in [Starts -> GenType]
    BY <1>23, <1>g, <2>1 DEF ShutdownMonitor, GenType, Closed
  <2>. QED BY <1>23, <2>2 DEF ShutdownMonitor, TypeOK, MayFail, CallType
<1>24. ASSUME NEW d \in Shutdowns, ResetGlobal(d) PROVE TypeOK'
  BY <1>24 DEF ResetGlobal, TypeOK
<1>25. CASE InstallForeign
  BY <1>25 DEF InstallForeign, TypeOK
<1>26. CASE UNCHANGED vars
  BY <1>26 DEF vars, TypeOK
<1>. QED BY <1>1, <1>2, <1>3, <1>4, <1>5, <1>6, <1>7, <1>8, <1>9, <1>10,
          <1>11, <1>12, <1>13, <1>14, <1>15, <1>16, <1>17, <1>18, <1>19,
          <1>20, <1>21, <1>22, <1>23, <1>24, <1>25, <1>26
  DEF Next, StartStep, ShutdownStep

-----------------------------------------------------------------------------
(* Who holds what.                                                           *)

(* Every step keeps Owners.                                                    *)
LEMMA OwnersStep ==
  ASSUME TypeOK, Owners, TypeOK', [Next]_vars
  PROVE  Owners'
<1>. USE CallsAssumption
<1>. USE DEF TypeOK, Owners, Skip, Goto, fields, StartPC, ShutdownPC,
             Building, Losing, Failing, Returned, Draining, CallType
<1>1. ASSUME NEW s \in Starts, StartCheck(s) PROVE Owners'
  BY <1>1 DEF StartCheck
<1>2. ASSUME NEW s \in Starts, InitProviders(s) PROVE Owners'
  BY <1>2 DEF InitProviders
<1>3. ASSUME NEW s \in Starts, InitFails(s) PROVE Owners'
  BY <1>3 DEF InitFails
<1>4. ASSUME NEW s \in Starts, SkipMonitor(s) PROVE Owners'
  BY <1>4 DEF SkipMonitor
<1>5. ASSUME NEW s \in Starts, Listen(s) PROVE Owners'
  BY <1>5 DEF Listen
<1>6. ASSUME NEW s \in Starts, ListenFails(s) PROVE Owners'
  BY <1>6 DEF ListenFails
<1>7. ASSUME NEW s \in Starts, Commit(s) PROVE Owners'
  BY <1>7 DEF Commit, Install
<1>8. ASSUME NEW s \in Starts, LoseRace(s) PROVE Owners'
  BY <1>8 DEF LoseRace
<1>9. ASSUME NEW s \in Starts, Activate(s) PROVE Owners'
  BY <1>9 DEF Activate
<1>10. ASSUME NEW s \in Starts, RollbackMonitor(s) PROVE Owners'
  BY <1>10 DEF RollbackMonitor
<1>11. ASSUME NEW s \in Starts, RollbackProviders(s) PROVE Owners'
  BY <1>11 DEF RollbackProviders
<1>12. ASSUME NEW s \in Starts, RollbackGlobal(s) PROVE Owners'
  BY <1>12 DEF RollbackGlobal
<1>13. ASSUME NEW s \in Starts, ClearInstall(s) PROVE Owners'
  BY <1>13 DEF ClearInstall
<1>14. ASSUME NEW s \in Starts, DetectorExits(s) PROVE Owners'
  BY <1>14 DEF DetectorExits
<1>15. ASSUME NEW s \in Starts, Serve(s) PROVE Owners'
  BY <1>15 DEF Serve
<1>16. ASSUME NEW d \in Shutdowns, ShutdownNoop(d) PROVE Owners'
  BY <1>16 DEF ShutdownNoop
<1>17. ASSUME NEW d \in Shutdowns, ShutdownSwap(d) PROVE Owners'
  BY <1>17 DEF ShutdownSwap, BeginShutdown, Take
<1>18. ASSUME NEW d \in Shutdowns, CloseStop(d) PROVE Owners'
  BY <1>18 DEF CloseStop
<1>19. ASSUME NEW d \in Shutdowns, SkipStop(d) PROVE Owners'
  BY <1>19 DEF SkipStop
<1>20. ASSUME NEW d \in Shutdowns, WaitStop(d) PROVE Owners'
  BY <1>20 DEF WaitStop
<1>21. ASSUME NEW d \in Shutdowns, ShutdownMetrics(d) PROVE Owners'
  BY <1>21 DEF ShutdownMetrics, MayFail
<1>22. ASSUME NEW d \in Shutdowns, ShutdownTraces(d) PROVE Owners'
  BY <1>22 DEF ShutdownTraces, MayFail
<1>23. ASSUME NEW d \in Shutdowns, ShutdownMonitor(d) PROVE Owners'
  BY <1>23 DEF ShutdownMonitor, MayFail
<1>24. ASSUME NEW d \in Shutdowns, ResetGlobal(d) PROVE Owners'
  BY <1>24 DEF ResetGlobal
<1>25. CASE InstallForeign
  BY <1>25 DEF InstallForeign
<1>26. CASE UNCHANGED vars
  BY <1>26 DEF vars
<1>. QED BY <1>1, <1>2, <1>3, <1>4, <1>5, <1>6, <1>7, <1>8, <1>9, <1>10,
          <1>11, <1>12, <1>13, <1>14, <1>15, <1>16, <1>17, <1>18, <1>19,
          <1>20, <1>21, <1>22, <1>23, <1>24, <1>25, <1>26
  DEF Next, StartStep, ShutdownStep

-----------------------------------------------------------------------------
(* The three steps of a Shutdown that release something touch one part of the  *)
(* generation it took, and only shut it.                                       *)

Releases(d) == ShutdownMetrics(d) \/ ShutdownTraces(d) \/ ShutdownMonitor(d)

(* A step of Shutdown that releases touches its own generation only.           *)
LEMMA ReleaseFrame ==
  ASSUME TypeOK, NEW d \in Shutdowns, Releases(d)
  PROVE  /\ UNCHANGED <<cfg, fields, globalTP>>
         /\ call[d].gen \in Starts
         /\ \A s \in Starts : pc'[s] = pc[s]
         /\ \A x \in Shutdowns : call'[x].gen = call[x].gen /\ call'[x].trace = call[x].trace
         /\ \A s \in Starts : gen'[s].detector = gen[s].detector
                              /\ gen'[s].stopped = gen[s].stopped
         /\ \A s \in Starts : s # call[d].gen => gen'[s] = gen[s]
<1>. USE CallsAssumption DEF TypeOK, Goto, CallType, GenType, Draining
<1>1. CASE ShutdownMetrics(d)
  BY <1>1 DEF ShutdownMetrics, MayFail
<1>2. CASE ShutdownTraces(d)
  BY <1>2 DEF ShutdownTraces, MayFail
<1>3. CASE ShutdownMonitor(d)
  BY <1>3 DEF ShutdownMonitor, MayFail
<1>. QED BY <1>1, <1>2, <1>3 DEF Releases

(* It opens nothing.                                                           *)
LEMMA ReleaseShuts ==
  ASSUME TypeOK, NEW d \in Shutdowns, Releases(d), NEW s \in Starts
  PROVE  /\ MetricsOpen(s)' => MetricsOpen(s)
         /\ TracerOpen(s)' => TracerOpen(s)
         /\ MonitorOpen(s)' => MonitorOpen(s)
<1>. USE CallsAssumption
     DEF TypeOK, GenType, MetricsOpen, TracerOpen, MonitorOpen, Down, Closed
<1>1. CASE ShutdownMetrics(d)
  BY <1>1 DEF ShutdownMetrics
<1>2. CASE ShutdownTraces(d)
  BY <1>2 DEF ShutdownTraces
<1>3. CASE ShutdownMonitor(d)
  BY <1>3 DEF ShutdownMonitor
<1>. QED BY <1>1, <1>2, <1>3 DEF Releases

-----------------------------------------------------------------------------
(* What a generation consists of while it is built and unwound.              *)

(* A release is of a generation that is past its stages.                       *)
LEMMA StagesRelease ==
  ASSUME TypeOK, Owners, Stages, NEW d \in Shutdowns, Releases(d)
  PROVE  Stages'
<1>1. PICK g \in Starts : g = call[d].gen
  BY ReleaseFrame
<1>2. pc[g] \in {"activate", "done"}
  BY <1>1, CallsAssumption DEF Owners
<1>3. /\ cfg' = cfg /\ holder' = holder
      /\ \A s \in Starts : pc'[s] = pc[s]
      /\ \A s \in Starts : gen'[s].detector = gen[s].detector
                           /\ gen'[s].stopped = gen[s].stopped
      /\ \A s \in Starts : s # g => gen'[s] = gen[s]
  BY <1>1, ReleaseFrame DEF fields
<1>4. \A s \in Starts : Taken(s)' <=> Taken(s)
  BY ReleaseFrame DEF Taken
<1>5. ASSUME NEW s \in Starts PROVE StageOf(s)'
  <2>1. StageOf(s)
    BY DEF Stages
  <2>2. CASE s # g
    <3>1. gen'[s] = gen[s] /\ pc'[s] = pc[s] /\ (Taken(s)' <=> Taken(s))
      BY <1>3, <1>4, <2>2
    <3>2. /\ MonitorOpen(s)' <=> MonitorOpen(s)
          /\ NothingOpen(s)' <=> NothingOpen(s)
      BY <3>1 DEF NothingOpen, MetricsOpen, TracerOpen, MonitorOpen
    <3>3. MetricPipeline' = MetricPipeline /\ TracePipeline' = TracePipeline
      BY <1>3 DEF MetricPipeline, TracePipeline, InstallsTraces
    <3>. QED BY <1>3, <2>1, <3>1, <3>2, <3>3 DEF StageOf
  <2>3. CASE s = g
    <3>1. /\ pc'[s] = pc[s] /\ (Taken(s)' <=> Taken(s))
          /\ gen'[s].detector = gen[s].detector /\ gen'[s].stopped = gen[s].stopped
      BY <1>3, <1>4
    <3>2. NothingOpen(s) => NothingOpen(s)'
      BY ReleaseShuts DEF NothingOpen
    <3>. QED BY <1>2, <1>3, <2>1, <2>3, <3>1, <3>2 DEF StageOf, Building, Failing
  <2>. QED BY <2>2, <2>3
<1>. QED BY <1>5 DEF Stages

(* Every step keeps Stages.                                                    *)
LEMMA StagesStep ==
  ASSUME TypeOK, Owners, Stages, TypeOK', [Next]_vars
  PROVE  Stages'
<1>. USE CallsAssumption
<1>. USE DEF TypeOK, Owners, Stages, StageOf, Skip, Goto, fields, StartPC, ShutdownPC,
             Building, Losing, Failing, Returned, Draining, Taken,
             NothingOpen, MetricsOpen, TracerOpen, MonitorOpen, GenType,
             CallType, Down, Closed, Started, MetricPipeline, TracePipeline,
             InstallsTraces
<1>1. ASSUME NEW s \in Starts, StartCheck(s) PROVE Stages'
  BY <1>1 DEF StartCheck
<1>2. ASSUME NEW s \in Starts, InitProviders(s) PROVE Stages'
  BY <1>2 DEF InitProviders
<1>3. ASSUME NEW s \in Starts, InitFails(s) PROVE Stages'
  BY <1>3 DEF InitFails
<1>4. ASSUME NEW s \in Starts, SkipMonitor(s) PROVE Stages'
  BY <1>4 DEF SkipMonitor
<1>5. ASSUME NEW s \in Starts, Listen(s) PROVE Stages'
  BY <1>5 DEF Listen
<1>6. ASSUME NEW s \in Starts, ListenFails(s) PROVE Stages'
  BY <1>6 DEF ListenFails
<1>7. ASSUME NEW s \in Starts, Commit(s) PROVE Stages'
  BY <1>7 DEF Commit, Install
<1>8. ASSUME NEW s \in Starts, LoseRace(s) PROVE Stages'
  BY <1>8 DEF LoseRace
<1>9. ASSUME NEW s \in Starts, Activate(s) PROVE Stages'
  BY <1>9 DEF Activate
<1>10. ASSUME NEW s \in Starts, RollbackMonitor(s) PROVE Stages'
  BY <1>10 DEF RollbackMonitor
<1>11. ASSUME NEW s \in Starts, RollbackProviders(s) PROVE Stages'
  BY <1>11 DEF RollbackProviders
<1>12. ASSUME NEW s \in Starts, RollbackGlobal(s) PROVE Stages'
  BY <1>12 DEF RollbackGlobal
<1>13. ASSUME NEW s \in Starts, ClearInstall(s) PROVE Stages'
  BY <1>13 DEF ClearInstall
<1>14. ASSUME NEW s \in Starts, DetectorExits(s) PROVE Stages'
  BY <1>14 DEF DetectorExits
<1>15. ASSUME NEW s \in Starts, Serve(s) PROVE Stages'
  BY <1>15 DEF Serve
<1>16. ASSUME NEW d \in Shutdowns, ShutdownNoop(d) PROVE Stages'
  BY <1>16 DEF ShutdownNoop
<1>17. ASSUME NEW d \in Shutdowns, ShutdownSwap(d) PROVE Stages'
  BY <1>17 DEF ShutdownSwap, BeginShutdown, Take
<1>18. ASSUME NEW d \in Shutdowns, CloseStop(d) PROVE Stages'
  BY <1>18 DEF CloseStop
<1>19. ASSUME NEW d \in Shutdowns, SkipStop(d) PROVE Stages'
  BY <1>19 DEF SkipStop
<1>20. ASSUME NEW d \in Shutdowns, WaitStop(d) PROVE Stages'
  BY <1>20 DEF WaitStop
<1>21. ASSUME NEW d \in Shutdowns, Releases(d) PROVE Stages'
  BY <1>21, StagesRelease
<1>24. ASSUME NEW d \in Shutdowns, ResetGlobal(d) PROVE Stages'
  BY <1>24 DEF ResetGlobal
<1>25. CASE InstallForeign
  BY <1>25 DEF InstallForeign
<1>26. CASE UNCHANGED vars
  BY <1>26 DEF vars
<1>. QED
  <2>. HIDE DEF TypeOK, Owners, Stages, StageOf
  <2>. QED
    BY <1>1, <1>2, <1>3, <1>4, <1>5, <1>6, <1>7, <1>8, <1>9, <1>10,
       <1>11, <1>12, <1>13, <1>14, <1>15, <1>16, <1>17, <1>18, <1>19,
       <1>20, <1>21, <1>24, <1>25, <1>26
    DEF Next, StartStep, ShutdownStep, Releases

-----------------------------------------------------------------------------
(* What t holds is whole.                                                    *)

(* The generation of providers the application gave.                           *)
LEMMA GivenFields ==
  /\ GivenProviders \in GenType
  /\ GivenProviders.metrics = "given" /\ GivenProviders.tracer = "given"
  /\ GivenProviders.listener = "none" /\ GivenProviders.detector = "none"
  /\ GivenProviders.stopped = FALSE
BY DEF GivenProviders, NoResources, GenType

(* What a Shutdown releases, t no longer holds.                                *)
LEMMA RunningIntactRelease ==
  ASSUME TypeOK, Owners, RunningIntact, NEW d \in Shutdowns, Releases(d)
  PROVE  RunningIntact'
<1>1. /\ cfg' = cfg /\ started' = started /\ holder' = holder
      /\ \A s \in Starts : pc'[s] = pc[s]
      /\ \A s \in Starts : s # call[d].gen => gen'[s] = gen[s]
      /\ call[d].gen \in Starts
  BY ReleaseFrame DEF fields
<1>2. MetricPipeline' = MetricPipeline /\ TracePipeline' = TracePipeline
  BY <1>1 DEF MetricPipeline, TracePipeline, InstallsTraces
<1>3. started => holder \in Starts /\ holder # call[d].gen
  BY <1>1, CallsAssumption DEF TypeOK, Owners
<1>4. started => gen'[holder] = gen[holder] /\ pc'[holder] = pc[holder]
  BY <1>1, <1>3
<1>. QED BY <1>1, <1>2, <1>4 DEF RunningIntact

(* Every step keeps RunningIntact.                                             *)
LEMMA RunningIntactStep ==
  ASSUME TypeOK, Owners, Stages, RunningIntact, TypeOK', [Next]_vars
  PROVE  RunningIntact'
<1>. USE CallsAssumption
<1>. USE DEF TypeOK, Owners, Stages, StageOf, RunningIntact, Skip, Goto, fields,
             StartPC, ShutdownPC, Building, Losing, Failing, Returned,
             Draining, GenType, CallType, Down, Closed, Started,
             MetricPipeline, TracePipeline, InstallsTraces
<1>1. ASSUME NEW s \in Starts, StartCheck(s) PROVE RunningIntact'
  BY <1>1 DEF StartCheck
<1>2. ASSUME NEW s \in Starts, InitProviders(s) PROVE RunningIntact'
  BY <1>2 DEF InitProviders
<1>3. ASSUME NEW s \in Starts, InitFails(s) PROVE RunningIntact'
  BY <1>3 DEF InitFails
<1>4. ASSUME NEW s \in Starts, SkipMonitor(s) PROVE RunningIntact'
  BY <1>4 DEF SkipMonitor
<1>5. ASSUME NEW s \in Starts, Listen(s) PROVE RunningIntact'
  BY <1>5 DEF Listen
<1>6. ASSUME NEW s \in Starts, ListenFails(s) PROVE RunningIntact'
  BY <1>6 DEF ListenFails
<1>7. ASSUME NEW s \in Starts, Commit(s) PROVE RunningIntact'
  BY <1>7 DEF Commit, Install
<1>8. ASSUME NEW s \in Starts, LoseRace(s) PROVE RunningIntact'
  BY <1>8 DEF LoseRace
<1>9. ASSUME NEW s \in Starts, Activate(s) PROVE RunningIntact'
  <2>1. CASE holder # s
    BY <1>9, <2>1 DEF Activate
  <2>2. CASE holder = s
    BY <1>9, <2>2 DEF Activate
  <2>. QED BY <2>1, <2>2
<1>10. ASSUME NEW s \in Starts, RollbackMonitor(s) PROVE RunningIntact'
  BY <1>10 DEF RollbackMonitor
<1>11. ASSUME NEW s \in Starts, RollbackProviders(s) PROVE RunningIntact'
  BY <1>11 DEF RollbackProviders
<1>12. ASSUME NEW s \in Starts, RollbackGlobal(s) PROVE RunningIntact'
  BY <1>12 DEF RollbackGlobal
<1>13. ASSUME NEW s \in Starts, ClearInstall(s) PROVE RunningIntact'
  BY <1>13 DEF ClearInstall
<1>14. ASSUME NEW s \in Starts, DetectorExits(s) PROVE RunningIntact'
  BY <1>14, GivenFields DEF DetectorExits
<1>15. ASSUME NEW s \in Starts, Serve(s) PROVE RunningIntact'
  BY <1>15, GivenFields DEF Serve
<1>16. ASSUME NEW d \in Shutdowns, ShutdownNoop(d) PROVE RunningIntact'
  BY <1>16 DEF ShutdownNoop
<1>17. ASSUME NEW d \in Shutdowns, ShutdownSwap(d) PROVE RunningIntact'
  BY <1>17 DEF ShutdownSwap, BeginShutdown, Take
<1>18. ASSUME NEW d \in Shutdowns, CloseStop(d) PROVE RunningIntact'
  BY <1>18 DEF CloseStop
<1>19. ASSUME NEW d \in Shutdowns, SkipStop(d) PROVE RunningIntact'
  BY <1>19 DEF SkipStop
<1>20. ASSUME NEW d \in Shutdowns, WaitStop(d) PROVE RunningIntact'
  BY <1>20 DEF WaitStop
<1>21. ASSUME NEW d \in Shutdowns, Releases(d) PROVE RunningIntact'
  BY <1>21, RunningIntactRelease
<1>24. ASSUME NEW d \in Shutdowns, ResetGlobal(d) PROVE RunningIntact'
  BY <1>24 DEF ResetGlobal
<1>25. CASE InstallForeign
  BY <1>25 DEF InstallForeign
<1>26. CASE UNCHANGED vars
  BY <1>26 DEF vars
<1>. QED
  <2>. HIDE DEF TypeOK, Owners, Stages, StageOf, RunningIntact
  <2>. QED
    BY <1>1, <1>2, <1>3, <1>4, <1>5, <1>6, <1>7, <1>8, <1>9, <1>10,
       <1>11, <1>12, <1>13, <1>14, <1>15, <1>16, <1>17, <1>18, <1>19,
       <1>20, <1>21, <1>24, <1>25, <1>26
    DEF Next, StartStep, ShutdownStep, Releases

-----------------------------------------------------------------------------
(* How far each Shutdown has come.                                           *)

(* Steps that leave the calls of Shutdown and the providers alone.             *)
LEMMA DrainedAnyway ==
  ASSUME Drained, UNCHANGED call, \A x \in Shutdowns : pc'[x] = pc[x],
         \A x \in Starts : /\ gen'[x].stopped = gen[x].stopped
                           /\ gen'[x].detector = gen[x].detector
                           /\ gen'[x].metrics = gen[x].metrics
                           /\ gen'[x].tracer = gen[x].tracer
                           /\ MonitorOpen(x)' => MonitorOpen(x)
  PROVE  Drained'
<1>1. ASSUME NEW x \in Shutdowns, NEW y \in Starts, call[x].gen = y
      PROVE  DrainedTo(x, y)'
  <2>1. DrainedTo(x, y)
    BY <1>1 DEF Drained
  <2>2. /\ pc'[x] = pc[x]
        /\ gen'[y].stopped = gen[y].stopped /\ gen'[y].detector = gen[y].detector
        /\ MetricsOpen(y)' => MetricsOpen(y)
        /\ TracerOpen(y)' => TracerOpen(y)
        /\ MonitorOpen(y)' => MonitorOpen(y)
    BY DEF MetricsOpen, TracerOpen, MonitorOpen
  <2>. QED BY <2>1, <2>2 DEF DrainedTo
<1>. QED BY <1>1 DEF Drained

(* The steps of Shutdown that release.                                         *)
LEMMA DrainedRelease ==
  ASSUME TypeOK, Drained, NEW d \in Shutdowns, Releases(d)
  PROVE  Drained'
<1>1. PICK g \in Starts : g = call[d].gen
  BY ReleaseFrame
<1>2. /\ \A x \in Shutdowns : call'[x].gen = call[x].gen
      /\ \A s \in Starts : gen'[s].detector = gen[s].detector
                           /\ gen'[s].stopped = gen[s].stopped
  BY ReleaseFrame
<1>3. /\ \A x \in Shutdowns : x # d => pc'[x] = pc[x]
      /\ \/ pc[d] = "metrics" /\ pc'[d] = "traces" /\ ~MetricsOpen(g)'
         \/ pc[d] = "traces" /\ pc'[d] = "monitor" /\ ~TracerOpen(g)'
         \/ pc[d] = "monitor" /\ pc'[d] = "global" /\ ~MonitorOpen(g)'
  <2>. USE <1>1 DEF TypeOK, GenType, Goto
  <2>1. CASE ShutdownMetrics(d)
    BY <2>1 DEF ShutdownMetrics, MetricsOpen, Down
  <2>2. CASE ShutdownTraces(d)
    BY <2>2 DEF ShutdownTraces, TracerOpen, Down
  <2>3. CASE ShutdownMonitor(d)
    BY <2>3 DEF ShutdownMonitor, MonitorOpen, Closed
  <2>. QED BY <2>1, <2>2, <2>3 DEF Releases
<1>4. ASSUME NEW x \in Shutdowns, NEW s \in Starts, call[x].gen = s
      PROVE  DrainedTo(x, s)'
  <2>1. DrainedTo(x, s)
    BY <1>4 DEF Drained
  <2>2. /\ MetricsOpen(s)' => MetricsOpen(s)
        /\ TracerOpen(s)' => TracerOpen(s)
        /\ MonitorOpen(s)' => MonitorOpen(s)
    BY ReleaseShuts
  <2>3. CASE x # d
    BY <1>2, <1>3, <2>1, <2>2, <2>3 DEF DrainedTo
  <2>4. CASE x = d
    <3>1. s = g
      BY <1>1, <1>4, <2>4
    <3>. QED BY <1>2, <1>3, <2>1, <2>2, <2>4, <3>1 DEF DrainedTo
  <2>. QED BY <2>3, <2>4
<1>. QED BY <1>2, <1>4 DEF Drained

(* Every step keeps Drained.                                                   *)
LEMMA DrainedStep ==
  ASSUME TypeOK, Owners, Stages, RunningIntact, Drained, TypeOK', [Next]_vars
  PROVE  Drained'
<1>. USE CallsAssumption
<1>. USE DEF TypeOK, Owners, Stages, StageOf, RunningIntact, Drained, DrainedTo, Skip,
             Goto, fields, StartPC, ShutdownPC, Building, Losing, Failing, Returned,
             Draining, MetricsOpen, TracerOpen, MonitorOpen, GenType,
             CallType, Down, Closed, Started
<1>1. ASSUME NEW s \in Starts, StartCheck(s) PROVE Drained'
  BY <1>1 DEF StartCheck
<1>2. ASSUME NEW s \in Starts, InitProviders(s) PROVE Drained'
  BY <1>2 DEF InitProviders
<1>3. ASSUME NEW s \in Starts, InitFails(s) PROVE Drained'
  BY <1>3 DEF InitFails
<1>4. ASSUME NEW s \in Starts, SkipMonitor(s) PROVE Drained'
  BY <1>4 DEF SkipMonitor
<1>5. ASSUME NEW s \in Starts, Listen(s) PROVE Drained'
  BY <1>5 DEF Listen
<1>6. ASSUME NEW s \in Starts, ListenFails(s) PROVE Drained'
  BY <1>6 DEF ListenFails
<1>7. ASSUME NEW s \in Starts, Commit(s) PROVE Drained'
  BY <1>7 DEF Commit, Install
<1>8. ASSUME NEW s \in Starts, LoseRace(s) PROVE Drained'
  BY <1>8 DEF LoseRace
<1>9. ASSUME NEW s \in Starts, Activate(s) PROVE Drained'
  <2>1. /\ UNCHANGED call
        /\ \A x \in Shutdowns : pc'[x] = pc[x]
    BY <1>9 DEF Activate
  <2>2. \A x \in Starts : /\ gen'[x].stopped = gen[x].stopped
                          /\ gen'[x].metrics = gen[x].metrics
                          /\ gen'[x].tracer = gen[x].tracer
                          /\ gen'[x].listener = gen[x].listener
                          /\ gen'[x].detector = IF x = s THEN Started(gen[x].detector)
                                                ELSE gen[x].detector
    BY <1>9 DEF Activate
  <2>. QED BY <2>1, <2>2
<1>10. ASSUME NEW s \in Starts, RollbackMonitor(s) PROVE Drained'
  <2>1. UNCHANGED call /\ \A x \in Shutdowns : pc'[x] = pc[x]
    BY <1>10 DEF RollbackMonitor
  <2>2. \A x \in Starts : /\ gen'[x].stopped = gen[x].stopped
                          /\ gen'[x].detector = gen[x].detector
                          /\ gen'[x].metrics = gen[x].metrics
                          /\ gen'[x].tracer = gen[x].tracer
                          /\ MonitorOpen(x)' => MonitorOpen(x)
    BY <1>10 DEF RollbackMonitor
  <2>. HIDE DEF Drained, MonitorOpen
  <2>. QED BY <2>1, <2>2, DrainedAnyway
<1>11. ASSUME NEW s \in Starts, RollbackProviders(s) PROVE Drained'
  BY <1>11 DEF RollbackProviders
<1>12. ASSUME NEW s \in Starts, RollbackGlobal(s) PROVE Drained'
  BY <1>12 DEF RollbackGlobal
<1>13. ASSUME NEW s \in Starts, ClearInstall(s) PROVE Drained'
  BY <1>13 DEF ClearInstall
<1>14. ASSUME NEW s \in Starts, DetectorExits(s) PROVE Drained'
  BY <1>14 DEF DetectorExits
<1>15. ASSUME NEW s \in Starts, Serve(s) PROVE Drained'
  BY <1>15 DEF Serve
<1>16. ASSUME NEW d \in Shutdowns, ShutdownNoop(d) PROVE Drained'
  BY <1>16 DEF ShutdownNoop
<1>17. ASSUME NEW d \in Shutdowns, ShutdownSwap(d) PROVE Drained'
  BY <1>17, GivenFields DEF ShutdownSwap, BeginShutdown, Take
<1>18. ASSUME NEW d \in Shutdowns, CloseStop(d) PROVE Drained'
  BY <1>18 DEF CloseStop
<1>19. ASSUME NEW d \in Shutdowns, SkipStop(d) PROVE Drained'
  BY <1>19 DEF SkipStop
<1>20. ASSUME NEW d \in Shutdowns, WaitStop(d) PROVE Drained'
  BY <1>20 DEF WaitStop
<1>21. ASSUME NEW d \in Shutdowns, Releases(d) PROVE Drained'
  BY <1>21, DrainedRelease
<1>24. ASSUME NEW d \in Shutdowns, ResetGlobal(d) PROVE Drained'
  BY <1>24 DEF ResetGlobal
<1>25. CASE InstallForeign
  BY <1>25 DEF InstallForeign
<1>26. CASE UNCHANGED vars
  BY <1>26 DEF vars
<1>. QED
  <2>. HIDE DEF TypeOK, Owners, Stages, StageOf, RunningIntact, Drained, DrainedTo
  <2>. QED
    BY <1>1, <1>2, <1>3, <1>4, <1>5, <1>6, <1>7, <1>8, <1>9, <1>10,
       <1>11, <1>12, <1>13, <1>14, <1>15, <1>16, <1>17, <1>18, <1>19,
       <1>20, <1>21, <1>24, <1>25, <1>26
    DEF Next, StartStep, ShutdownStep, Releases

-----------------------------------------------------------------------------
(* Only tracing configurations install a provider.                           *)

(* Every step keeps GlobalInstalled.                                           *)
LEMMA GlobalInstalledStep ==
  ASSUME TypeOK, GlobalInstalled, TypeOK', [Next]_vars
  PROVE  GlobalInstalled'
<1>. USE CallsAssumption
<1>. USE DEF TypeOK, GlobalInstalled, Skip, Goto, fields, StartPC, ShutdownPC,
             Building, Losing, Failing, Returned, Draining, InstallsTraces
<1>1. ASSUME NEW s \in Starts, StartCheck(s) PROVE GlobalInstalled'
  BY <1>1 DEF StartCheck
<1>2. ASSUME NEW s \in Starts, InitProviders(s) PROVE GlobalInstalled'
  BY <1>2 DEF InitProviders
<1>3. ASSUME NEW s \in Starts, InitFails(s) PROVE GlobalInstalled'
  BY <1>3 DEF InitFails
<1>4. ASSUME NEW s \in Starts, SkipMonitor(s) PROVE GlobalInstalled'
  BY <1>4 DEF SkipMonitor
<1>5. ASSUME NEW s \in Starts, Listen(s) PROVE GlobalInstalled'
  BY <1>5 DEF Listen
<1>6. ASSUME NEW s \in Starts, ListenFails(s) PROVE GlobalInstalled'
  BY <1>6 DEF ListenFails
<1>7. ASSUME NEW s \in Starts, Commit(s) PROVE GlobalInstalled'
  BY <1>7 DEF Commit, Install
<1>8. ASSUME NEW s \in Starts, LoseRace(s) PROVE GlobalInstalled'
  BY <1>8 DEF LoseRace
<1>9. ASSUME NEW s \in Starts, Activate(s) PROVE GlobalInstalled'
  BY <1>9 DEF Activate
<1>10. ASSUME NEW s \in Starts, RollbackMonitor(s) PROVE GlobalInstalled'
  BY <1>10 DEF RollbackMonitor
<1>11. ASSUME NEW s \in Starts, RollbackProviders(s) PROVE GlobalInstalled'
  BY <1>11 DEF RollbackProviders
<1>12. ASSUME NEW s \in Starts, RollbackGlobal(s) PROVE GlobalInstalled'
  BY <1>12 DEF RollbackGlobal
<1>13. ASSUME NEW s \in Starts, ClearInstall(s) PROVE GlobalInstalled'
  BY <1>13 DEF ClearInstall
<1>14. ASSUME NEW s \in Starts, DetectorExits(s) PROVE GlobalInstalled'
  BY <1>14 DEF DetectorExits
<1>15. ASSUME NEW s \in Starts, Serve(s) PROVE GlobalInstalled'
  BY <1>15 DEF Serve
<1>16. ASSUME NEW d \in Shutdowns, ShutdownNoop(d) PROVE GlobalInstalled'
  BY <1>16 DEF ShutdownNoop
<1>17. ASSUME NEW d \in Shutdowns, ShutdownSwap(d) PROVE GlobalInstalled'
  BY <1>17 DEF ShutdownSwap, BeginShutdown, Take
<1>18. ASSUME NEW d \in Shutdowns, CloseStop(d) PROVE GlobalInstalled'
  BY <1>18 DEF CloseStop
<1>19. ASSUME NEW d \in Shutdowns, SkipStop(d) PROVE GlobalInstalled'
  BY <1>19 DEF SkipStop
<1>20. ASSUME NEW d \in Shutdowns, WaitStop(d) PROVE GlobalInstalled'
  BY <1>20 DEF WaitStop
<1>21. ASSUME NEW d \in Shutdowns, ShutdownMetrics(d) PROVE GlobalInstalled'
  BY <1>21 DEF ShutdownMetrics, MayFail
<1>22. ASSUME NEW d \in Shutdowns, ShutdownTraces(d) PROVE GlobalInstalled'
  BY <1>22 DEF ShutdownTraces, MayFail
<1>23. ASSUME NEW d \in Shutdowns, ShutdownMonitor(d) PROVE GlobalInstalled'
  BY <1>23 DEF ShutdownMonitor, MayFail
<1>24. ASSUME NEW d \in Shutdowns, ResetGlobal(d) PROVE GlobalInstalled'
  BY <1>24 DEF ResetGlobal
<1>25. CASE InstallForeign
  BY <1>25 DEF InstallForeign
<1>26. CASE UNCHANGED vars
  BY <1>26 DEF vars
<1>. QED BY <1>1, <1>2, <1>3, <1>4, <1>5, <1>6, <1>7, <1>8, <1>9, <1>10,
          <1>11, <1>12, <1>13, <1>14, <1>15, <1>16, <1>17, <1>18, <1>19,
          <1>20, <1>21, <1>22, <1>23, <1>24, <1>25, <1>26
  DEF Next, StartStep, ShutdownStep

-----------------------------------------------------------------------------
(* Whose provider is installed.                                              *)

(* Every step keeps NoStickyGlobal.                                            *)
LEMMA NoStickyGlobalStep ==
  ASSUME TypeOK, Owners, GlobalInstalled, NoStickyGlobal, TypeOK', [Next]_vars
  PROVE  NoStickyGlobal'
<1>. USE CallsAssumption
<1>. USE DEF TypeOK, Owners, GlobalInstalled, NoStickyGlobal, Skip, Goto,
             fields, StartPC, ShutdownPC, Building, Losing, Failing, Returned,
             Draining, InstallsTraces, CallType
<1>1. ASSUME NEW s \in Starts, StartCheck(s) PROVE NoStickyGlobal'
  BY <1>1 DEF StartCheck
<1>2. ASSUME NEW s \in Starts, InitProviders(s) PROVE NoStickyGlobal'
  BY <1>2 DEF InitProviders
<1>3. ASSUME NEW s \in Starts, InitFails(s) PROVE NoStickyGlobal'
  BY <1>3 DEF InitFails
<1>4. ASSUME NEW s \in Starts, SkipMonitor(s) PROVE NoStickyGlobal'
  BY <1>4 DEF SkipMonitor
<1>5. ASSUME NEW s \in Starts, Listen(s) PROVE NoStickyGlobal'
  BY <1>5 DEF Listen
<1>6. ASSUME NEW s \in Starts, ListenFails(s) PROVE NoStickyGlobal'
  BY <1>6 DEF ListenFails
<1>7. ASSUME NEW s \in Starts, Commit(s) PROVE NoStickyGlobal'
  <2>1. globalTP = s => InstallsTraces
    BY DEF GlobalInstalled
  <2>2. globalTP = s => traceInstalled' /\ holder' = s
    BY <1>7, <2>1 DEF Commit, Install
  <2>3. ASSUME NEW x \in Starts, globalTP' = x, x # s
        PROVE  \/ holder' = x /\ traceInstalled'
               \/ pc'[x] \in Building \cup Losing \cup {"failProviders", "failGlobal"}
               \/ \E d \in Shutdowns :
                     call'[d].gen = x /\ call'[d].trace /\ pc'[d] \in Draining
    BY <1>7, <2>3 DEF Commit, Install
  <2>. QED BY <1>7, <2>2, <2>3 DEF Commit, Install
<1>8. ASSUME NEW s \in Starts, LoseRace(s) PROVE NoStickyGlobal'
  BY <1>8 DEF LoseRace
<1>9. ASSUME NEW s \in Starts, Activate(s) PROVE NoStickyGlobal'
  BY <1>9 DEF Activate
<1>10. ASSUME NEW s \in Starts, RollbackMonitor(s) PROVE NoStickyGlobal'
  BY <1>10 DEF RollbackMonitor
<1>11. ASSUME NEW s \in Starts, RollbackProviders(s) PROVE NoStickyGlobal'
  BY <1>11 DEF RollbackProviders
<1>12. ASSUME NEW s \in Starts, RollbackGlobal(s) PROVE NoStickyGlobal'
  BY <1>12 DEF RollbackGlobal
<1>13. ASSUME NEW s \in Starts, ClearInstall(s) PROVE NoStickyGlobal'
  BY <1>13 DEF ClearInstall
<1>14. ASSUME NEW s \in Starts, DetectorExits(s) PROVE NoStickyGlobal'
  BY <1>14 DEF DetectorExits
<1>15. ASSUME NEW s \in Starts, Serve(s) PROVE NoStickyGlobal'
  BY <1>15 DEF Serve
<1>16. ASSUME NEW d \in Shutdowns, ShutdownNoop(d) PROVE NoStickyGlobal'
  BY <1>16 DEF ShutdownNoop
<1>17. ASSUME NEW d \in Shutdowns, ShutdownSwap(d) PROVE NoStickyGlobal'
  BY <1>17 DEF ShutdownSwap, BeginShutdown, Take
<1>18. ASSUME NEW d \in Shutdowns, CloseStop(d) PROVE NoStickyGlobal'
  BY <1>18 DEF CloseStop
<1>19. ASSUME NEW d \in Shutdowns, SkipStop(d) PROVE NoStickyGlobal'
  BY <1>19 DEF SkipStop
<1>20. ASSUME NEW d \in Shutdowns, WaitStop(d) PROVE NoStickyGlobal'
  BY <1>20 DEF WaitStop
<1>21. ASSUME NEW d \in Shutdowns, ShutdownMetrics(d) PROVE NoStickyGlobal'
  BY <1>21 DEF ShutdownMetrics, MayFail
<1>22. ASSUME NEW d \in Shutdowns, ShutdownTraces(d) PROVE NoStickyGlobal'
  BY <1>22 DEF ShutdownTraces, MayFail
<1>23. ASSUME NEW d \in Shutdowns, ShutdownMonitor(d) PROVE NoStickyGlobal'
  BY <1>23 DEF ShutdownMonitor, MayFail
<1>24. ASSUME NEW d \in Shutdowns, ResetGlobal(d) PROVE NoStickyGlobal'
  BY <1>24 DEF ResetGlobal
<1>25. CASE InstallForeign
  BY <1>25 DEF InstallForeign
<1>26. CASE UNCHANGED vars
  BY <1>26 DEF vars
<1>. QED BY <1>1, <1>2, <1>3, <1>4, <1>5, <1>6, <1>7, <1>8, <1>9, <1>10,
          <1>11, <1>12, <1>13, <1>14, <1>15, <1>16, <1>17, <1>18, <1>19,
          <1>20, <1>21, <1>22, <1>23, <1>24, <1>25, <1>26
  DEF Next, StartStep, ShutdownStep

-----------------------------------------------------------------------------
(* The invariant holds at first, every step preserves it, and the properties   *)
(* of Lifecycle follow from it.                                                *)

(* New, before any call.                                                       *)
LEMMA NewInv == Init /\ New => IInv
<1>. SUFFICES ASSUME Init, New PROVE IInv
  OBVIOUS
<1>. USE CallsAssumption DEF Init, New
<1>1. TypeOK
  BY ConfigsAssumption
     DEF TypeOK, NoResources, GenType, CallType, StartPC, ShutdownPC, Draining
<1>2. Owners /\ Drained
  BY DEF Owners, Drained, DrainedTo
<1>3. Stages
  BY DEF Stages, StageOf, NoResources, NothingOpen, MetricsOpen, TracerOpen, MonitorOpen,
         Building, Failing
<1>4. RunningIntact /\ GlobalInstalled /\ NoStickyGlobal
  BY DEF RunningIntact, GlobalInstalled, NoStickyGlobal
<1>. QED BY <1>1, <1>2, <1>3, <1>4 DEF IInv

(* NewWithProviders, before any call.                                          *)
LEMMA GivenInv == ASSUME NEW p \in Starts PROVE Init /\ NewWithProviders(p) => IInv
<1>. SUFFICES ASSUME Init, NewWithProviders(p) PROVE IInv
  OBVIOUS
<1>. USE CallsAssumption, GivenFields DEF NewWithProviders
<1>c. /\ cfg \in Configs /\ epoch = 0 /\ traceInstalled = FALSE /\ globalTP = None
      /\ call = [d \in Shutdowns |-> [gen |-> None, trace |-> FALSE, err |-> "nil"]]
  BY DEF Init
<1>g. /\ NoResources \in GenType
      /\ \A s \in Starts : gen[s] = IF s = p THEN GivenProviders ELSE NoResources
  BY DEF NoResources, GenType
<1>p. /\ \A s \in Starts : pc[s] = IF s = p THEN "done" ELSE "idle"
      /\ \A d \in Shutdowns : pc[d] = "idle"
  OBVIOUS
<1>1. TypeOK
  <2>1. gen \in [Starts -> GenType]
    BY <1>g
  <2>2. call \in [Shutdowns -> CallType]
    BY <1>c DEF CallType
  <2>3. pc \in [Starts \cup Shutdowns -> StartPC \cup ShutdownPC]
    BY DEF StartPC, ShutdownPC, Returned
  <2>4. /\ \A s \in Starts : pc[s] \in StartPC
        /\ \A d \in Shutdowns : pc[d] \in ShutdownPC /\ pc[d] \notin Draining
    BY <1>p DEF StartPC, ShutdownPC, Returned, Draining
  <2>. QED BY <1>c, <2>1, <2>2, <2>3, <2>4 DEF TypeOK
<1>2. Owners /\ Drained
  BY <1>c, <1>p DEF Owners, Drained, DrainedTo
<1>3. ASSUME NEW s \in Starts PROVE StageOf(s)
  <2>1. CASE s = p
    BY <1>g, <1>p, <2>1 DEF StageOf, NothingOpen, MetricsOpen, TracerOpen, MonitorOpen,
                            Building, Failing
  <2>2. CASE s # p
    BY <1>g, <1>p, <2>2 DEF StageOf, NoResources, NothingOpen, MetricsOpen, TracerOpen,
                            MonitorOpen, Building, Failing
  <2>. QED BY <2>1, <2>2
<1>4. RunningIntact /\ GlobalInstalled /\ NoStickyGlobal
  BY <1>c, <1>g, <1>p DEF RunningIntact, GlobalInstalled, NoStickyGlobal
<1>. QED BY <1>1, <1>2, <1>3, <1>4 DEF IInv, Stages

(* The two ways a Telemetry begins.                                            *)
LEMMA InitInv == Init => IInv
BY NewInv, GivenInv DEF Init

(* The inductive step.                                                         *)
LEMMA StepInv == IInv /\ [Next]_vars => IInv'
<1>. SUFFICES ASSUME IInv, [Next]_vars PROVE IInv'
  OBVIOUS
<1>. USE DEF IInv
<1>1. TypeOK'          BY TypeStep
<1>2. Owners'          BY <1>1, OwnersStep
<1>3. Stages'          BY <1>1, StagesStep
<1>4. RunningIntact'   BY <1>1, RunningIntactStep
<1>5. Drained'         BY <1>1, DrainedStep
<1>6. GlobalInstalled' BY <1>1, GlobalInstalledStep
<1>7. NoStickyGlobal'  BY <1>1, NoStickyGlobalStep
<1>. QED BY <1>1, <1>2, <1>3, <1>4, <1>5, <1>6, <1>7

(* Every state the calls can reach satisfies the inductive invariant.          *)
THEOREM Invariance == Spec => []IInv
<1>1. Init => IInv
  BY InitInv
<1>2. IInv /\ [Next]_vars => IInv'
  BY StepInv
<1>. QED BY <1>1, <1>2, PTL DEF Spec

(* The variables keep their types, and t holds a generation exactly while it   *)
(* is started (tel.go:239, 336-366).                                           *)
THEOREM TypeCorrect == Spec => []TypeOK
<1>1. IInv => TypeOK
  BY DEF IInv
<1>. QED BY <1>1, Invariance, PTL

(* However many Starts and Shutdowns race, t holds a whole generation while it *)
(* is started (tel.go:214-240).                                                *)
THEOREM HolderIntact == Spec => []RunningIntact
<1>1. IInv => RunningIntact
  BY DEF IInv
<1>. QED BY <1>1, Invariance, PTL

(* However many Shutdowns race, each generation is taken by one of them only   *)
(* and its stopCh is closed once (tel.go:335-366, cardinality.go:81).          *)
THEOREM OneOwner == Spec => []SoleOwner
<1>1. IInv => SoleOwner
  <2>. SUFFICES ASSUME IInv PROVE SoleOwner
    OBVIOUS
  <2>1. ASSUME NEW d \in Shutdowns, pc[d] = "stop" PROVE ~gen[call[d].gen].stopped
    BY <2>1 DEF IInv, TypeOK, CallType, Drained, DrainedTo, Draining
  <2>. QED BY <2>1 DEF IInv, Owners, SoleOwner
<1>. QED BY <1>1, Invariance, PTL

(* Nothing that was opened is ever without a call, or t, that will close it    *)
(* (tel.go:214-221, 299-311, 345-389).                                         *)
THEOREM NoLeak == Spec => []NoOrphan
<1>1. IInv => NoOrphan
  <2>. SUFFICES ASSUME IInv, NEW s \in Starts, holder # s
                PROVE  /\ MetricsOpen(s) =>
                            \/ pc[s] \in Building \cup {"loseMonitor", "loseProviders",
                                                        "failProviders"}
                            \/ ShutdownHas(s, {"stop", "wait", "metrics"})
                       /\ TracerOpen(s) =>
                            \/ pc[s] \in Building \cup {"loseMonitor", "loseProviders",
                                                        "failProviders"}
                            \/ ShutdownHas(s, {"stop", "wait", "metrics", "traces"})
                       /\ MonitorOpen(s) =>
                            \/ pc[s] \in {"commit", "loseMonitor"}
                            \/ ShutdownHas(s, Draining \ {"global"})
                       /\ DetectorOpen(s) => ShutdownHas(s, {"stop"})
    BY DEF NoOrphan
  <2>. USE DEF IInv, TypeOK, StartPC, Building, Losing, Failing, Returned
  <2>1. CASE Taken(s)
    <3>1. PICK d \in Shutdowns : call[d].gen = s
      BY <2>1 DEF Taken
    <3>2. pc[d] \in Draining \cup {"done"}
      BY <3>1, CallsAssumption DEF Owners, ShutdownPC
    <3>. QED BY <3>1, <3>2, CallsAssumption
             DEF Drained, DrainedTo, ShutdownHas, Draining, MetricsOpen, TracerOpen, MonitorOpen,
                 DetectorOpen
  <2>2. CASE ~Taken(s)
    BY <2>2 DEF Stages, StageOf, NothingOpen, MonitorOpen, DetectorOpen, MetricsOpen,
                TracerOpen
  <2>. QED BY <2>1, <2>2
<1>. QED BY <1>1, Invariance, PTL

(* A Shutdown that has returned has released all it took, whatever failed on   *)
(* the way (tel.go:368-391).                                                   *)
THEOREM ReleasedAll == Spec => []ShutdownComplete
<1>1. IInv => ShutdownComplete
  <2>. SUFFICES ASSUME IInv, NEW d \in Shutdowns, pc[d] = "done", call[d].gen # None
                PROVE  LET s == call[d].gen IN
                         /\ ~MetricsOpen(s) /\ ~TracerOpen(s) /\ ~MonitorOpen(s)
                         /\ gen[s].detector \in {"none", "exited"}
                         /\ globalTP # s
    BY DEF ShutdownComplete
  <2>. DEFINE s == call[d].gen
  <2>1. s \in Starts
    BY DEF IInv, TypeOK, CallType
  <2>2. globalTP # s
    BY <2>1 DEF IInv, Owners, NoStickyGlobal, Building, Losing, Draining
  <2>. QED BY <2>1, <2>2 DEF IInv, Drained, DrainedTo
<1>. QED BY <1>1, Invariance, PTL

(* The process-wide provider is never that of a generation nobody will reset   *)
(* (tel.go:286-289, 303-308, 327-329, 387-389).                                *)
THEOREM GlobalOwned == Spec => []NoStickyGlobal
<1>1. IInv => NoStickyGlobal
  BY DEF IInv
<1>. QED BY <1>1, Invariance, PTL

(* The epoch moves exactly when a generation is put into t or taken out of it, *)
(* and only up, so instruments of different generations are never live at once *)
(* (tel.go:223, 343, instruments.go:201).                                      *)
THEOREM EpochMoves == Spec => EpochFences
<1>. DEFINE Fences == /\ epoch' >= epoch
                      /\ (epoch' # epoch) <=> (holder' # holder)
<1>1. TypeOK /\ [Next]_vars => [Fences]_vars
  <2>. SUFFICES ASSUME TypeOK, [Next]_vars, vars' # vars PROVE Fences
    OBVIOUS
  <2>. USE CallsAssumption
  <2>0. epoch \in Nat /\ epoch + 1 # epoch /\ epoch + 1 >= epoch /\ epoch >= epoch
    BY DEF TypeOK
  <2>1. ASSUME NEW s \in Starts, Commit(s) PROVE Fences
    BY <2>0, <2>1 DEF Commit, Install, TypeOK
  <2>2. ASSUME NEW d \in Shutdowns, ShutdownSwap(d) PROVE Fences
    BY <2>0, <2>2 DEF ShutdownSwap, BeginShutdown, Take, TypeOK
  <2>3. ASSUME epoch' = epoch, holder' = holder PROVE Fences
    BY <2>0, <2>3
  <2>4. ASSUME NEW s \in Starts,
               \/ StartCheck(s) \/ InitProviders(s) \/ InitFails(s) \/ SkipMonitor(s)
               \/ Listen(s) \/ ListenFails(s) \/ LoseRace(s) \/ Activate(s)
               \/ RollbackMonitor(s) \/ RollbackProviders(s) \/ RollbackGlobal(s)
               \/ ClearInstall(s) \/ DetectorExits(s) \/ Serve(s)
        PROVE  Fences
    <3>1. epoch' = epoch /\ holder' = holder
      BY <2>4 DEF StartCheck, InitProviders, InitFails, SkipMonitor, Listen, ListenFails,
                  LoseRace, Activate, RollbackMonitor, RollbackProviders,
                  RollbackGlobal, ClearInstall, DetectorExits, Serve, Skip, fields
    <3>. QED BY <2>3, <3>1
  <2>5. ASSUME NEW d \in Shutdowns,
               \/ ShutdownNoop(d) \/ CloseStop(d) \/ SkipStop(d) \/ WaitStop(d)
               \/ ShutdownMetrics(d) \/ ShutdownTraces(d) \/ ShutdownMonitor(d)
               \/ ResetGlobal(d)
        PROVE  Fences
    <3>1. epoch' = epoch /\ holder' = holder
      BY <2>5 DEF ShutdownNoop, CloseStop, SkipStop, WaitStop, ShutdownMetrics,
                  ShutdownTraces, ShutdownMonitor, ResetGlobal, Skip, fields
    <3>. QED BY <2>3, <3>1
  <2>6. ASSUME InstallForeign PROVE Fences
    BY <2>3, <2>6 DEF InstallForeign, fields
  <2>. HIDE DEF Fences
  <2>. QED BY <2>1, <2>2, <2>4, <2>5, <2>6 DEF Next, StartStep, ShutdownStep
<1>. QED BY <1>1, TypeCorrect, PTL DEF Spec, EpochFences

-----------------------------------------------------------------------------
(* The application's own tracer provider.  Whoever would reset one remembers   *)
(* an install, and only a configuration that traces installs.                  *)

Remembered == /\ traceInstalled = TRUE => InstallsTraces
              /\ \A d \in Shutdowns : call[d].trace = TRUE => InstallsTraces

(* Only a Start that installs a provider is remembered to have done so.        *)
LEMMA RememberedStep ==
  ASSUME TypeOK, Remembered, [Next]_vars
  PROVE  Remembered' /\ (InstallsTraces' <=> InstallsTraces)
<1>. USE CallsAssumption
<1>1. CASE UNCHANGED <<cfg, traceInstalled, call>>
  BY <1>1 DEF Remembered, InstallsTraces
<1>2. ASSUME NEW s \in Starts, Commit(s)
      PROVE  Remembered' /\ (InstallsTraces' <=> InstallsTraces)
  BY <1>2 DEF Commit, Install, Remembered, InstallsTraces
<1>3. ASSUME NEW s \in Starts, ClearInstall(s)
      PROVE  Remembered' /\ (InstallsTraces' <=> InstallsTraces)
  BY <1>3 DEF ClearInstall, Remembered, InstallsTraces
<1>4. ASSUME NEW d \in Shutdowns, ShutdownSwap(d)
      PROVE  Remembered' /\ (InstallsTraces' <=> InstallsTraces)
  <2>1. /\ cfg' = cfg /\ traceInstalled' = FALSE
        /\ call'[d].trace = traceInstalled
        /\ \A e \in Shutdowns \ {d} : call'[e] = call[e]
    BY <1>4 DEF ShutdownSwap, BeginShutdown, Take, TypeOK, CallType
  <2>. QED BY <2>1 DEF Remembered, InstallsTraces
<1>5. ASSUME NEW d \in Shutdowns, Releases(d)
      PROVE  Remembered' /\ (InstallsTraces' <=> InstallsTraces)
  <2>1. /\ cfg' = cfg /\ traceInstalled' = traceInstalled
        /\ \A e \in Shutdowns : call'[e].trace = call[e].trace
    BY <1>5, ReleaseFrame DEF fields
  <2>. QED BY <2>1 DEF Remembered, InstallsTraces
<1>6. ASSUME NEW s \in Starts,
             \/ StartCheck(s) \/ InitProviders(s) \/ InitFails(s) \/ SkipMonitor(s)
             \/ Listen(s) \/ ListenFails(s) \/ LoseRace(s) \/ Activate(s)
             \/ RollbackMonitor(s) \/ RollbackProviders(s) \/ RollbackGlobal(s)
             \/ DetectorExits(s) \/ Serve(s)
      PROVE  UNCHANGED <<cfg, traceInstalled, call>>
  BY <1>6 DEF StartCheck, InitProviders, InitFails, SkipMonitor, Listen, ListenFails,
              LoseRace, Activate, RollbackMonitor, RollbackProviders, RollbackGlobal,
              DetectorExits, Serve, Skip, fields
<1>7. ASSUME NEW d \in Shutdowns,
             ShutdownNoop(d) \/ CloseStop(d) \/ SkipStop(d) \/ WaitStop(d) \/ ResetGlobal(d)
      PROVE  UNCHANGED <<cfg, traceInstalled, call>>
  BY <1>7 DEF ShutdownNoop, CloseStop, SkipStop, WaitStop, ResetGlobal, Skip, fields
<1>8. ASSUME InstallForeign \/ UNCHANGED vars PROVE UNCHANGED <<cfg, traceInstalled, call>>
  BY <1>8 DEF InstallForeign, vars, fields
<1>. QED BY <1>1, <1>2, <1>3, <1>4, <1>5, <1>6, <1>7, <1>8
  DEF Next, StartStep, ShutdownStep, Releases

(* A Telemetry that installs no provider leaves the application's in place.    *)
LEMMA ForeignStep ==
  ASSUME TypeOK, Remembered, [Next]_vars, globalTP = Foreign, ~InstallsTraces
  PROVE  globalTP' = Foreign
<1>0. traceInstalled = FALSE /\ \A d \in Shutdowns : call[d].trace = FALSE
  BY DEF TypeOK, CallType, Remembered
<1>1. ASSUME NEW s \in Starts,
             \/ StartCheck(s) \/ InitFails(s) \/ SkipMonitor(s) \/ Listen(s)
             \/ ListenFails(s) \/ Commit(s) \/ LoseRace(s) \/ Activate(s)
             \/ RollbackMonitor(s) \/ RollbackProviders(s) \/ DetectorExits(s) \/ Serve(s)
      PROVE  globalTP' = globalTP
  BY <1>1 DEF StartCheck, InitFails, SkipMonitor, Listen, ListenFails, Commit, Install,
              LoseRace, Activate, RollbackMonitor, RollbackProviders, DetectorExits, Serve,
              Skip
<1>2. ASSUME NEW s \in Starts, InitProviders(s) \/ RollbackGlobal(s) \/ ClearInstall(s)
      PROVE  globalTP' = globalTP
  BY <1>0, <1>2 DEF InitProviders, RollbackGlobal, ClearInstall
<1>3. ASSUME NEW d \in Shutdowns,
             \/ ShutdownNoop(d) \/ ShutdownSwap(d) \/ CloseStop(d) \/ SkipStop(d)
             \/ WaitStop(d) \/ ShutdownMetrics(d) \/ ShutdownTraces(d) \/ ShutdownMonitor(d)
      PROVE  globalTP' = globalTP
  BY <1>3 DEF ShutdownNoop, ShutdownSwap, BeginShutdown, Take, CloseStop, SkipStop, WaitStop,
              ShutdownMetrics, ShutdownTraces, ShutdownMonitor, Skip
<1>4. ASSUME NEW d \in Shutdowns, ResetGlobal(d) PROVE globalTP' = globalTP
  BY <1>0, <1>4 DEF ResetGlobal
<1>5. ASSUME InstallForeign PROVE globalTP' = Foreign
  BY <1>5 DEF InstallForeign
<1>6. ASSUME UNCHANGED vars PROVE globalTP' = globalTP
  BY <1>6 DEF vars
<1>. QED BY <1>1, <1>2, <1>3, <1>4, <1>5, <1>6 DEF Next, StartStep, ShutdownStep

(* A tracer provider of the application's own survives every Start, failed or  *)
(* lost, and every Shutdown of a Telemetry that does not trace                 *)
(* (tel.go:303-308, 327-329, 387-389).                                         *)
THEOREM ForeignStays == Spec => ForeignKept
<1>1. Init => Remembered
  BY DEF Init, Remembered
<1>2. TypeOK /\ Remembered /\ [Next]_vars => Remembered'
  BY RememberedStep
<1>3. TypeOK /\ Remembered /\ [Next]_vars
        => [globalTP = Foreign /\ ~InstallsTraces => globalTP' = Foreign]_vars
  BY ForeignStep
<1>. QED BY <1>1, <1>2, <1>3, TypeCorrect, PTL DEF Spec, ForeignKept

-----------------------------------------------------------------------------
(* Lifecycle implements Generations.  Under the inductive invariant the phase  *)
(* of a generation can be read off the point its Start is at, t, and the one   *)
(* Shutdown that took it.                                                      *)

Begun == {"built", "commit", "loseMonitor", "loseProviders", "loseGlobal",
          "failProviders", "failGlobal", "clear"}

PhaseFacts(s) ==
  /\ pc[s] \in {"idle", "init"} => Phase[s] = "new"
  /\ pc[s] \in Begun => Phase[s] = "built"
  /\ pc[s] = "failed" => Phase[s] = "gone"
  /\ holder = s => Phase[s] = "live"
  /\ \A d \in Shutdowns : call[d].gen = s /\ pc[d] \in Draining => Phase[s] = "draining"
  /\ \A d \in Shutdowns : call[d].gen = s /\ pc[d] = "done" => Phase[s] = "gone"
  /\ pc[s] = "done" /\ holder # s /\ ~Taken(s) => Phase[s] = "gone"

(* The phase of a generation, read off the call that made it.                  *)
LEMMA PhaseRead ==
  ASSUME IInv, NEW s \in Starts
  PROVE  PhaseFacts(s)
<1>. USE CallsAssumption
<1>1. Phase[s] = IF holder = s THEN "live"
                 ELSE IF ShutdownHas(s, Draining) THEN "draining"
                 ELSE IF Over(s) THEN "gone"
                 ELSE IF pc[s] \in {"idle", "init"} THEN "new"
                 ELSE "built"
  BY DEF Phase
<1>2. ~Taken(s) => ~ShutdownHas(s, Draining)
  BY DEF Taken, ShutdownHas
<1>3. pc[s] \notin {"activate", "done"} => holder # s /\ ~Taken(s)
  BY DEF IInv, Owners, Taken
<1>4. pc[s] \in {"idle", "init"} \cup Begun => ~Over(s)
  BY <1>3 DEF Over, Taken, Returned, Begun
<1>5. pc[s] = "failed" => Over(s)
  BY <1>2, <1>3 DEF Over, Returned
<1>6. pc[s] = "done" /\ holder # s /\ ~Taken(s) => Over(s)
  BY <1>2 DEF Over, Returned
<1>7. ASSUME NEW d \in Shutdowns, call[d].gen = s, pc[d] \in Draining
      PROVE  holder # s /\ ShutdownHas(s, Draining)
  BY <1>7 DEF IInv, Owners, ShutdownHas
<1>8. ASSUME NEW d \in Shutdowns, call[d].gen = s, pc[d] = "done"
      PROVE  holder # s /\ ~ShutdownHas(s, Draining) /\ Over(s)
  BY <1>8 DEF IInv, Owners, ShutdownHas, Over, Draining
<1>9. pc[s] \in {"idle", "init"} => Phase[s] = "new"
  BY <1>1, <1>2, <1>3, <1>4
<1>10. pc[s] \in Begun => Phase[s] = "built"
  BY <1>1, <1>2, <1>3, <1>4 DEF Begun
<1>11. pc[s] = "failed" => Phase[s] = "gone"
  BY <1>1, <1>2, <1>3, <1>5
<1>12. pc[s] = "done" /\ holder # s /\ ~Taken(s) => Phase[s] = "gone"
  BY <1>1, <1>2, <1>6
<1>. QED BY <1>1, <1>7, <1>8, <1>9, <1>10, <1>11, <1>12 DEF PhaseFacts

(* The same after the step.                                                    *)
LEMMA PhaseReadNext == IInv' => (\A s \in Starts : PhaseFacts(s))'
<1>1. IInv => \A s \in Starts : PhaseFacts(s)
  BY PhaseRead
<1>. QED BY <1>1, PTL

(* A phase stays when the Start stays in its part of the way, and t and the    *)
(* Shutdowns keep what they have.                                              *)
LEMMA PhaseKept ==
  ASSUME IInv, IInv', NEW s \in Starts,
         holder' = s <=> holder = s,
         \A d \in Shutdowns : /\ call'[d].gen = s <=> call[d].gen = s
                              /\ call[d].gen = s => /\ pc'[d] \in Draining <=> pc[d] \in Draining
                                                    /\ pc'[d] = "done" <=> pc[d] = "done",
         \/ pc'[s] = pc[s]
         \/ pc[s] \in {"idle", "init"} /\ pc'[s] \in {"idle", "init"}
         \/ pc[s] \in Begun /\ pc'[s] \in Begun
         \/ pc[s] \in {"activate", "done"} /\ pc'[s] \in {"activate", "done"}
  PROVE  Phase'[s] = Phase[s]
<1>. USE CallsAssumption
<1>1. PhaseFacts(s) /\ PhaseFacts(s)'
  BY PhaseRead, PhaseReadNext
<1>2. pc[s] \in StartPC
  BY DEF IInv, TypeOK
<1>3. CASE pc[s] \in {"idle", "init"} \cup Begun \cup {"failed"}
  BY <1>1, <1>3 DEF PhaseFacts, Begun
<1>4. CASE pc[s] \in {"activate", "done"} /\ holder = s
  BY <1>1, <1>4 DEF PhaseFacts
<1>5. CASE pc[s] \in {"activate", "done"} /\ Taken(s)
  <2>1. PICK d \in Shutdowns : call[d].gen = s
    BY <1>5 DEF Taken
  <2>2. pc[d] \in Draining \/ pc[d] = "done"
    BY <2>1 DEF IInv, Owners, TypeOK, ShutdownPC
  <2>. QED BY <1>1, <2>1, <2>2 DEF PhaseFacts
<1>6. CASE pc[s] \in {"activate", "done"} /\ holder # s /\ ~Taken(s)
  <2>1. ~Taken(s)' /\ holder' # s
    BY <1>6 DEF Taken
  <2>2. pc[s] = "done" /\ pc'[s] = "done"
    BY <1>6, <2>1 DEF IInv, Stages, StageOf, Begun
  <2>. QED BY <1>1, <1>6, <2>1, <2>2 DEF PhaseFacts
<1>. QED BY <1>2, <1>3, <1>4, <1>5, <1>6
     DEF StartPC, Building, Losing, Failing, Returned, Begun

(* From the phases of the generations to a step of Generations.                *)
LEMMA PhaseMoves ==
  ASSUME NEW g \in Starts, NEW from, NEW to, Phase[g] = from, Phase'[g] = to,
         \A s \in Starts \ {g} : Phase'[s] = Phase[s]
  PROVE  G!Move(g, from, to)
<1>1. Phase = [s \in Starts |-> Phase[s]] /\ Phase' = [s \in Starts |-> Phase'[s]]
  BY DEF Phase
<1>2. Phase' = [Phase EXCEPT ![g] = to]
  BY <1>1
<1>. QED BY <1>2 DEF G!Move

(* A step that changes no phase leaves the function alone.                     *)
LEMMA PhasesStay ==
  ASSUME \A s \in Starts : Phase'[s] = Phase[s]
  PROVE  Phase' = Phase
<1>1. Phase = [s \in Starts |-> Phase[s]] /\ Phase' = [s \in Starts |-> Phase'[s]]
  BY DEF Phase
<1>. QED BY <1>1

Exports(s) == MetricsOpen(s) \/ TracerOpen(s)

(* Nor does one that closes nothing change what is open.                       *)
LEMMA OpenStays ==
  ASSUME \A s \in Starts : Exports(s)' <=> Exports(s)
  PROVE  Open' = Open
BY DEF Open, Exports

(* A generation that no longer exports leaves Open.                            *)
LEMMA OpenLoses ==
  ASSUME NEW g \in Starts, ~Exports(g)', \A s \in Starts \ {g} : Exports(s)' <=> Exports(s)
  PROVE  Open' = Open \ {g}
BY DEF Open, Exports

(* A step of a Start is that call's own affair.                                *)
OnlyStart(s) ==
  /\ call' = call
  /\ \A d \in Shutdowns : pc'[d] = pc[d]
  /\ \A x \in Starts \ {s} : pc'[x] = pc[x] /\ gen'[x] = gen[x]

(* Every step of a Start is of that kind; only Commit changes the holder.      *)
LEMMA StartFrame ==
  ASSUME TypeOK, NEW s \in Starts, StartCheck(s) \/ StartStep(s) \/ DetectorExits(s) \/ Serve(s)
  PROVE  OnlyStart(s) /\ (holder' = holder \/ Commit(s))
<1>. USE CallsAssumption DEF TypeOK, Goto, Skip, fields, OnlyStart
<1>1. CASE StartCheck(s) \/ SkipMonitor(s) \/ ListenFails(s) \/ LoseRace(s)
  BY <1>1 DEF StartCheck, SkipMonitor, ListenFails, LoseRace
<1>2. CASE InitProviders(s) \/ InitFails(s) \/ Listen(s)
  BY <1>2 DEF InitProviders, InitFails, Listen
<1>3. CASE Commit(s)
  BY <1>3 DEF Commit, Install
<1>4. CASE Activate(s) \/ RollbackMonitor(s) \/ RollbackProviders(s)
  BY <1>4 DEF Activate, RollbackMonitor, RollbackProviders
<1>5. CASE RollbackGlobal(s) \/ ClearInstall(s)
  BY <1>5 DEF RollbackGlobal, ClearInstall
<1>6. CASE DetectorExits(s) \/ Serve(s)
  BY <1>6 DEF DetectorExits, Serve
<1>. QED BY <1>1, <1>2, <1>3, <1>4, <1>5, <1>6 DEF StartStep

(* So the other generations stay in their phases.                              *)
LEMMA OthersPhases ==
  ASSUME IInv, IInv', NEW s \in Starts, OnlyStart(s), holder' = holder \/ Commit(s)
  PROVE  \A x \in Starts \ {s} : Phase'[x] = Phase[x] /\ (Exports(x)' <=> Exports(x))
<1>. TAKE x \in Starts \ {s}
<1>1. holder' = x <=> holder = x
  BY CallsAssumption DEF Commit, Install, IInv, TypeOK
<1>2. Phase'[x] = Phase[x]
  BY <1>1, PhaseKept DEF OnlyStart
<1>. QED BY <1>2 DEF OnlyStart, Exports, MetricsOpen, TracerOpen

(* A step that leaves a Start where it is on its way leaves its phase.         *)
LEMMA OwnPhase ==
  ASSUME IInv, IInv', NEW s \in Starts, OnlyStart(s), holder' = holder,
         \/ pc'[s] = pc[s]
         \/ pc[s] \in {"idle", "init"} /\ pc'[s] \in {"idle", "init"}
         \/ pc[s] \in Begun /\ pc'[s] \in Begun
         \/ pc[s] \in {"activate", "done"} /\ pc'[s] \in {"activate", "done"}
  PROVE  Phase'[s] = Phase[s]
<1>1. \A d \in Shutdowns : /\ call'[d].gen = s <=> call[d].gen = s
                           /\ pc'[d] \in Draining <=> pc[d] \in Draining
                           /\ pc'[d] = "done" <=> pc[d] = "done"
  BY DEF OnlyStart
<1>. QED BY <1>1, PhaseKept

(* What each step of a Start is to Generations.                                *)
LEMMA StartRefines ==
  ASSUME IInv, IInv', NEW s \in Starts,
         StartCheck(s) \/ StartStep(s) \/ DetectorExits(s) \/ Serve(s)
  PROVE  G!GNext \/ UNCHANGED G!gvars
<1>. USE CallsAssumption
<1>0. TypeOK /\ TypeOK'
  BY DEF IInv
<1>1. OnlyStart(s) /\ (holder' = holder \/ Commit(s))
  BY <1>0, StartFrame
<1>2. \A x \in Starts \ {s} : Phase'[x] = Phase[x] /\ (Exports(x)' <=> Exports(x))
  BY <1>1, OthersPhases
<1>3. PhaseFacts(s) /\ PhaseFacts(s)' /\ StageOf(s) /\ StageOf(s)'
  BY PhaseRead, PhaseReadNext DEF IInv, Stages
<1>4. pc[s] \in StartPC /\ gen[s] \in GenType
  BY <1>0 DEF TypeOK
<1>5. ASSUME Phase'[s] = Phase[s], Exports(s)' <=> Exports(s) PROVE UNCHANGED G!gvars
  <2>1. Phase' = Phase /\ Open' = Open
    BY <1>2, <1>5, PhasesStay, OpenStays
  <2>. QED BY <2>1 DEF G!gvars
<1>6. ASSUME gen'[s] = gen[s] PROVE Exports(s)' <=> Exports(s)
  BY <1>6 DEF Exports, MetricsOpen, TracerOpen
<1>7. ~Taken(s) => ~Taken(s)'
  BY <1>1 DEF OnlyStart, Taken
<1>8. CASE StartCheck(s)
  <2>1. pc[s] = "idle" /\ pc'[s] \in {"init", "done"} /\ gen'[s] = gen[s] /\ holder' = holder
    BY <1>0, <1>8 DEF StartCheck, Skip, Goto, TypeOK, fields
  <2>2. holder # s /\ ~Taken(s)
    BY <2>1 DEF IInv, Owners, Taken
  <2>3. CASE pc'[s] = "init"
    BY <1>3, <1>5, <1>6, <2>1, <2>3 DEF PhaseFacts
  <2>4. CASE pc'[s] = "done"
    <3>1. Phase[s] = "new" /\ Phase'[s] = "gone"
      BY <1>3, <1>7, <2>1, <2>2, <2>4 DEF PhaseFacts
    <3>2. G!Move(s, "new", "gone") /\ Open' = Open
      BY <1>2, <1>6, <2>1, <3>1, PhaseMoves, OpenStays
    <3>. QED BY <3>2 DEF G!GNext, G!Fail
  <2>. QED BY <2>1, <2>3, <2>4
<1>9. CASE InitProviders(s)
  <2>1. pc[s] = "init" /\ pc'[s] = "built"
    BY <1>0, <1>9 DEF InitProviders, Goto, TypeOK
  <2>2. Phase[s] = "new" /\ Phase'[s] = "built"
    BY <1>3, <2>1 DEF PhaseFacts, Begun
  <2>3. G!Move(s, "new", "built")
    BY <1>2, <2>2, PhaseMoves
  <2>4. ~Exports(s)
    BY <1>3, <2>1 DEF StageOf, NothingOpen, Exports
  <2>5. Open' \in {Open, Open \cup {s}}
    BY <1>2, <2>4 DEF Open, Exports
  <2>. QED BY <2>3, <2>5 DEF G!GNext, G!Build
<1>10. CASE InitFails(s)
  <2>1. pc[s] = "init" /\ pc'[s] = "failed"
    BY <1>0, <1>10 DEF InitFails, Goto, TypeOK
  <2>2. Phase[s] = "new" /\ Phase'[s] = "gone"
    BY <1>3, <2>1 DEF PhaseFacts
  <2>3. G!Move(s, "new", "gone")
    BY <1>2, <2>2, PhaseMoves
  <2>4. ~Exports(s) /\ ~Exports(s)'
    BY <1>3, <2>1 DEF StageOf, NothingOpen, Exports
  <2>5. Open' = Open
    BY <1>2, <2>4, OpenStays
  <2>. QED BY <2>3, <2>5 DEF G!GNext, G!Fail
<1>11. CASE SkipMonitor(s) \/ Listen(s) \/ ListenFails(s) \/ LoseRace(s) \/ RollbackMonitor(s)
  <2>1. /\ pc[s] \in Begun /\ pc'[s] \in Begun
        /\ gen'[s].metrics = gen[s].metrics /\ gen'[s].tracer = gen[s].tracer
    BY <1>0, <1>4, <1>11
       DEF SkipMonitor, Listen, ListenFails, LoseRace, RollbackMonitor, Skip, Goto, TypeOK,
           Begun, GenType
  <2>2. Phase'[s] = Phase[s] /\ (Exports(s)' <=> Exports(s))
    BY <1>3, <2>1 DEF PhaseFacts, Exports, MetricsOpen, TracerOpen
  <2>. QED BY <1>5, <2>2
<1>12. CASE Commit(s)
  <2>1. /\ pc[s] = "commit" /\ holder = None /\ holder' = s
        /\ gen'[s].metrics = gen[s].metrics /\ gen'[s].tracer = gen[s].tracer
    BY <1>0, <1>4, <1>12 DEF Commit, Install, Goto, TypeOK, GenType
  <2>2. Phase[s] = "built" /\ Phase'[s] = "live"
    BY <1>3, <2>1 DEF PhaseFacts, Begun
  <2>3. G!Move(s, "built", "live")
    BY <1>2, <2>2, PhaseMoves
  <2>4. Open' = Open
    BY <1>2, <2>1, OpenStays DEF Exports, MetricsOpen, TracerOpen
  <2>5. \A h \in Starts : Phase[h] # "live"
    BY <2>1 DEF Phase
  <2>. QED BY <2>3, <2>4, <2>5 DEF G!GNext, G!GoLive
<1>13. CASE Activate(s)
  <2>1. /\ pc[s] = "activate" /\ pc'[s] = "done" /\ holder' = holder
        /\ gen'[s].metrics = gen[s].metrics /\ gen'[s].tracer = gen[s].tracer
    BY <1>0, <1>4, <1>13 DEF Activate, Goto, TypeOK, GenType, fields
  <2>2. Phase'[s] = Phase[s]
    BY <1>1, <2>1, OwnPhase
  <2>3. Exports(s)' <=> Exports(s)
    BY <2>1 DEF Exports, MetricsOpen, TracerOpen
  <2>. QED BY <1>5, <2>2, <2>3
<1>14. CASE RollbackProviders(s)
  <2>1. /\ pc[s] \in {"loseProviders", "failProviders"}
        /\ pc'[s] \in {"loseGlobal", "failGlobal"}
    BY <1>0, <1>14 DEF RollbackProviders, Goto, TypeOK
  <2>2. Phase[s] = "built" /\ Phase'[s] = "built"
    BY <1>3, <2>1 DEF PhaseFacts, Begun
  <2>3. ~Exports(s)'
    BY <1>3, <2>1 DEF StageOf, NothingOpen, Exports
  <2>4. Phase' = Phase /\ Open' = Open \ {s}
    BY <1>2, <2>2, <2>3, PhasesStay, OpenLoses
  <2>. QED BY <2>2, <2>4 DEF G!GNext, G!Close
<1>15. CASE RollbackGlobal(s) \/ ClearInstall(s)
  <2>1. /\ pc[s] \in {"loseGlobal", "failGlobal", "clear"}
        /\ pc'[s] \in {"clear", "done", "failed"}
        /\ gen'[s] = gen[s] /\ holder' = holder
    BY <1>0, <1>15 DEF RollbackGlobal, ClearInstall, Goto, TypeOK, fields
  <2>2. holder # s /\ ~Taken(s)
    BY <2>1 DEF IInv, Owners, Taken
  <2>3. Phase[s] = "built"
    BY <1>3, <2>1 DEF PhaseFacts, Begun
  <2>4. CASE pc'[s] = "clear"
    BY <1>3, <1>5, <1>6, <2>1, <2>3, <2>4 DEF PhaseFacts, Begun
  <2>5. CASE pc'[s] \in {"done", "failed"}
    <3>1. Phase'[s] = "gone"
      BY <1>3, <1>7, <2>1, <2>2, <2>5 DEF PhaseFacts
    <3>2. G!Move(s, "built", "gone") /\ Open' = Open
      BY <1>2, <1>6, <2>1, <2>3, <3>1, PhaseMoves, OpenStays
    <3>3. s \notin Open
      BY <1>3, <2>1 DEF StageOf, NothingOpen, Open
    <3>. QED BY <3>2, <3>3 DEF G!GNext, G!Finish
  <2>. QED BY <2>1, <2>4, <2>5
<1>16. CASE DetectorExits(s) \/ Serve(s)
  <2>1. /\ pc' = pc /\ holder' = holder
        /\ gen'[s].metrics = gen[s].metrics /\ gen'[s].tracer = gen[s].tracer
    BY <1>0, <1>4, <1>16 DEF DetectorExits, Serve, TypeOK, GenType, fields
  <2>2. Phase'[s] = Phase[s]
    BY <1>1, <2>1, OwnPhase
  <2>3. Exports(s)' <=> Exports(s)
    BY <2>1 DEF Exports, MetricsOpen, TracerOpen
  <2>. QED BY <1>5, <2>2, <2>3
<1>. QED BY <1>8, <1>9, <1>10, <1>11, <1>12, <1>13, <1>14, <1>15, <1>16 DEF StartStep

(* What each step of a Shutdown is to Generations.                             *)
LEMMA TakeRefines ==
  ASSUME IInv, IInv', NEW d \in Shutdowns, ShutdownSwap(d)
  PROVE  G!GNext
<1>. USE CallsAssumption
<1>1. /\ holder \in Starts /\ holder' = None /\ gen' = gen
      /\ \A s \in Starts : pc'[s] = pc[s]
      /\ \A e \in Shutdowns \ {d} : pc'[e] = pc[e] /\ call'[e] = call[e]
      /\ pc[d] = "idle" /\ pc'[d] = "stop" /\ call'[d].gen = holder /\ call[d].gen = None
  BY DEF IInv, TypeOK, CallType, Owners, ShutdownSwap, BeginShutdown, Take, Goto
<1>2. Phase[holder] = "live" /\ Phase'[holder] = "draining"
  <2>1. PhaseFacts(holder)
    BY <1>1, PhaseRead
  <2>2. \A s \in Starts : PhaseFacts(s)'
    BY PhaseReadNext
  <2>3. \A s \in Starts : call'[d].gen = s => Phase'[s] = "draining"
    BY <1>1, <2>2 DEF PhaseFacts, Draining
  <2>. QED BY <1>1, <2>1, <2>3 DEF PhaseFacts
<1>3. ASSUME NEW s \in Starts \ {holder} PROVE Phase'[s] = Phase[s]
  <2>1. holder' # s /\ holder # s /\ call'[d].gen # s /\ call[d].gen # s
    BY <1>1
  <2>2. \A e \in Shutdowns : /\ call'[e].gen = s <=> call[e].gen = s
                             /\ call[e].gen = s => pc'[e] = pc[e]
    BY <1>1, <2>1
  <2>. QED BY <1>1, <2>1, <2>2, PhaseKept
<1>4. G!Move(holder, "live", "draining")
  BY <1>1, <1>2, <1>3, PhaseMoves
<1>5. Open' = Open
  BY <1>1 DEF Open, MetricsOpen, TracerOpen
<1>. QED BY <1>1, <1>4, <1>5 DEF G!GNext, G!Retire

(* The steps of Shutdown are drains and retirements, or stutter.               *)
LEMMA DrainRefines ==
  ASSUME IInv, IInv', NEW d \in Shutdowns, ShutdownNoop(d) \/ ShutdownStep(d)
  PROVE  G!GNext \/ UNCHANGED G!gvars
<1>. USE CallsAssumption
<1>0. TypeOK /\ TypeOK'
  BY DEF IInv
<1>1. CASE ShutdownNoop(d)
  <2>1. /\ holder' = holder /\ gen' = gen /\ call' = call /\ call[d].gen = None
        /\ \A c \in (Starts \cup Shutdowns) \ {d} : pc'[c] = pc[c]
    BY <1>0, <1>1 DEF IInv, Owners, ShutdownNoop, Skip, Goto, TypeOK, fields
  <2>2. ASSUME NEW s \in Starts PROVE Phase'[s] = Phase[s]
    <3>1. \A e \in Shutdowns : /\ call'[e].gen = s <=> call[e].gen = s
                               /\ call[e].gen = s => pc'[e] = pc[e]
      BY <2>1
    <3>. QED BY <2>1, <3>1, PhaseKept
  <2>3. Phase' = Phase /\ Open' = Open
    BY <2>1, <2>2, PhasesStay DEF Open, MetricsOpen, TracerOpen
  <2>. QED BY <2>3 DEF G!gvars
<1>2. CASE ShutdownStep(d)
  <2>1. PICK g \in Starts : g = call[d].gen /\ pc[d] \in Draining
    BY <1>0, <1>2
       DEF TypeOK, CallType, Draining, ShutdownStep, CloseStop, SkipStop, WaitStop,
           ShutdownMetrics, ShutdownTraces, ShutdownMonitor, ResetGlobal, Skip, Goto
  <2>2. /\ holder' = holder
        /\ \A c \in (Starts \cup Shutdowns) \ {d} : pc'[c] = pc[c]
        /\ \A e \in Shutdowns : call'[e].gen = call[e].gen
        /\ \A s \in Starts \ {g} : gen'[s] = gen[s]
    <3>1. CASE Releases(d)
      <4>1. \A c \in (Starts \cup Shutdowns) \ {d} : pc'[c] = pc[c]
        BY <1>0, <3>1 DEF TypeOK, Releases, ShutdownMetrics, ShutdownTraces,
                          ShutdownMonitor, Goto
      <4>. QED BY <1>0, <2>1, <3>1, <4>1, ReleaseFrame DEF fields
    <3>2. CASE CloseStop(d) \/ SkipStop(d) \/ WaitStop(d) \/ ResetGlobal(d)
      BY <1>0, <2>1, <3>2 DEF TypeOK, CloseStop, SkipStop, WaitStop, ResetGlobal, Skip, Goto,
                              fields
    <3>. QED BY <1>2, <3>1, <3>2 DEF ShutdownStep, Releases
  <2>3. ASSUME NEW s \in Starts \ {g}
        PROVE  Phase'[s] = Phase[s] /\ (Exports(s)' <=> Exports(s))
    <3>1. \A e \in Shutdowns : /\ call'[e].gen = s <=> call[e].gen = s
                               /\ call[e].gen = s => pc'[e] = pc[e]
      BY <2>1, <2>2
    <3>2. Phase'[s] = Phase[s]
      BY <2>2, <3>1, PhaseKept
    <3>. QED BY <2>2, <3>2 DEF Exports, MetricsOpen, TracerOpen
  <2>4. PhaseFacts(g) /\ PhaseFacts(g)'
    BY PhaseRead, PhaseReadNext
  <2>5. Phase[g] = "draining"
    BY <2>1, <2>4 DEF PhaseFacts
  <2>6. CASE ResetGlobal(d)
    <3>1. pc[d] = "global" /\ pc'[d] = "done" /\ gen' = gen
      BY <1>0, <2>6 DEF ResetGlobal, Goto, TypeOK
    <3>2. Phase'[g] = "gone"
      BY <2>1, <2>2, <2>4, <3>1 DEF PhaseFacts
    <3>3. G!Move(g, "draining", "gone")
      BY <2>3, <2>5, <3>2, PhaseMoves
    <3>4. Open' = Open
      BY <3>1 DEF Open, MetricsOpen, TracerOpen
    <3>5. g \notin Open
      BY <2>1, <3>1 DEF IInv, Drained, DrainedTo, Open
    <3>. QED BY <3>3, <3>4, <3>5 DEF G!GNext, G!Finish
  <2>7. CASE ~ResetGlobal(d)
    <3>1. pc'[d] \in Draining
      BY <1>0, <1>2, <2>7
         DEF TypeOK, Draining, ShutdownStep, CloseStop, SkipStop, WaitStop,
             ShutdownMetrics, ShutdownTraces, ShutdownMonitor, Skip, Goto
    <3>2. Phase'[g] = "draining"
      BY <2>1, <2>2, <2>4, <3>1 DEF PhaseFacts
    <3>3. Phase' = Phase
      BY <2>3, <2>5, <3>2, PhasesStay
    <3>4. Exports(g)' => Exports(g)
      <4>1. CASE Releases(d)
        BY <1>0, <4>1, ReleaseShuts DEF Exports
      <4>2. CASE CloseStop(d) \/ SkipStop(d) \/ WaitStop(d)
        BY <1>0, <2>1, <4>2 DEF CloseStop, SkipStop, WaitStop, Skip, TypeOK, GenType,
                                Exports, MetricsOpen, TracerOpen
      <4>. QED BY <1>2, <2>7, <4>1, <4>2 DEF ShutdownStep, Releases
    <3>5. CASE Exports(g)'
      <4>1. Open' = Open
        BY <2>3, <3>4, <3>5, OpenStays
      <4>. QED BY <3>3, <4>1 DEF G!gvars
    <3>6. CASE ~Exports(g)'
      <4>1. Open' = Open \ {g}
        BY <2>3, <3>6, OpenLoses
      <4>. QED BY <2>5, <3>3, <4>1 DEF G!GNext, G!Close
    <3>. QED BY <3>5, <3>6
  <2>. QED BY <2>6, <2>7
<1>. QED BY <1>1, <1>2

(* The initial states map to initial states.                                   *)
LEMMA InitRefines ==
  ASSUME Init
  PROVE  G!GInit
<1>. USE CallsAssumption
<1>1. IInv
  BY InitInv
<1>2. Phase = [s \in Starts |-> Phase[s]]
  BY DEF Phase
<1>3. CASE New
  <2>1. \A s \in Starts : Phase[s] = "new"
    BY <1>1, <1>3, PhaseRead DEF New, PhaseFacts
  <2>2. Open = {}
    BY <1>3 DEF New, NoResources, Open, MetricsOpen, TracerOpen
  <2>. QED BY <1>2, <2>1, <2>2 DEF G!GInit
<1>4. ASSUME NEW p \in Starts, NewWithProviders(p) PROVE G!GInit
  <2>1. \A s \in Starts : Phase[s] = IF s = p THEN "live" ELSE "new"
    BY <1>1, <1>4, PhaseRead DEF NewWithProviders, PhaseFacts
  <2>2. Open = {}
    BY <1>4, GivenFields DEF NewWithProviders, NoResources, Open, MetricsOpen, TracerOpen
  <2>3. Phase = [s \in Starts |-> IF s = p THEN "live" ELSE "new"]
    BY <1>2, <2>1
  <2>. QED BY <2>2, <2>3 DEF G!GInit
<1>. QED BY <1>3, <1>4 DEF Init

(* Every step maps to a step or a stutter.                                     *)
LEMMA StepRefines == IInv /\ IInv' /\ [Next]_vars => [G!GNext]_(G!gvars)
<1>. SUFFICES ASSUME IInv, IInv', [Next]_vars PROVE G!GNext \/ UNCHANGED G!gvars
  OBVIOUS
<1>1. CASE \E s \in Starts : StartCheck(s) \/ StartStep(s) \/ DetectorExits(s) \/ Serve(s)
  BY <1>1, StartRefines
<1>2. CASE \E d \in Shutdowns : ShutdownNoop(d) \/ ShutdownSwap(d) \/ ShutdownStep(d)
  BY <1>2, TakeRefines, DrainRefines
<1>3. CASE InstallForeign \/ UNCHANGED vars
  <2>1. UNCHANGED <<holder, gen, pc, call>>
    BY <1>3 DEF InstallForeign, vars, fields
  <2>2. Phase' = Phase /\ Open' = Open
    BY <2>1 DEF Phase, Open, ShutdownHas, Over, MetricsOpen, TracerOpen
  <2>. QED BY <2>2 DEF G!gvars
<1>. QED BY <1>1, <1>2, <1>3 DEF Next

(* However many Starts and Shutdowns race, and whatever fails, telemetry runs  *)
(* in generations: at most one is live, one that is over never runs again, and *)
(* none is over before its exports are closed (tel.go:172-392).                *)
THEOREM GenerationsHold == Spec => G!GSpec
<1>1. Init => G!GInit
  BY InitRefines
<1>2. IInv /\ IInv' /\ [Next]_vars => [G!GNext]_(G!gvars)
  BY StepRefines
<1>. QED BY <1>1, <1>2, Invariance, PTL DEF Spec, G!GSpec

(* What Generations promises: its types, and what its steps amount to.         *)
Promise == G!GTypeOK /\ G!OneLive /\ G!NothingLeftOpen

(* Every step of Generations keeps it.                                         *)
LEMMA PromiseStep == Promise /\ [G!GNext]_(G!gvars) => Promise'
<1>. SUFFICES ASSUME Promise, [G!GNext]_(G!gvars) PROVE Promise'
  OBVIOUS
<1>. USE DEF Promise, G!GTypeOK, G!OneLive, G!NothingLeftOpen, G!Move
<1>1. ASSUME NEW g \in Starts, G!Build(g) PROVE Promise'
  BY <1>1 DEF G!Build
<1>2. ASSUME NEW g \in Starts, G!Fail(g) PROVE Promise'
  BY <1>2 DEF G!Fail
<1>3. ASSUME NEW g \in Starts, G!GoLive(g) PROVE Promise'
  BY <1>3 DEF G!GoLive
<1>4. ASSUME NEW g \in Starts, G!Retire(g) PROVE Promise'
  BY <1>4 DEF G!Retire
<1>5. ASSUME NEW g \in Starts, G!Close(g) PROVE Promise'
  BY <1>5 DEF G!Close
<1>6. ASSUME NEW g \in Starts, G!Finish(g) PROVE Promise'
  BY <1>6 DEF G!Finish
<1>7. ASSUME UNCHANGED G!gvars PROVE Promise'
  BY <1>7 DEF G!gvars
<1>. QED BY <1>1, <1>2, <1>3, <1>4, <1>5, <1>6, <1>7 DEF G!GNext

(* So at most one generation of a Telemetry is live, and one that is over, or  *)
(* was never built, exports nothing, for every number of Starts and Shutdowns  *)
(* (tel.go:172-392).                                                           *)
THEOREM GenerationsPromise == Spec => [](G!OneLive /\ G!NothingLeftOpen)
<1>1. G!GInit => Promise
  BY DEF G!GInit, Promise, G!GTypeOK, G!OneLive, G!NothingLeftOpen
<1>2. Promise => G!OneLive /\ G!NothingLeftOpen
  BY DEF Promise
<1>. QED BY <1>1, <1>2, PromiseStep, GenerationsHold, PTL DEF G!GSpec

-----------------------------------------------------------------------------
(* The monitor's requests.  They change nothing of t, and what a Shutdown or a *)
(* Start does beside them it does in Lifecycle: the invariant carries over.    *)

RequestStep(r) == Accept(r) \/ Handle(r) \/ RecoverMonitor(r)

(* Requests to the monitor leave the Telemetry alone.                          *)
LEMMA RequestsAside ==
  ASSUME NEW r \in Requests, RequestStep(r)
  PROVE  UNCHANGED vars
BY DEF RequestStep, Accept, Handle, Healthz, LoadTel, ReadHeld, Respond, RecoverMonitor

(* The monitor's steps are steps of the lifecycle or stutter.                  *)
LEMMA MonitorIsLifecycle == [MNext]_mvars => [Next]_vars
<1>. SUFFICES ASSUME [MNext]_mvars PROVE [Next]_vars
  OBVIOUS
<1>1. ASSUME NEW r \in Requests, RequestStep(r) PROVE UNCHANGED vars
  BY <1>1, RequestsAside
<1>2. ASSUME NEW d \in Shutdowns, ShutdownWaits(d) PROVE ShutdownStep(d)
  BY <1>2 DEF ShutdownWaits
<1>3. UNCHANGED mvars => UNCHANGED vars
  BY DEF mvars
<1>. QED BY <1>1, <1>2, <1>3 DEF MNext, Next, RequestStep

(* How a Shutdown gets to its end: it found nothing started, or it has reset   *)
(* the tracer provider; then what it took stays on its record.                 *)
LEMMA Ending ==
  ASSUME TypeOK, [Next]_vars, NEW d \in Shutdowns, pc'[d] = "done"
  PROVE  /\ pc[d] \in {"idle", "global", "done"} /\ call'[d] = call[d]
         /\ pc[d] = "global" => ResetGlobal(d)
<1>. USE CallsAssumption
<1>. USE DEF TypeOK, Goto, Skip
<1>1. ASSUME NEW s \in Starts, StartCheck(s) \/ StartStep(s) \/ DetectorExits(s) \/ Serve(s)
      PROVE  pc'[d] = pc[d] /\ call' = call
  BY <1>1 DEF StartCheck, StartStep, InitProviders, InitFails, SkipMonitor, Listen,
              ListenFails, Commit, Install, LoseRace, Activate, RollbackMonitor,
              RollbackProviders, RollbackGlobal, ClearInstall, DetectorExits, Serve
<1>2. ASSUME NEW e \in Shutdowns, e # d,
             ShutdownNoop(e) \/ ShutdownSwap(e) \/ ShutdownStep(e)
      PROVE  pc'[d] = pc[d] /\ call'[d] = call[d]
  BY <1>2 DEF ShutdownNoop, ShutdownSwap, BeginShutdown, Take, ShutdownStep, CloseStop,
              SkipStop, WaitStop, ShutdownMetrics, ShutdownTraces, ShutdownMonitor,
              MayFail, ResetGlobal
<1>3. ASSUME ShutdownNoop(d) PROVE pc[d] = "idle" /\ call' = call
  BY <1>3 DEF ShutdownNoop
<1>4. ASSUME ResetGlobal(d) PROVE pc[d] = "global" /\ call' = call
  BY <1>4 DEF ResetGlobal
<1>5. ~ShutdownSwap(d) /\ ~CloseStop(d) /\ ~SkipStop(d) /\ ~WaitStop(d)
      /\ ~ShutdownMetrics(d) /\ ~ShutdownTraces(d) /\ ~ShutdownMonitor(d)
  BY DEF ShutdownSwap, BeginShutdown, CloseStop, SkipStop, WaitStop, ShutdownMetrics,
         ShutdownTraces, ShutdownMonitor
<1>6. ASSUME InstallForeign \/ UNCHANGED vars PROVE pc' = pc /\ call' = call
  BY <1>6 DEF InstallForeign, vars
<1>. HIDE DEF TypeOK, Goto, Skip
<1>7. CASE \E s \in Starts : StartCheck(s) \/ StartStep(s) \/ DetectorExits(s) \/ Serve(s)
  BY <1>1, <1>7
<1>8. CASE \E e \in Shutdowns : ShutdownNoop(e) \/ ShutdownSwap(e) \/ ShutdownStep(e)
  BY <1>2, <1>3, <1>4, <1>5, <1>8 DEF ShutdownStep
<1>9. CASE InstallForeign \/ UNCHANGED vars
  BY <1>6, <1>9
<1>. QED BY <1>7, <1>8, <1>9 DEF Next

(* The inductive invariant: Lifecycle's, and the three of the monitor.         *)
MInv == /\ IInv
        /\ MTypeOK
        /\ StatsOfOneGeneration
        /\ QuietAfterShutdown

(* The types of the requests to the monitor.                                   *)
LEMMA MTypesStep ==
  ASSUME IInv, MTypeOK, [MNext]_mvars
  PROVE  MTypeOK'
<1>. USE CallsAssumption DEF MTypeOK, RGoto, Active
<1>1. ASSUME NEW r \in Requests, Accept(r) PROVE MTypeOK'
  BY <1>1 DEF Accept
<1>2. ASSUME NEW r \in Requests, Healthz(r) PROVE MTypeOK'
  BY <1>2 DEF Healthz
<1>3. ASSUME NEW r \in Requests, LoadTel(r) PROVE MTypeOK'
  BY <1>3 DEF LoadTel
<1>4. ASSUME NEW r \in Requests, ReadHeld(r) PROVE MTypeOK'
  BY <1>4 DEF ReadHeld, IInv, TypeOK
<1>5. ASSUME NEW r \in Requests, Respond(r) PROVE MTypeOK'
  BY <1>5 DEF Respond
<1>6. ASSUME NEW r \in Requests, RecoverMonitor(r) PROVE MTypeOK'
  BY <1>6 DEF RecoverMonitor
<1>7. CASE UNCHANGED rvars
  BY <1>7 DEF rvars
<1>. HIDE DEF MTypeOK, RGoto, Active
<1>. QED BY <1>1, <1>2, <1>3, <1>4, <1>5, <1>6, <1>7
  DEF MNext, Handle, ShutdownWaits, mvars

(* What /stats answers is read from one generation.                            *)
LEMMA StatsStep ==
  ASSUME IInv, MTypeOK, StatsOfOneGeneration, [MNext]_mvars
  PROVE  StatsOfOneGeneration'
<1>1. ASSUME NEW r \in Requests, ReadHeld(r) PROVE StatsOfOneGeneration'
  <2>1. /\ det'[r] \in {holder, None} /\ reg'[r] = holder
        /\ \A q \in Requests \ {r} : det'[q] = det[q] /\ reg'[q] = reg[q]
    BY <1>1 DEF ReadHeld, MTypeOK
  <2>. QED BY <2>1 DEF StatsOfOneGeneration
<1>2. CASE UNCHANGED <<det, reg>>
  BY <1>2 DEF StatsOfOneGeneration
<1>3. ASSUME NEW r \in Requests,
             Accept(r) \/ Healthz(r) \/ LoadTel(r) \/ Respond(r) \/ RecoverMonitor(r)
      PROVE  UNCHANGED <<det, reg>>
  BY <1>3 DEF Accept, Healthz, LoadTel, Respond, RecoverMonitor
<1>. QED BY <1>1, <1>2, <1>3 DEF MNext, Handle, ShutdownWaits, mvars, rvars

(* No request begins on a generation whose Shutdown has returned, and the last *)
(* step of a Shutdown waits for the ones that have begun.                      *)
LEMMA QuietStep ==
  ASSUME IInv, MTypeOK, QuietAfterShutdown, [MNext]_mvars
  PROVE  QuietAfterShutdown'
<1>. SUFFICES ASSUME NEW d \in Shutdowns, pc'[d] = "done", call'[d].gen # None,
                     call'[d].err # "monitor"
              PROVE  \A r \in Requests : ~(via'[r] = call'[d].gen /\ rpc'[r] \in Active)
  BY DEF QuietAfterShutdown, Busy
<1>. DEFINE s == call[d].gen
<1>0. TypeOK /\ [Next]_vars
  BY MonitorIsLifecycle DEF IInv
<1>1. /\ pc[d] \in {"idle", "global", "done"} /\ call'[d] = call[d]
      /\ pc[d] = "global" => ResetGlobal(d)
  BY <1>0, Ending
<1>2. pc[d] # "idle" /\ s \in Starts
  BY <1>0, <1>1 DEF IInv, Owners, TypeOK, CallType
<1>3. ~MonitorOpen(s)
  BY <1>1, <1>2 DEF IInv, Drained, DrainedTo
<1>4. CASE pc[d] = "done"
  <2>1. ~Busy(s)
    BY <1>1, <1>4 DEF QuietAfterShutdown
  <2>2. ASSUME NEW r \in Requests, RequestStep(r), NEW q \in Requests
        PROVE  ~(via'[q] = s /\ rpc'[q] \in Active)
    <3>1. ~(via[q] = s /\ rpc[q] \in Active)
      BY <2>1 DEF Busy
    <3>2. CASE q # r
      BY <2>2, <3>1, <3>2 DEF RequestStep, Accept, Handle, Healthz, LoadTel, ReadHeld,
                              Respond, RecoverMonitor, RGoto, MTypeOK
    <3>3. CASE q = r /\ Accept(r)
      <4>1. PICK x \in Starts : gen[x].listener = "serving" /\ via' = [via EXCEPT ![r] = x]
        BY <3>3 DEF Accept
      <4>2. x # s
        BY <1>3, <4>1 DEF MonitorOpen
      <4>. QED BY <3>3, <4>1, <4>2 DEF MTypeOK
    <3>4. CASE q = r /\ ~Accept(r)
      BY <2>2, <3>1, <3>4 DEF RequestStep, Handle, Healthz, LoadTel, ReadHeld, Respond,
                              RecoverMonitor, RGoto, MTypeOK, Active
    <3>. QED BY <3>2, <3>3, <3>4
  <2>3. CASE UNCHANGED rvars
    BY <1>1, <2>1, <2>3 DEF Busy, rvars
  <2>4. CASE \E r \in Requests : RequestStep(r)
    BY <1>1, <2>2, <2>4
  <2>. QED BY <2>3, <2>4 DEF MNext, RequestStep, ShutdownWaits, mvars
<1>5. CASE pc[d] = "global"
  <2>1. pc' # pc
    BY <1>0, <1>5 DEF TypeOK
  <2>2. \A r \in Requests : ~RequestStep(r)
    BY <2>1, RequestsAside DEF vars
  <2>3. ASSUME NEW x \in Starts, StartCheck(x) \/ StartStep(x) \/ DetectorExits(x) \/ Serve(x)
        PROVE  pc'[d] = pc[d]
    BY <1>0, <2>3, CallsAssumption
       DEF TypeOK, Goto, Skip, StartCheck, StartStep, InitProviders, InitFails, SkipMonitor,
           Listen, ListenFails, Commit, Install, LoseRace, Activate, RollbackMonitor,
           RollbackProviders, RollbackGlobal, ClearInstall, DetectorExits, Serve
  <2>4. ASSUME NEW e \in Shutdowns, e # d,
               ShutdownNoop(e) \/ ShutdownSwap(e) \/ ShutdownStep(e)
        PROVE  pc'[d] = pc[d]
    BY <1>0, <2>4
       DEF TypeOK, Goto, Skip, ShutdownNoop, ShutdownSwap, BeginShutdown, ShutdownStep,
           CloseStop, SkipStop, WaitStop, ShutdownMetrics, ShutdownTraces,
           ShutdownMonitor, ResetGlobal
  <2>5. ~ShutdownNoop(d) /\ ~ShutdownSwap(d)
    BY <1>5 DEF ShutdownNoop, ShutdownSwap, BeginShutdown, Skip, Goto
  <2>6. ShutdownWaits(d)
    BY <1>5, <2>1, <2>2, <2>3, <2>4, <2>5 DEF MNext, RequestStep, ShutdownWaits, mvars, vars
  <2>7. ~Busy(s) /\ UNCHANGED rvars
    BY <1>1, <1>5, <2>6 DEF ShutdownWaits, StopWaits, WaitedFor
  <2>. QED BY <1>1, <2>7 DEF Busy, rvars
<1>. QED BY <1>1, <1>2, <1>4, <1>5

(* Every state the monitor's requests and the calls can reach together         *)
(* satisfies the inductive invariants of both.                                 *)
THEOREM MonitorInvariance == MSpec => []MInv
<1>1. MInit => MInv
  BY InitInv, CallsAssumption
     DEF MInit, Init, New, NewWithProviders, MInv, MTypeOK, Active, StatsOfOneGeneration,
         QuietAfterShutdown, Busy
<1>2. MInv /\ [MNext]_mvars => MInv'
  BY MonitorIsLifecycle, StepInv, MTypesStep, StatsStep, QuietStep DEF MInv
<1>. QED BY <1>1, <1>2, PTL DEF MSpec

(* Requests and the wait for them change none of it: the composition runs in   *)
(* generations, too (tel.go:172-392, monitor.go:33-79).                        *)
THEOREM GenerationsUnderLoad == MSpec => G!GSpec
<1>1. MInit => Init
  BY DEF MInit
<1>2. [MNext]_mvars => [Next]_vars
  BY MonitorIsLifecycle
<1>. QED BY <1>1, <1>2, GenerationsHold, PTL DEF MSpec, Spec

(* However t is shut down and started again while a response is put together,  *)
(* its counters and its instruments are those of one generation                *)
(* (tel.go:443-458).                                                           *)
THEOREM StatsWhole == MSpec => []StatsOfOneGeneration
<1>1. MInv => StatsOfOneGeneration
  BY DEF MInv
<1>. QED BY <1>1, MonitorInvariance, PTL

(* A Shutdown that returned without an error of the monitor has no request of  *)
(* its generation behind it, and none comes after it (monitor.go:67-79).       *)
THEOREM QuietBehindShutdown == MSpec => []QuietAfterShutdown
<1>1. MInv => QuietAfterShutdown
  BY DEF MInv
<1>. QED BY <1>1, MonitorInvariance, PTL

=============================================================================
