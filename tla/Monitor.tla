------------------------------- MODULE Monitor -------------------------------
(* The monitor server's requests (monitor.go) while the Telemetry they ask     *)
(* about is started, shut down and started again: /healthz answers by itself,  *)
(* /stats reads what t holds under t.mu, and http.Server.Shutdown waits for    *)
(* the requests it finds active.  Composes with Lifecycle: every step of a     *)
(* Start or Shutdown is one of Lifecycle's, held back only by that wait.  The  *)
(* application's own tracer provider is left to Lifecycle: no step reads it.   *)
EXTENDS LifecycleRefinement

CONSTANT Requests      \* the requests of clients, one element each

VARIABLES
  rpc,     \* where each request is
  via,     \* [r] the generation whose listener accepted it
  det,     \* [r] the generation of the detector it read from t, None for nil
  reg      \* [r] the generation of the registry it read, None for the no-op one

rvars == <<rpc, via, det, reg>>
mvars == <<vars, rvars>>

Active == {"accepted", "lock", "respond"}

(* A request is served by a generation from the moment it is accepted.         *)
MTypeOK ==
  /\ rpc \in [Requests -> {"idle", "done", "failed"} \cup Active]
  /\ via \in [Requests -> Starts \cup {None}]
  /\ \A r \in Requests : rpc[r] # "idle" => via[r] # None
  /\ det \in [Requests -> Starts \cup {None}]
  /\ reg \in [Requests -> Starts \cup {None}]

MInit ==
  /\ Init
  /\ rpc = [r \in Requests |-> "idle"]
  /\ via = [r \in Requests |-> None]
  /\ det = [r \in Requests |-> None]
  /\ reg = [r \in Requests |-> None]

RGoto(r, from, to) == rpc[r] = from /\ rpc' = [rpc EXCEPT ![r] = to]

(* The requests http.Server.Shutdown finds active on generation s.             *)
Busy(s) == \E r \in Requests : via[r] = s /\ rpc[r] \in Active

-----------------------------------------------------------------------------
(* Slips one could make in the steps below.                                    *)

(* A Shutdown that keeps t.mu until it has drained what it took.               *)
ReadUnlessDraining(r) ==
  /\ \A d \in Shutdowns : pc[d] \notin Draining
  /\ RGoto(r, "lock", "respond")
  /\ det' = [det EXCEPT ![r] = IF started /\ gen[holder].detector # "none"
                               THEN holder ELSE None]
  /\ reg' = [reg EXCEPT ![r] = holder]
  /\ UNCHANGED <<vars, via>>

(* CardinalityStats taking t.mu once for the detector, once for the registry.  *)
ReadTwice(r) ==
  \/ /\ RGoto(r, "lock", "half")
     /\ det' = [det EXCEPT ![r] = IF started /\ gen[holder].detector # "none"
                                  THEN holder ELSE None]
     /\ UNCHANGED <<vars, via, reg>>
  \/ /\ RGoto(r, "half", "respond")
     /\ reg' = [reg EXCEPT ![r] = holder]
     /\ UNCHANGED <<vars, via, det>>

(* A monitor that stops with http.Server.Close.                                *)
NeverWaits(s) == TRUE

-----------------------------------------------------------------------------
(* The requests                                                                *)

(* Serve accepts a connection and calls the mux.                               *)
Accept(r) ==
  \E s \in Starts :
    /\ gen[s].listener = "serving"
    /\ RGoto(r, "idle", "accepted")
    /\ via' = [via EXCEPT ![r] = s]
    /\ UNCHANGED <<vars, det, reg>>

Healthz(r) == RGoto(r, "accepted", "done") /\ UNCHANGED <<vars, via, det, reg>>

(* statsHandler: m.tel is nil until Activate has bound the monitor.            *)
LoadTel(r) ==
  /\ RGoto(r, "accepted", IF gen[via[r]].bound THEN "lock" ELSE "respond")
  /\ UNCHANGED <<vars, via, det, reg>>

(* CardinalityStats: t's detector and registry, under one RLock.               *)
ReadHeld(r) ==
  /\ RGoto(r, "lock", "respond")
  /\ det' = [det EXCEPT ![r] = IF started /\ gen[holder].detector # "none"
                               THEN holder ELSE None]
  /\ reg' = [reg EXCEPT ![r] = holder]
  /\ UNCHANGED <<vars, via>>

(* What was read is counted, encoded and written; it is the request's own.     *)
Respond(r) == RGoto(r, "respond", "done") /\ UNCHANGED <<vars, via, det, reg>>

(* recoverMonitor: a panicking handler is logged and answered with 500.        *)
RecoverMonitor(r) ==
  /\ rpc[r] \in Active
  /\ rpc' = [rpc EXCEPT ![r] = "failed"]
  /\ UNCHANGED <<vars, via, det, reg>>

Handle(r) == Healthz(r) \/ LoadTel(r) \/ ReadHeld(r) \/ Respond(r)

-----------------------------------------------------------------------------
(* http.Server.Shutdown returns when its server has no active request, or with *)
(* the context's error.                                                        *)
WaitedFor(s) == ~Busy(s)

StopWaits(d) == pc[d] = "global" => WaitedFor(call[d].gen) \/ call[d].err = "monitor"
RollbackWaits(s) == pc[s] = "loseProviders" => WaitedFor(s)

ShutdownWaits(d) == ShutdownStep(d) /\ StopWaits(d) /\ UNCHANGED rvars
StartWaits(s) == StartStep(s) /\ RollbackWaits(s) /\ UNCHANGED rvars

MNext ==
  \/ \E s \in Starts : /\ StartCheck(s) \/ StartStep(s) \/ DetectorExits(s) \/ Serve(s)
                       /\ UNCHANGED rvars
  \/ \E d \in Shutdowns : \/ ShutdownWaits(d)
                          \/ (ShutdownNoop(d) \/ ShutdownSwap(d)) /\ UNCHANGED rvars
  \/ \E r \in Requests : Accept(r) \/ Handle(r) \/ RecoverMonitor(r)

(* As in Lifecycle; a handler that has begun goes on, and its response is      *)
(* bounded by the server's WriteTimeout.  The context of a Shutdown, or of the *)
(* Start that rolls its monitor back, may end the wait but need not.           *)
MFairness ==
  /\ \A s \in Starts : /\ WF_mvars(StartWaits(s))
                       /\ WF_mvars(DetectorExits(s) /\ UNCHANGED rvars)
                       /\ WF_mvars(Serve(s) /\ UNCHANGED rvars)
  /\ \A d \in Shutdowns : WF_mvars(ShutdownWaits(d))
  /\ \A r \in Requests : WF_mvars(Handle(r))

MSpec == MInit /\ [][MNext]_mvars
MFairSpec == MSpec /\ MFairness

-----------------------------------------------------------------------------
(* The counters and the instruments one response reports belong to one         *)
(* generation, whatever restarts happen while it is put together               *)
(* (tel.go:443-458).                                                           *)
StatsOfOneGeneration == \A r \in Requests : det[r] # None => det[r] = reg[r]

(* A Shutdown whose monitor stopped without an error has left no request of it *)
(* running, also when the exporters before it failed (monitor.go:67-79,        *)
(* tel.go:368-386).                                                            *)
QuietAfterShutdown ==
  \A d \in Shutdowns :
    pc[d] = "done" /\ call[d].gen # None /\ call[d].err # "monitor" => ~Busy(call[d].gen)

(* Every accepted request is answered: the wait of Shutdown for the requests   *)
(* and theirs for t.mu never meet (tel.go:335-366, 443-447, monitor.go:106).   *)
RequestsAnswered == \A r \in Requests : rpc[r] \in Active ~> rpc[r] \in {"done", "failed"}
=============================================================================
