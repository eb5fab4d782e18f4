---------------------------- MODULE Generations ----------------------------
(* What Start and Shutdown promise, without saying how: telemetry runs in     *)
(* generations, at most one of them live, and a generation that is over never *)
(* runs again and leaves nothing open.                                        *)
CONSTANT Gens

VARIABLES phase,   \* [g] "new", "built", "live", "draining" or "gone"
          open     \* the generations with a pipeline that still exports

gvars == <<phase, open>>

GTypeOK == /\ phase \in [Gens -> {"new", "built", "live", "draining", "gone"}]
           /\ open \subseteq Gens

(* One generation may have been live before any was built: with providers of *)
(* the application's own there is nothing of it to open.                      *)
GInit == /\ \/ phase = [g \in Gens |-> "new"]
            \/ \E l \in Gens : phase = [g \in Gens |-> IF g = l THEN "live" ELSE "new"]
         /\ open = {}

Move(g, from, to) == phase[g] = from /\ phase' = [phase EXCEPT ![g] = to]

(* Its resources exist, seen by their builder only.                           *)
Build(g) == /\ Move(g, "new", "built")
            /\ open' \in {open, open \cup {g}}

(* It never gets that far: telemetry runs already, or an exporter fails.      *)
Fail(g) == Move(g, "new", "gone") /\ UNCHANGED open

(* It begins to serve the application, which no other generation does.        *)
GoLive(g) == /\ \A h \in Gens : phase[h] # "live"
             /\ Move(g, "built", "live")
             /\ UNCHANGED open

(* A Shutdown takes it away from the application ...                          *)
Retire(g) == Move(g, "live", "draining") /\ UNCHANGED open

(* ... and closes what it exports, as a Start does that gives its own up, ... *)
Close(g) == /\ phase[g] \in {"built", "draining"}
            /\ open' = open \ {g}
            /\ UNCHANGED phase

(* ... before it is over.                                                     *)
Finish(g) == /\ g \notin open
             /\ Move(g, "draining", "gone") \/ Move(g, "built", "gone")
             /\ UNCHANGED open

GNext == \E g \in Gens : Build(g) \/ Fail(g) \/ GoLive(g) \/ Retire(g)
                           \/ Close(g) \/ Finish(g)

(* A generation that is being built or drained does not stay so for ever.     *)
Settle(g) == GoLive(g) \/ Close(g) \/ Finish(g)

GSpec == GInit /\ [][GNext]_gvars
GFairSpec == GSpec /\ \A g \in Gens : WF_gvars(Settle(g))

(* At most one generation serves the application.                             *)
OneLive == \A g, h \in Gens : phase[g] = "live" /\ phase[h] = "live" => g = h

(* A generation that is over, and one that never was, export nothing.         *)
NothingLeftOpen == \A g \in open : phase[g] \in {"built", "live", "draining"}
=============================================================================
