------------------------- MODULE LifecycleRefinement -------------------------
(* Concurrent Starts and Shutdowns implement Generations: the phase of a       *)
(* generation is read off who holds it.                                        *)
EXTENDS Lifecycle

(* Over for good: its Shutdown has returned, or the Start that built it, or    *)
(* never got to build it, has returned without committing it.                  *)
Over(s) == \/ \E d \in Shutdowns : call[d].gen = s /\ pc[d] = "done"
           \/ pc[s] \in Returned /\ holder # s /\ ~ShutdownHas(s, Draining)

Phase == [s \in Starts |->
            IF holder = s THEN "live"
            ELSE IF ShutdownHas(s, Draining) THEN "draining"
            ELSE IF Over(s) THEN "gone"
            ELSE IF pc[s] \in {"idle", "init"} THEN "new"
            ELSE "built"]

Open == {s \in Starts : MetricsOpen(s) \/ TracerOpen(s)}

G == INSTANCE Generations WITH Gens <- Starts, phase <- Phase, open <- Open

(* Start and Shutdown implement generations: at most one is live, one that is  *)
(* over never comes back, exports end before it is over, and every one that    *)
(* was begun or taken down settles (tel.go:172-392).                           *)
ImplementsGenerations == G!GFairSpec
=============================================================================
