------------------------------ MODULE MCRequests ------------------------------
(* Requests for TLC: one request of a trace of its own that a ratio of one     *)
(* half drops, and a remote trace that it keeps.                               *)
EXTENDS Requests, TLC

CONSTANTS r1

MCTraces == {r1, Remote}
MCTenthOf == (r1 :> 7) @@ (Remote :> 2)

Ratio(parentbased, rule, number) ==
  [parentbased |-> parentbased, rule |-> rule, number |-> number]

MCSpecs == { Blank, Ratio(FALSE, "always", {}), Ratio(FALSE, "statustraceidratio", {5}) }
=============================================================================
