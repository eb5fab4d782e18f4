----------------------------- MODULE MCLifecycle -----------------------------
(* Lifecycle for TLC: configurations that differ in what the properties tell   *)
(* apart, and the permutations of the calls.                                   *)
EXTENDS LifecycleRefinement, TLC

(* Everything on, with a port that cannot be shared and with port 0; no export *)
(* but a monitor and a detector; export without traces.                        *)
MCConfigs ==
  { [export |-> TRUE, traces |-> TRUE, detector |-> TRUE, monitor |-> "fixed"],
    [export |-> TRUE, traces |-> TRUE, detector |-> TRUE, monitor |-> "ephemeral"],
    [export |-> TRUE, traces |-> FALSE, detector |-> FALSE, monitor |-> "fixed"],
    [export |-> FALSE, traces |-> TRUE, detector |-> TRUE, monitor |-> "off"] }

CallSymmetry == Permutations(Starts) \cup Permutations(Shutdowns)
=============================================================================
