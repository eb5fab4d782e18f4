------------------------------ MODULE MCMonitor ------------------------------
(* Monitor for TLC: everything on, with a port that cannot be shared; two      *)
(* monitors that may serve at once, without traces and detector; no monitor    *)
(* and no export, but a detector to stop.                                      *)
EXTENDS Monitor

MonitorConfigs ==
  { [export |-> TRUE, traces |-> TRUE, detector |-> TRUE, monitor |-> "fixed"],
    [export |-> TRUE, traces |-> FALSE, detector |-> FALSE, monitor |-> "ephemeral"],
    [export |-> FALSE, traces |-> TRUE, detector |-> TRUE, monitor |-> "off"] }
=============================================================================
