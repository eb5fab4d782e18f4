------------------------------ MODULE MCStartup ------------------------------
(* Startup for TLC.  Fields do not depend on each other, save for the pod and  *)
(* HOSTNAME, so several variables, one of every kind of field, share a value.  *)
EXTENDS Startup, TLC

Strings == {"LOG_LEVEL", "TEL_SERVICE_NAME", "POD_NAME", "OTEL_COLLECTOR_TLS_CA_CERT"}
Lenient == Strings \cup {"METRICS_ENABLE_RETRY"}     \* what no loader is fatal about
Varied == Lenient \cup {"TEL_ENABLE", "HOSTNAME"}

All(ks, v) == [e \in EnvKeys |-> IF e \in ks THEN v ELSE "unset"]
World(ks, v, status, lines, exit) ==
  [env |-> All(ks, v), file |-> [status |-> status, vars |-> lines], exits |-> exit]
Lines(ks, v) == [k \in ks |-> v]

(* No file, or a broken one, with an exit function that returns or not; unset  *)
(* variables with a file that has them; variables that are set, if only to the *)
(* empty string, with a file that has them too.                                *)
MCWorlds ==
  { World({}, "unset", s, <<>>, e) : s \in {"missing", "broken"}, e \in BOOLEAN } \cup
  { World({}, "unset", "read", Lines(Varied, v), TRUE) : v \in {"empty", "readable"} } \cup
  { World({}, "unset", "read", Lines(ks, "garbled"), TRUE) : ks \in {Lenient, {"TEL_ENABLE"}} } \cup
  { World(Varied, "empty", "read", Lines(Varied, "readable"), TRUE),
    World({"POD_NAME"}, "empty", "read", Lines({"HOSTNAME"}, "readable"), TRUE),
    World(Lenient, "garbled", "read", Lines(Varied, "readable"), TRUE) }

(* A variable of each of the two loaders, and one that the first reports.      *)
MCAssignments == { <<"TEL_TRACES_SAMPLER", "readable">>, <<"LOG_LEVEL", "readable">>,
                   <<"TEL_ENABLE", "garbled">> }

MCSymmetry == Permutations(Configurers)
=============================================================================
