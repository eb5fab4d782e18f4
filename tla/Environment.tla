----------------------------- MODULE Environment -----------------------------
(* The configuration as a function of the environment: the generated loader    *)
(* (config_env_gen.go), which reads a snapshot and reports what it cannot      *)
(* read, and applyNestedEnv (config_env.go), which reads the variables of the  *)
(* process and falls back without a word.                                      *)
(*                                                                             *)
(* A variable is unset, empty, readable as whatever type its field has, or     *)
(* garbled, which only a string takes.  A field holds the value of its         *)
(* variable or a default, written as the source writes it.                     *)
CONSTANTS Hostname,         \* os.Hostname
          HostService       \* the same in lower case, with "_" for every "-"

Values == {"unset", "empty", "readable", "garbled"}

Field(kind, default) == [kind |-> kind, default |-> default]

(* loadConfig: a block per variable, with the default in its struct tag.       *)
Generated ==
  [ MONITOR_ADDR |-> Field("string", "127.0.0.1:8011"),
    MONITOR_ENABLE |-> Field("bool", "true"),
    TEL_COLLECTOR_GRPC_ADDR |-> Field("string", "127.0.0.1:4317"),
    TEL_COLLECTOR_TLS_SERVER_NAME |-> Field("string", ""),
    TEL_METRIC_PERIODIC_INTERVAL_SEC |-> Field("int", "15"),
    TEL_EXPORT_INTERVAL_SEC |-> Field("int", "0"),
    TEL_EXPORTER_WITH_INSECURE |-> Field("bool", "true"),
    TEL_ENABLE |-> Field("bool", "true"),
    TEL_ENABLE_COMPRESSION |-> Field("bool", "true"),
    TEL_SERVICE_NAME |-> Field("string", ""),
    POD_NAME |-> Field("string", ""),
    NAMESPACE |-> Field("string", "default"),
    DEPLOY_ENVIRONMENT |-> Field("string", "dev"),
    VERSION |-> Field("string", "dev"),
    LOG_LEVEL |-> Field("string", "info"),
    LOG_ENCODE |-> Field("string", "console"),
    LOGS_MAX_MESSAGES_PER_SECOND |-> Field("int", "0"),
    LOGS_MAX_LEVEL_MESSAGES_PER_SECOND |-> Field("string", ""),
    DEBUG |-> Field("bool", "false") ]

(* applyNestedEnv, with the constants of defaults.go.                          *)
Nested ==
  [ TEL_TRACES_ENABLE |-> Field("bool", "true"),
    TEL_TRACES_SAMPLER |-> Field("string", "parentbased_statustraceidratio:0.1"),
    METRICS_CARDINALITY_DETECTOR_MAX_CARDINALITY |-> Field("int", "100"),
    METRICS_CARDINALITY_DETECTOR_MAX_INSTRUMENTS |-> Field("int", "500"),
    METRICS_CARDINALITY_DETECTOR_DIAGNOSTIC_INTERVAL |-> Field("duration", "10m"),
    METRICS_CARDINALITY_WARN_UTILIZATION_PCT |-> Field("int", "80"),
    METRICS_CARDINALITY_DETECTOR_ENABLE |-> Field("bool", "true"),
    METRICS_CARDINALITY_DENY_UNKNOWN |-> Field("bool", "false"),
    METRICS_ENABLE_RETRY |-> Field("bool", "false"),
    OTEL_COLLECTOR_TLS_CA_CERT |-> Field("string", ""),
    OTEL_COLLECTOR_TLS_CLIENT_CERT |-> Field("string", ""),
    OTEL_COLLECTOR_TLS_CLIENT_KEY |-> Field("string", "") ]

(* A record on top of another.                                                 *)
Over(f, g) == [k \in DOMAIN f \cup DOMAIN g |-> IF k \in DOMAIN f THEN f[k] ELSE g[k]]

Fields == Over(Generated, Nested)
Keys == DOMAIN Fields
EnvKeys == Keys \cup {"HOSTNAME"}
Environments == [EnvKeys -> Values]
Zero(kind) == CASE kind = "bool" -> "false" [] kind = "string" -> "" [] OTHER -> "0"

(* Config{}.                                                                   *)
ZeroConfig == [k \in Keys |-> Zero(Fields[k].kind)]

IsSet(v) == v \notin {"unset", "empty"}
Reads(k, v) == IsSet(v) /\ (Fields[k].kind = "string" \/ v = "readable")

(* The variables loadConfig reports an error for.                              *)
Errors(snap) == {k \in DOMAIN Generated : IsSet(snap[k]) /\ ~Reads(k, snap[k])}

(* loadConfig, when it reports none: the nested sections stay zero.            *)
LoadConfig(snap) ==
  [k \in Keys |-> CASE k \in DOMAIN Nested -> ZeroConfig[k]
                    [] k \in DOMAIN Generated /\ IsSet(snap[k]) -> snap[k]
                    [] OTHER -> Generated[k].default]

(* resolvePod.                                                                 *)
ResolvePod(cfg, env) ==
  CASE cfg["POD_NAME"] # "" -> cfg["POD_NAME"]
    [] cfg["POD_NAME"] = "" /\ IsSet(env["POD_NAME"]) -> env["POD_NAME"]
    [] OTHER -> IF IsSet(env["HOSTNAME"]) THEN env["HOSTNAME"] ELSE Hostname

(* applyNestedEnv, then the service and the pod when nothing names them.       *)
ApplyNestedEnv(cfg, env) ==
  [k \in Keys |->
     CASE k \in DOMAIN Nested ->
            IF Reads(k, env[k]) THEN env[k] ELSE Nested[k].default
       [] k = "TEL_SERVICE_NAME" /\ cfg[k] = "" ->
            IF HostService = "" THEN "unknown" ELSE HostService
       [] k = "POD_NAME" -> ResolvePod(cfg, env)
       [] OTHER -> cfg[k]]

(* LoadDotEnv: a variable that is set, if only to the empty string, is kept.   *)
Overlay(env, file) ==
  [k \in EnvKeys |-> IF env[k] = "unset" /\ k \in DOMAIN file THEN file[k] ELSE env[k]]

-----------------------------------------------------------------------------
(* DefaultConfig; a field it does not mention is zero.                         *)
DefaultFields ==
  [ TEL_SERVICE_NAME |-> HostService, POD_NAME |-> Hostname, VERSION |-> "dev",
    NAMESPACE |-> "default", DEPLOY_ENVIRONMENT |-> "dev", LOG_ENCODE |-> "console",
    LOG_LEVEL |-> "info", MONITOR_ENABLE |-> "true", MONITOR_ADDR |-> "127.0.0.1:8011",
    TEL_COLLECTOR_GRPC_ADDR |-> "127.0.0.1:4317", TEL_EXPORTER_WITH_INSECURE |-> "true",
    TEL_ENABLE |-> "true", TEL_ENABLE_COMPRESSION |-> "true",
    TEL_METRIC_PERIODIC_INTERVAL_SEC |-> "15",
    METRICS_CARDINALITY_DETECTOR_MAX_CARDINALITY |-> "100",
    METRICS_CARDINALITY_DETECTOR_MAX_INSTRUMENTS |-> "500",
    METRICS_CARDINALITY_DETECTOR_DIAGNOSTIC_INTERVAL |-> "10m",
    METRICS_CARDINALITY_WARN_UTILIZATION_PCT |-> "80",
    METRICS_CARDINALITY_DETECTOR_ENABLE |-> "true", TEL_TRACES_ENABLE |-> "true",
    TEL_TRACES_SAMPLER |-> "parentbased_statustraceidratio:0.1" ]
DefaultConfig == Over(DefaultFields, ZeroConfig)

(* What an environment means: a field is its variable when that can be read,   *)
(* and what DefaultConfig says otherwise; the pod is named by the first of     *)
(* POD_NAME, HOSTNAME and the host, and a service on a host without a name is  *)
(* unknown.                                                                    *)
Meaning(env) ==
  [k \in Keys |->
     IF Reads(k, env[k]) THEN env[k]
     ELSE IF k = "POD_NAME" /\ IsSet(env["HOSTNAME"]) THEN env["HOSTNAME"]
     ELSE IF k = "TEL_SERVICE_NAME" /\ HostService = "" THEN "unknown"
     ELSE DefaultConfig[k]]
=============================================================================
