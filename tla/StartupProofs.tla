---------------------------- MODULE StartupProofs ----------------------------
(* Init and InitWithConfig configure the process logger in the steps of        *)
(* ProcessLogger and no others, so what is proved of those holds of start-up;  *)
(* and with it InitInstallsBoth.  The configuration they read means one        *)
(* environment.  All of it for any number of calls, any environment and any    *)
(* name of the host.                                                           *)
EXTENDS Startup, ProcessLoggerProofs

(* A step of a call outside ConfigureLogger and NewWithConfig: it leaves the   *)
(* loggers and the global Telemetry alone.                                     *)
Elsewhere ==
  /\ UNCHANGED <<loggerVars, global, mixed>>
  /\ \/ UNCHANGED pc
     \/ \E i \in Configurers, to \in StartupPC \ {"logging"} :
          pc[i] # "logging" /\ pc' = [pc EXCEPT ![i] = to]

(* A step of ConfigureLogger after its first.                                  *)
Configuring(i) ==
  \/ StoreBase(i) \/ DefaultBase(i) \/ WithServiceFields(i)
  \/ StoreFull(i) \/ DefaultFull(i)

(* Configure, as far as the loggers and the global Telemetry go, ...           *)
Begins(i) ==
  /\ pc[i] = "logger" /\ pc' = [pc EXCEPT ![i] = "logging"]
  /\ InitLogger(i)
  /\ mixed' = (\E j \in Configurers : pc[j] = "logging")
  /\ UNCHANGED global

(* ... and Create.                                                             *)
Installs(i) ==
  /\ at[i] = "done"
  /\ pc[i] = "logging" /\ pc' = [pc EXCEPT ![i] = "start"]
  /\ global' = i
  /\ UNCHANGED <<loggerVars, mixed>>

-----------------------------------------------------------------------------
(* The steps that read the configuration leave the logger alone.               *)
LEMMA ConfigSteps ==
  ASSUME NEW i \in Configurers, ConfigStep(i)
  PROVE  Elsewhere
<1>1. ASSUME NEW from \in StartupPC \ {"logging"}, NEW to \in StartupPC \ {"logging"},
             Read(i, from, to)
      PROVE  Elsewhere
  BY <1>1 DEF Read, Goto, installed, Elsewhere
<1>2. CASE Init(i)
  BY <1>1, <1>2 DEF Init, StartupPC
<1>3. CASE InitWithConfig(i)
  BY <1>1, <1>3 DEF InitWithConfig, StartupPC
<1>4. CASE LoadDotEnv(i)
  <2>1. PICK to \in {"fatalConfig", "reload"} : Read(i, "dotenv", to)
    BY <1>4 DEF LoadDotEnv
  <2> QED BY <1>1, <2>1 DEF StartupPC
<1>5. CASE Reload(i)
  BY <1>1, <1>5 DEF Reload, StartupPC
<1>6. CASE Load(i)
  <2>1. PICK to \in {"nested", "fatalConfig"} : Read(i, "load", to)
    BY <1>6 DEF Load
  <2> QED BY <1>1, <2>1 DEF StartupPC
<1>7. CASE LoadNested(i)
  BY <1>1, <1>7 DEF LoadNested, StartupPC
<1>8. CASE ReloadConfig(i)
  BY <1>8 DEF ReloadConfig, installed, Elsewhere
<1> QED BY <1>2, <1>3, <1>4, <1>5, <1>6, <1>7, <1>8 DEF ConfigStep

(* So do the steps of InitWithConfig, save the one that calls ConfigureLogger. *)
LEMMA InitSteps ==
  ASSUME NEW i \in Configurers, InitStep(i)
  PROVE  Elsewhere \/ Begins(i) \/ Installs(i)
<1>1. ASSUME NEW from \in StartupPC \ {"logging"}, NEW to \in StartupPC \ {"logging"},
             Goto(i, from, to), UNCHANGED <<loggerVars, installed>>
      PROVE  Elsewhere
  BY <1>1 DEF Goto, installed, Elsewhere
<1>2. CASE Configure(i)
  BY <1>2 DEF Configure, Goto, Begins
<1>3. CASE Create(i)
  BY <1>3 DEF Create, Goto, Installs
<1>4. CASE Start(i)
  <2>1. PICK to \in {"returned", "failed", "fatalStart"} : Goto(i, "start", to)
    BY <1>4 DEF Start
  <2>2. UNCHANGED <<loggerVars, installed>>
    BY <1>4 DEF Start
  <2> QED BY <1>1, <2>1, <2>2 DEF StartupPC
<1>5. CASE FatalConfig(i)
  <2>1. UNCHANGED pc \/ Goto(i, "fatalConfig", "logger")
    BY <1>5 DEF FatalConfig
  <2>2. UNCHANGED <<loggerVars, installed>>
    BY <1>5 DEF FatalConfig
  <2> QED BY <1>1, <2>1, <2>2 DEF StartupPC, Elsewhere, installed
<1>6. CASE FatalStart(i)
  <2>1. UNCHANGED pc \/ Goto(i, "fatalStart", "nil")
    BY <1>6 DEF FatalStart
  <2>2. UNCHANGED <<loggerVars, installed>>
    BY <1>6 DEF FatalStart
  <2> QED BY <1>1, <2>1, <2>2 DEF StartupPC, Elsewhere, installed
<1> QED BY <1>2, <1>3, <1>4, <1>5, <1>6 DEF InitStep

(* Every step is one of these four.                                            *)
LEMMA Steps ==
  ASSUME [SNext]_vars
  PROVE  \/ Elsewhere
         \/ \E i \in Configurers : Begins(i) \/ Installs(i)
         \/ \E i \in Configurers : Configuring(i) /\ UNCHANGED <<pc, global, mixed>>
<1>1. ASSUME NEW i \in Configurers, LoggerStep(i)
      PROVE  Configuring(i) /\ UNCHANGED <<pc, global, mixed>>
  BY <1>1 DEF LoggerStep, Configuring, inits, installed
<1>2. CASE Setenv
  BY <1>2 DEF Setenv, installed, Elsewhere
<1>3. CASE UNCHANGED vars
  BY <1>3 DEF vars, inits, installed, Elsewhere
<1> QED BY <1>1, <1>2, <1>3, ConfigSteps, InitSteps DEF SNext

-----------------------------------------------------------------------------
(* Start-up implements the process logger: what Agreement says of it holds     *)
(* during any number of calls of Init and InitWithConfig (config_env.go:147).  *)
THEOREM StartupAgreement == SSpec => []LoggersAgree
<1>1. SInit => LInit
  BY DEF SInit
<1>2. [SNext]_vars => [LNext]_loggerVars
  <2> SUFFICES ASSUME [SNext]_vars PROVE [LNext]_loggerVars
    OBVIOUS
  <2>1. CASE Elsewhere
    BY <2>1 DEF Elsewhere
  <2>2. ASSUME NEW i \in Configurers, Begins(i) PROVE LNext
    BY <2>2 DEF Begins, LNext
  <2>3. ASSUME NEW i \in Configurers, Installs(i) PROVE UNCHANGED loggerVars
    BY <2>3 DEF Installs
  <2>4. ASSUME NEW i \in Configurers, Configuring(i) PROVE LNext
    BY <2>4 DEF Configuring, LNext
  <2> QED BY <2>1, <2>2, <2>3, <2>4, Steps
<1>3. SSpec => LSpec
  BY <1>1, <1>2, PTL DEF SSpec, LSpec
<1> QED BY <1>3, Agreement, PTL

-----------------------------------------------------------------------------
(* While the last call did not run into another, the one that configures the   *)
(* logger is that, and after it the global Telemetry is its own.               *)
SType ==
  /\ pc \in [Configurers -> StartupPC]
  /\ at \in [Configurers -> PC]
  /\ overlap \in BOOLEAN /\ mixed \in BOOLEAN

InStep == \A i \in Configurers : Active(i) => pc[i] = "logging"

OneByOne ==
  /\ overlap => mixed
  /\ ~mixed => \A i \in Configurers : pc[i] = "logging" => newest = i
  /\ ~mixed /\ (\A i \in Configurers : pc[i] # "logging") => global = newest

Ordered == SType /\ InStep /\ OneByOne

(* Ordered holds at first and is kept by every step.                           *)
LEMMA OrderedInit == SInit => Ordered
<1> SUFFICES ASSUME SInit PROVE Ordered
  OBVIOUS
<1>1. /\ pc = [i \in Configurers |-> "idle"] /\ at = [i \in Configurers |-> "idle"]
      /\ overlap = FALSE /\ mixed = FALSE /\ global = Package /\ newest = Package
  BY DEF SInit, LInit
<1> QED BY <1>1 DEF Ordered, SType, InStep, OneByOne, StartupPC, PC, Active

(* The inductive step.                                                         *)
LEMMA OrderedNext == Ordered /\ [SNext]_vars => Ordered'
<1> SUFFICES ASSUME Ordered, [SNext]_vars PROVE Ordered'
  OBVIOUS
<1>1. SType /\ InStep /\ OneByOne
  BY DEF Ordered
<1>2. CASE Elsewhere
  <2>1. UNCHANGED <<at, newest, overlap, global, mixed>>
    BY <1>2 DEF Elsewhere, loggerVars, calls
  <2>2. /\ pc' \in [Configurers -> StartupPC]
        /\ \A i \in Configurers : (pc'[i] = "logging") <=> (pc[i] = "logging")
    BY <1>1, <1>2 DEF Elsewhere, SType
  <2> QED BY <1>1, <2>1, <2>2 DEF Ordered, SType, InStep, OneByOne, Active
<1>3. ASSUME NEW c \in Configurers, Begins(c) PROVE Ordered'
  <2>1. /\ at[c] = "idle" /\ at' = [at EXCEPT ![c] = "store"] /\ newest' = c
        /\ overlap' = (\E d \in Configurers : Active(d))
    BY <1>3 DEF Begins, InitLogger, Enter, To
  <2>2. /\ pc[c] = "logger" /\ pc' = [pc EXCEPT ![c] = "logging"] /\ UNCHANGED global
        /\ mixed' = (\E j \in Configurers : pc[j] = "logging")
    BY <1>3 DEF Begins
  <2>3. SType'
    BY <1>1, <2>1, <2>2 DEF SType, StartupPC, PC
  <2>4. InStep'
    BY <1>1, <2>1, <2>2 DEF SType, InStep, Active
  <2>5. overlap' => mixed'
    BY <1>1, <2>1, <2>2, Zenon DEF InStep, OneByOne
  <2>6. ASSUME ~mixed', NEW i \in Configurers, pc'[i] = "logging" PROVE newest' = i
    <3>1. pc[i] # "logging"
      BY <2>2, <2>6, Zenon
    <3> QED BY <1>1, <2>1, <2>2, <2>6, <3>1 DEF SType
  <2>7. pc'[c] = "logging"
    BY <1>1, <2>2 DEF SType
  <2> QED BY <2>3, <2>4, <2>5, <2>6, <2>7 DEF Ordered, OneByOne
<1>4. ASSUME NEW c \in Configurers, Installs(c) PROVE Ordered'
  <2>1. UNCHANGED <<at, newest, overlap, mixed>> /\ global' = c /\ at[c] = "done"
    BY <1>4 DEF Installs, loggerVars, calls
  <2>2. pc[c] = "logging" /\ pc' = [pc EXCEPT ![c] = "start"]
    BY <1>4 DEF Installs
  <2>3. SType' /\ InStep'
    BY <1>1, <2>1, <2>2 DEF SType, InStep, Active, StartupPC
  <2>4. ASSUME ~mixed' PROVE newest' = c
    BY <1>1, <2>1, <2>2, <2>4 DEF OneByOne
  <2>5. ASSUME ~mixed', NEW i \in Configurers, pc'[i] = "logging" PROVE newest' = i
    BY <1>1, <2>1, <2>2, <2>5 DEF OneByOne, SType
  <2> QED BY <1>1, <2>1, <2>3, <2>4, <2>5 DEF Ordered, OneByOne
<1>5. ASSUME NEW c \in Configurers, Configuring(c), UNCHANGED <<pc, global, mixed>>
      PROVE  Ordered'
  <2>1. PICK from \in PC \ {"idle", "done"}, to \in PC : To(c, from, to)
    BY <1>5 DEF Configuring, StoreBase, DefaultBase, WithServiceFields, StoreFull,
                DefaultFull, PC
  <2>2. UNCHANGED <<newest, overlap>>
    BY <1>5 DEF Configuring, StoreBase, DefaultBase, WithServiceFields, StoreFull,
                DefaultFull
  <2>3. at' \in [Configurers -> PC] /\ Active(c)
        /\ \A d \in Configurers : d # c => at'[d] = at[d]
    BY <1>1, <2>1 DEF To, SType, Active
  <2> QED BY <1>1, <1>5, <2>2, <2>3 DEF Ordered, SType, InStep, OneByOne, Active
<1> QED BY <1>2, <1>3, <1>4, <1>5, Steps

(* The process logger and the global Telemetry are those of one call, the last *)
(* to begin, whenever no call is between the two and that one ran into no      *)
(* other (config_env.go:146-155).                                              *)
THEOREM OneCallInstalls == SSpec => []InitInstallsBoth
<1>1. SSpec => []Ordered
  BY OrderedInit, OrderedNext, PTL DEF SSpec
<1>2. Ordered /\ LoggersAgree => InitInstallsBoth
  <2> SUFFICES ASSUME Ordered, LoggersAgree, ~mixed,
                      \A i \in Configurers : pc[i] # "logging"
               PROVE  proc = dflt /\ proc.base = global /\ global = newest
    BY DEF InitInstallsBoth
  <2>1. Quiet
    BY DEF Ordered, OneByOne, InStep, Quiet, AtRest
  <2> QED BY <2>1 DEF LoggersAgree, Ordered, OneByOne
<1> QED BY <1>1, <1>2, StartupAgreement, PTL

-----------------------------------------------------------------------------
(* The names of the variables.                                                 *)
LEMMA GeneratedKeys == DOMAIN Generated =
  {"MONITOR_ADDR", "MONITOR_ENABLE", "TEL_COLLECTOR_GRPC_ADDR", "TEL_COLLECTOR_TLS_SERVER_NAME",
   "TEL_METRIC_PERIODIC_INTERVAL_SEC", "TEL_EXPORT_INTERVAL_SEC", "TEL_EXPORTER_WITH_INSECURE",
   "TEL_ENABLE", "TEL_ENABLE_COMPRESSION", "TEL_SERVICE_NAME", "POD_NAME", "NAMESPACE",
   "DEPLOY_ENVIRONMENT", "VERSION", "LOG_LEVEL", "LOG_ENCODE", "LOGS_MAX_MESSAGES_PER_SECOND",
   "LOGS_MAX_LEVEL_MESSAGES_PER_SECOND", "DEBUG"}
BY DEF Generated
(* Those of applyNestedEnv.                                                    *)
LEMMA NestedKeys == DOMAIN Nested =
  {"TEL_TRACES_ENABLE", "TEL_TRACES_SAMPLER", "METRICS_CARDINALITY_DETECTOR_MAX_CARDINALITY",
   "METRICS_CARDINALITY_DETECTOR_MAX_INSTRUMENTS",
   "METRICS_CARDINALITY_DETECTOR_DIAGNOSTIC_INTERVAL", "METRICS_CARDINALITY_WARN_UTILIZATION_PCT",
   "METRICS_CARDINALITY_DETECTOR_ENABLE", "METRICS_CARDINALITY_DENY_UNKNOWN",
   "METRICS_ENABLE_RETRY", "OTEL_COLLECTOR_TLS_CA_CERT", "OTEL_COLLECTOR_TLS_CLIENT_CERT",
   "OTEL_COLLECTOR_TLS_CLIENT_KEY"}
BY DEF Nested
(* Those DefaultConfig mentions.                                               *)
LEMMA DefaultKeys == DOMAIN DefaultFields =
  {"TEL_SERVICE_NAME", "POD_NAME", "VERSION", "NAMESPACE", "DEPLOY_ENVIRONMENT", "LOG_ENCODE",
   "LOG_LEVEL", "MONITOR_ENABLE", "MONITOR_ADDR", "TEL_COLLECTOR_GRPC_ADDR",
   "TEL_EXPORTER_WITH_INSECURE", "TEL_ENABLE", "TEL_ENABLE_COMPRESSION",
   "TEL_METRIC_PERIODIC_INTERVAL_SEC", "METRICS_CARDINALITY_DETECTOR_MAX_CARDINALITY",
   "METRICS_CARDINALITY_DETECTOR_MAX_INSTRUMENTS",
   "METRICS_CARDINALITY_DETECTOR_DIAGNOSTIC_INTERVAL", "METRICS_CARDINALITY_WARN_UTILIZATION_PCT",
   "METRICS_CARDINALITY_DETECTOR_ENABLE", "TEL_TRACES_ENABLE", "TEL_TRACES_SAMPLER"}
BY DEF DefaultFields

(* Every variable belongs to one of the two loaders.                           *)
LEMMA TwoLoaders ==
  /\ Keys = DOMAIN Generated \cup DOMAIN Nested
  /\ DOMAIN Generated \cap DOMAIN Nested = {}
  /\ \A k \in DOMAIN Generated : Fields[k] = Generated[k]
  /\ \A k \in DOMAIN Nested : Fields[k] = Nested[k]
<1>1. DOMAIN Generated \cap DOMAIN Nested = {}
  BY GeneratedKeys, NestedKeys
<1> QED BY <1>1 DEF Keys, Fields, Over

(* DefaultConfig: what it mentions, and zero values.                           *)
LEMMA DefaultConfigIs ==
  /\ \A k \in DOMAIN DefaultFields : DefaultConfig[k] = DefaultFields[k]
  /\ \A k \in Keys \ DOMAIN DefaultFields : DefaultConfig[k] = Zero(Fields[k].kind)
BY DEF DefaultConfig, Over, ZeroConfig

(* The zero values of Go.                                                      *)
LEMMA Zeros == Zero("bool") = "false" /\ Zero("string") = "" /\ Zero("int") = "0"
BY DEF Zero

(* The defaults of the tags and of applyNestedEnv are those of DefaultConfig,  *)
(* save for the service and the pod (defaults.go:5).                           *)
LEMMA GeneratedDefaults ==
  \A k \in DOMAIN Generated \ {"TEL_SERVICE_NAME", "POD_NAME"} :
    DefaultConfig[k] = Generated[k].default
<1>1. /\ DefaultFields.MONITOR_ADDR = Generated.MONITOR_ADDR.default
      /\ DefaultFields.MONITOR_ENABLE = Generated.MONITOR_ENABLE.default
      /\ DefaultFields.TEL_COLLECTOR_GRPC_ADDR = Generated.TEL_COLLECTOR_GRPC_ADDR.default
      /\ DefaultFields.TEL_METRIC_PERIODIC_INTERVAL_SEC =
           Generated.TEL_METRIC_PERIODIC_INTERVAL_SEC.default
      /\ DefaultFields.TEL_EXPORTER_WITH_INSECURE = Generated.TEL_EXPORTER_WITH_INSECURE.default
      /\ DefaultFields.TEL_ENABLE = Generated.TEL_ENABLE.default
      /\ DefaultFields.TEL_ENABLE_COMPRESSION = Generated.TEL_ENABLE_COMPRESSION.default
      /\ DefaultFields.NAMESPACE = Generated.NAMESPACE.default
      /\ DefaultFields.DEPLOY_ENVIRONMENT = Generated.DEPLOY_ENVIRONMENT.default
      /\ DefaultFields.VERSION = Generated.VERSION.default
      /\ DefaultFields.LOG_LEVEL = Generated.LOG_LEVEL.default
      /\ DefaultFields.LOG_ENCODE = Generated.LOG_ENCODE.default
  BY DEF DefaultFields, Generated, Field
<1>2. /\ Generated.TEL_COLLECTOR_TLS_SERVER_NAME.kind = "string"
      /\ Generated.TEL_COLLECTOR_TLS_SERVER_NAME.default = ""
      /\ Generated.TEL_EXPORT_INTERVAL_SEC.kind = "int"
      /\ Generated.TEL_EXPORT_INTERVAL_SEC.default = "0"
      /\ Generated.LOGS_MAX_MESSAGES_PER_SECOND.kind = "int"
      /\ Generated.LOGS_MAX_MESSAGES_PER_SECOND.default = "0"
      /\ Generated.LOGS_MAX_LEVEL_MESSAGES_PER_SECOND.kind = "string"
      /\ Generated.LOGS_MAX_LEVEL_MESSAGES_PER_SECOND.default = ""
      /\ Generated.DEBUG.kind = "bool"
      /\ Generated.DEBUG.default = "false"
  BY DEF Generated, Field
<1>3. \A k \in DOMAIN Generated \ DOMAIN DefaultFields :
        Zero(Generated[k].kind) = Generated[k].default
  BY <1>2, Zeros, GeneratedKeys, DefaultKeys
<1> QED BY <1>1, <1>3, GeneratedKeys, DefaultKeys, TwoLoaders, DefaultConfigIs

(* The same, of applyNestedEnv.                                                *)
LEMMA NestedDefaults ==
  \A k \in DOMAIN Nested :
    DefaultConfig[k] = Nested[k].default
<1>1. /\ DefaultFields.TEL_TRACES_ENABLE = Nested.TEL_TRACES_ENABLE.default
      /\ DefaultFields.TEL_TRACES_SAMPLER = Nested.TEL_TRACES_SAMPLER.default
      /\ DefaultFields.METRICS_CARDINALITY_DETECTOR_MAX_CARDINALITY =
           Nested.METRICS_CARDINALITY_DETECTOR_MAX_CARDINALITY.default
      /\ DefaultFields.METRICS_CARDINALITY_DETECTOR_MAX_INSTRUMENTS =
           Nested.METRICS_CARDINALITY_DETECTOR_MAX_INSTRUMENTS.default
      /\ DefaultFields.METRICS_CARDINALITY_DETECTOR_DIAGNOSTIC_INTERVAL =
           Nested.METRICS_CARDINALITY_DETECTOR_DIAGNOSTIC_INTERVAL.default
      /\ DefaultFields.METRICS_CARDINALITY_WARN_UTILIZATION_PCT =
           Nested.METRICS_CARDINALITY_WARN_UTILIZATION_PCT.default
      /\ DefaultFields.METRICS_CARDINALITY_DETECTOR_ENABLE =
           Nested.METRICS_CARDINALITY_DETECTOR_ENABLE.default
  BY DEF DefaultFields, Nested, Field
<1>2. /\ Nested.METRICS_CARDINALITY_DENY_UNKNOWN.kind = "bool"
      /\ Nested.METRICS_CARDINALITY_DENY_UNKNOWN.default = "false"
      /\ Nested.METRICS_ENABLE_RETRY.kind = "bool"
      /\ Nested.METRICS_ENABLE_RETRY.default = "false"
      /\ Nested.OTEL_COLLECTOR_TLS_CA_CERT.kind = "string"
      /\ Nested.OTEL_COLLECTOR_TLS_CA_CERT.default = ""
      /\ Nested.OTEL_COLLECTOR_TLS_CLIENT_CERT.kind = "string"
      /\ Nested.OTEL_COLLECTOR_TLS_CLIENT_CERT.default = ""
      /\ Nested.OTEL_COLLECTOR_TLS_CLIENT_KEY.kind = "string"
      /\ Nested.OTEL_COLLECTOR_TLS_CLIENT_KEY.default = ""
  BY DEF Nested, Field
<1>3. \A k \in DOMAIN Nested \ DOMAIN DefaultFields : Zero(Nested[k].kind) = Nested[k].default
  BY <1>2, Zeros, NestedKeys, DefaultKeys
<1> QED BY <1>1, <1>3, NestedKeys, DefaultKeys, TwoLoaders, DefaultConfigIs

(* What the two loaders put into a field.                                      *)
LEMMA LoadConfigAt ==
  ASSUME NEW e
  PROVE  \A k \in DOMAIN Generated :
           LoadConfig(e)[k] = IF IsSet(e[k]) THEN e[k] ELSE Generated[k].default
<1> SUFFICES ASSUME NEW k \in DOMAIN Generated
             PROVE  LoadConfig(e)[k] = IF IsSet(e[k]) THEN e[k] ELSE Generated[k].default
  OBVIOUS
<1>1. k \in Keys /\ k \notin DOMAIN Nested
  BY TwoLoaders
<1>2. CASE IsSet(e[k])
  BY <1>1, <1>2 DEF LoadConfig
<1>3. CASE ~IsSet(e[k])
  BY <1>1, <1>3 DEF LoadConfig
<1> QED BY <1>2, <1>3

(* What applyNestedEnv puts into the nested sections ...                       *)
LEMMA NestedAt ==
  ASSUME NEW c, NEW e, NEW k \in DOMAIN Nested
  PROVE  ApplyNestedEnv(c, e)[k] = IF Reads(k, e[k]) THEN e[k] ELSE Nested[k].default
<1>1. k \in Keys /\ k \notin {"TEL_SERVICE_NAME", "POD_NAME"}
  BY TwoLoaders, NestedKeys
<1> QED BY <1>1 DEF ApplyNestedEnv

(* ... and what GetConfigFromEnv makes of the other fields.                    *)
LEMMA ApplyNestedEnvAt ==
  ASSUME NEW c, NEW e
  PROVE  /\ \A k \in DOMAIN Generated \ {"TEL_SERVICE_NAME", "POD_NAME"} :
              ApplyNestedEnv(c, e)[k] = c[k]
         /\ ApplyNestedEnv(c, e)["TEL_SERVICE_NAME"] =
              IF c["TEL_SERVICE_NAME"] # "" THEN c["TEL_SERVICE_NAME"]
              ELSE IF HostService = "" THEN "unknown" ELSE HostService
         /\ ApplyNestedEnv(c, e)["POD_NAME"] = ResolvePod(c, e)
<1>2. ASSUME NEW k \in DOMAIN Generated \ {"TEL_SERVICE_NAME", "POD_NAME"}
      PROVE  ApplyNestedEnv(c, e)[k] = c[k]
  <2>1. k \in Keys /\ k \notin DOMAIN Nested
    BY TwoLoaders
  <2> QED BY <2>1 DEF ApplyNestedEnv
<1>3. /\ "TEL_SERVICE_NAME" \in Keys /\ "TEL_SERVICE_NAME" \notin DOMAIN Nested
      /\ "POD_NAME" \in Keys /\ "POD_NAME" \notin DOMAIN Nested
  BY TwoLoaders, GeneratedKeys
<1>4. ApplyNestedEnv(c, e)["TEL_SERVICE_NAME"] =
        IF c["TEL_SERVICE_NAME"] # "" THEN c["TEL_SERVICE_NAME"]
        ELSE IF HostService = "" THEN "unknown" ELSE HostService
  BY <1>3 DEF ApplyNestedEnv
<1>5. ApplyNestedEnv(c, e)["POD_NAME"] = ResolvePod(c, e)
  BY <1>3 DEF ApplyNestedEnv
<1> QED BY <1>2, <1>4, <1>5

(* resolvePod, of a configuration the generated loader has just read: from the *)
(* environment d, with the variables e by now.                                 *)
LEMMA PodResolved ==
  ASSUME NEW d \in Environments, NEW e \in Environments
  PROVE  ResolvePod(LoadConfig(d), e) =
           IF IsSet(d["POD_NAME"]) THEN d["POD_NAME"]
           ELSE IF IsSet(e["POD_NAME"]) THEN e["POD_NAME"]
           ELSE IF IsSet(e["HOSTNAME"]) THEN e["HOSTNAME"] ELSE Hostname
<1>1. "POD_NAME" \in DOMAIN Generated /\ "POD_NAME" \in EnvKeys
  BY GeneratedKeys, TwoLoaders DEF EnvKeys
<1>2. d["POD_NAME"] \in Values
  BY <1>1 DEF Environments
<1>3. d["POD_NAME"] # ""
  BY <1>2 DEF Values
<1>4. Generated["POD_NAME"].default = ""
  BY DEF Generated, Field
<1>5. CASE IsSet(d["POD_NAME"])
  <2>1. LoadConfig(d)["POD_NAME"] = d["POD_NAME"]
    BY <1>1, <1>5, LoadConfigAt
  <2> QED BY <1>3, <1>5, <2>1 DEF ResolvePod
<1>6. CASE ~IsSet(d["POD_NAME"])
  <2>1. LoadConfig(d)["POD_NAME"] = ""
    BY <1>1, <1>4, <1>6, LoadConfigAt
  <2> QED BY <1>6, <2>1 DEF ResolvePod
<1> QED BY <1>5, <1>6

(* An environment that can be read: a variable of the generated loader that is *)
(* set can be.                                                                 *)
LEMMA ReadsWhatIsSet ==
  ASSUME NEW e, Errors(e) = {}
  PROVE  \A k \in DOMAIN Generated : Reads(k, e[k]) <=> IsSet(e[k])
BY DEF Errors, Reads

(* GetConfigFromEnv of two environments, the one of the snapshot and the one   *)
(* of applyNestedEnv, is in every field what one of them means.                *)
LEMMA LoadsMeaning ==
  ASSUME NEW d \in Environments, NEW e \in Environments, Errors(d) = {}, NEW k \in Keys
  PROVE  ApplyNestedEnv(LoadConfig(d), e)[k] \in {Meaning(d)[k], Meaning(e)[k]}
<1> DEFINE c == ApplyNestedEnv(LoadConfig(d), e)
<1>1. \A f \in {d, e} :
        Meaning(f)[k] = IF Reads(k, f[k]) THEN f[k]
                        ELSE IF k = "POD_NAME" /\ IsSet(f["HOSTNAME"]) THEN f["HOSTNAME"]
                        ELSE IF k = "TEL_SERVICE_NAME" /\ HostService = "" THEN "unknown"
                        ELSE DefaultConfig[k]
  BY DEF Meaning
<1>2. CASE k \in DOMAIN Nested
  <2>1. k \notin {"POD_NAME", "TEL_SERVICE_NAME"}
    BY <1>2, NestedKeys
  <2>2. c[k] = IF Reads(k, e[k]) THEN e[k] ELSE Nested[k].default
    BY <1>2, NestedAt
  <2> QED BY <1>1, <1>2, <2>1, <2>2, NestedDefaults
<1>3. CASE k \in DOMAIN Generated \ {"TEL_SERVICE_NAME", "POD_NAME"}
  <2>1. c[k] = LoadConfig(d)[k]
    BY <1>3, ApplyNestedEnvAt
  <2>2. LoadConfig(d)[k] = IF Reads(k, d[k]) THEN d[k] ELSE Generated[k].default
    BY <1>3, LoadConfigAt, ReadsWhatIsSet
  <2> QED BY <1>1, <1>3, <2>1, <2>2, GeneratedDefaults
<1>4. CASE k = "TEL_SERVICE_NAME"
  <2>1. k \in DOMAIN Generated /\ k \in EnvKeys
    BY <1>4, GeneratedKeys, TwoLoaders DEF EnvKeys
  <2>2. d[k] # ""
    <3>1. d[k] \in Values
      BY <2>1 DEF Environments
    <3> QED BY <3>1 DEF Values
  <2>3. Generated["TEL_SERVICE_NAME"].default = ""
    BY DEF Generated, Field
  <2>4. LoadConfig(d)[k] = IF Reads(k, d[k]) THEN d[k] ELSE ""
    BY <1>4, <2>1, <2>3, LoadConfigAt, ReadsWhatIsSet
  <2>5. c[k] = IF LoadConfig(d)[k] # "" THEN LoadConfig(d)[k]
               ELSE IF HostService = "" THEN "unknown" ELSE HostService
    BY <1>4, ApplyNestedEnvAt
  <2>6. DefaultConfig[k] = HostService
    <3>1. DefaultFields["TEL_SERVICE_NAME"] = HostService
      BY DEF DefaultFields
    <3> QED BY <1>4, <3>1, DefaultKeys, DefaultConfigIs
  <2> QED BY <1>1, <1>4, <2>2, <2>4, <2>5, <2>6
<1>5. CASE k = "POD_NAME"
  <2>1. k \in DOMAIN Generated /\ Fields[k].kind = "string"
    <3>1. Generated["POD_NAME"].kind = "string"
      BY DEF Generated, Field
    <3> QED BY <1>5, <3>1, GeneratedKeys, TwoLoaders
  <2>2. \A f \in {d, e} : Reads(k, f[k]) <=> IsSet(f[k])
    BY <2>1 DEF Reads
  <2>3. c[k] = IF IsSet(d[k]) THEN d[k]
               ELSE IF IsSet(e[k]) THEN e[k]
               ELSE IF IsSet(e["HOSTNAME"]) THEN e["HOSTNAME"] ELSE Hostname
    <3>1. c[k] = ResolvePod(LoadConfig(d), e)
      BY <1>5, ApplyNestedEnvAt
    <3> QED BY <1>5, <3>1, PodResolved
  <2>4. DefaultConfig[k] = Hostname
    <3>1. DefaultFields["POD_NAME"] = Hostname
      BY DEF DefaultFields
    <3> QED BY <1>5, <3>1, DefaultKeys, DefaultConfigIs
  <2> QED BY <1>1, <1>5, <2>2, <2>3, <2>4
<1> QED BY <1>2, <1>3, <1>4, <1>5, TwoLoaders

(* ReloadConfig alone is what an environment means, in the fields whose tag    *)
(* has a default.                                                              *)
LEMMA ReloadsMeaning ==
  ASSUME NEW e, Errors(e) = {}, NEW k \in DOMAIN Generated, Generated[k].default # ""
  PROVE  LoadConfig(e)[k] = Meaning(e)[k]
<1>0. Generated["TEL_SERVICE_NAME"].default = "" /\ Generated["POD_NAME"].default = ""
  BY DEF Generated, Field
<1>1. k \notin {"TEL_SERVICE_NAME", "POD_NAME"}
  BY <1>0
<1>2. LoadConfig(e)[k] = IF Reads(k, e[k]) THEN e[k] ELSE Generated[k].default
  BY LoadConfigAt, ReadsWhatIsSet
<1>3. Meaning(e)[k] = IF Reads(k, e[k]) THEN e[k] ELSE DefaultConfig[k]
  BY <1>1, TwoLoaders DEF Meaning
<1> QED BY <1>1, <1>2, <1>3, GeneratedDefaults

-----------------------------------------------------------------------------
(* LoadDotEnv a second time sets nothing.                                      *)
LEMMA OverlaidOnce ==
  ASSUME NEW e, NEW f PROVE Overlay(Overlay(e, f), f) = Overlay(e, f)
<1>1. ASSUME NEW k \in EnvKeys
      PROVE  Overlay(Overlay(e, f), f)[k] = Overlay(e, f)[k]
  BY DEF Overlay
<1>2. /\ Overlay(e, f) = [k \in EnvKeys |-> Overlay(e, f)[k]]
      /\ Overlay(Overlay(e, f), f) = [k \in EnvKeys |-> Overlay(Overlay(e, f), f)[k]]
  BY DEF Overlay
<1> QED BY <1>1, <1>2, Zenon

(* Nor has .env anything to add after a variable is set.                       *)
LEMMA OverlayKept ==
  ASSUME NEW e \in Environments, NEW f, Overlay(e, f) = e,
         NEW k \in EnvKeys, NEW v \in Values \ {"unset"}
  PROVE  Overlay([e EXCEPT ![k] = v], f) = [e EXCEPT ![k] = v]
<1> DEFINE d == [e EXCEPT ![k] = v]
<1>1. d \in [EnvKeys -> Values] /\ d[k] # "unset"
  BY DEF Environments
<1>2. ASSUME NEW q \in EnvKeys PROVE Overlay(d, f)[q] = d[q]
  <2>1. CASE q = k
    BY <1>1, <2>1 DEF Overlay
  <2>2. CASE q # k
    <3>1. d[q] = e[q]
      BY <2>2 DEF Environments
    <3>2. Overlay(e, f)[q] = e[q]
      OBVIOUS
    <3> QED BY <3>1, <3>2 DEF Overlay
  <2> QED BY <2>1, <2>2
<1>3. Overlay(d, f) = [q \in EnvKeys |-> Overlay(d, f)[q]] /\ d = [q \in EnvKeys |-> d[q]]
  BY <1>1 DEF Overlay
<1> QED BY <1>2, <1>3, Zenon

(* An environment with .env under it is one.                                   *)
LEMMA OverlayTyped ==
  ASSUME NEW e \in Environments, NEW f, \A k \in DOMAIN f : f[k] \in Values
  PROVE  Overlay(e, f) \in Environments
BY DEF Overlay, Environments

-----------------------------------------------------------------------------
(* What a call knows of the environments it has found (fs), the one of the     *)
(* process (e) among them, with the snapshot sp and the .env file f: .env has  *)
(* nothing to add to e, the snapshot is of one of them, and the configuration  *)
(* (c) is loaded from one.                                                     *)
Early == {"idle", "dotenv", "reload", "load", "nested", "fatalConfig"}

Told(p, s, c, fs, e, sp, f) ==
  /\ p \in Early => s = "none"
  /\ p \in Reading => e \in fs /\ Overlay(e, f.vars) = e
  /\ p = "load" => sp \in fs
  /\ p = "nested" => \E d \in fs : Errors(d) = {} /\ c = LoadConfig(d)
  /\ s = "env" => \A k \in Keys : \E d \in fs : c[k] = Meaning(d)[k]
  /\ s = "reload" => \E d : fs = {d} /\ Errors(d) = {} /\ c = LoadConfig(d)

Sources == {"none", "env", "given", "zero", "reload"}

CType ==
  /\ env \in Environments
  /\ \A k \in DOMAIN file.vars : file.vars[k] \in Values \ {"unset"}
  /\ pc \in [Configurers -> StartupPC] /\ source \in [Configurers -> Sources]
  /\ found \in [Configurers -> SUBSET Environments]
  /\ cfg = [i \in Configurers |-> cfg[i]]

CInv ==
  /\ CType
  /\ \A i \in Configurers : Told(pc[i], source[i], cfg[i], found[i], env, snap, file)

(* Another call may read the same environment again.                           *)
LEMMA ToldStays ==
  ASSUME NEW p, NEW s, NEW c, NEW fs, NEW e, NEW sp, NEW sp1, NEW f,
         Told(p, s, c, fs, e, sp, f), sp1 \in {sp, e}
  PROVE  Told(p, s, c, fs, e, sp1, f)
BY DEF Told, Reading

(* A step of a call that leaves the variables of the process alone.            *)
LEMMA OneCall ==
  ASSUME CInv, NEW i \in Configurers, NEW p \in StartupPC, NEW s \in Sources, NEW c,
         NEW fs \in SUBSET Environments,
         pc' = [pc EXCEPT ![i] = p], source' = [source EXCEPT ![i] = s],
         cfg' = [cfg EXCEPT ![i] = c], found' = [found EXCEPT ![i] = fs],
         UNCHANGED <<env, file>>, snap' \in {snap, env},
         Told(p, s, c, fs, env, snap', file)
  PROVE  CInv'
<1>1. CType
  BY DEF CInv
<1>2. /\ pc'[i] = p /\ source'[i] = s /\ cfg'[i] = c /\ found'[i] = fs
      /\ \A q \in Configurers : q # i =>
           /\ pc'[q] = pc[q] /\ source'[q] = source[q] /\ cfg'[q] = cfg[q] /\ found'[q] = found[q]
  BY <1>1 DEF CType
<1>3. CType'
  BY <1>1 DEF CType
<1>4. ASSUME NEW q \in Configurers
      PROVE  Told(pc'[q], source'[q], cfg'[q], found'[q], env', snap', file')
  <2>1. CASE q = i
    BY <1>2, <2>1
  <2>2. CASE q # i
    <3>1. Told(pc[q], source[q], cfg[q], found[q], env, snap, file)
      BY DEF CInv
    <3>2. Told(pc[q], source[q], cfg[q], found[q], env, snap', file)
      BY <3>1, ToldStays
    <3> QED BY <1>2, <2>2, <3>2
  <2> QED BY <2>1, <2>2
<1> QED BY <1>3, <1>4 DEF CInv

-----------------------------------------------------------------------------
(* What is left alone is put back.                                             *)
LEMMA PutBack ==
  ASSUME CType, NEW i \in Configurers
  PROVE  /\ pc = [pc EXCEPT ![i] = pc[i]] /\ pc[i] \in StartupPC
         /\ source = [source EXCEPT ![i] = source[i]] /\ source[i] \in Sources
         /\ cfg = [cfg EXCEPT ![i] = cfg[i]]
         /\ found = [found EXCEPT ![i] = found[i]] /\ found[i] \in SUBSET Environments
<1>1. cfg = [cfg EXCEPT ![i] = cfg[i]]
  <2>1. PICK c : c = [j \in Configurers |-> cfg[j]]
    OBVIOUS
  <2>2. c = [c EXCEPT ![i] = c[i]]
    BY <2>1
  <2> QED BY <2>1, <2>2 DEF CType
<1> QED BY <1>1 DEF CType

(* A step of a call that does no more than move it on.                         *)
LEMMA OneMove ==
  ASSUME CInv, NEW i \in Configurers, NEW p \in StartupPC, pc' = [pc EXCEPT ![i] = p],
         UNCHANGED <<source, cfg, found, env, file>>, snap' \in {snap, env},
         Told(p, source[i], cfg[i], found[i], env, snap', file)
  PROVE  CInv'
<1>1. CType
  BY DEF CInv
<1>2. pc'[i] = p /\ \A q \in Configurers : q # i => pc'[q] = pc[q]
  BY <1>1 DEF CType
<1>3. CType'
  BY <1>1 DEF CType
<1>4. ASSUME NEW q \in Configurers
      PROVE  Told(pc'[q], source[q], cfg[q], found[q], env, snap', file)
  <2>1. CASE q = i
    BY <1>2, <2>1
  <2>2. CASE q # i
    <3>1. Told(pc[q], source[q], cfg[q], found[q], env, snap, file)
      BY DEF CInv
    <3> QED BY <1>2, <2>2, <3>1, ToldStays
  <2> QED BY <2>1, <2>2
<1> QED BY <1>3, <1>4 DEF CInv

(* The steps that read the environment.                                        *)
LEMMA ReadSteps ==
  ASSUME CInv, NEW i \in Configurers, ConfigStep(i), ~LoadDotEnv(i)
  PROVE  CInv'
<1>1. CType /\ Told(pc[i], source[i], cfg[i], found[i], env, snap, file)
  BY DEF CInv
<1>2. /\ pc = [pc EXCEPT ![i] = pc[i]] /\ pc[i] \in StartupPC
      /\ source = [source EXCEPT ![i] = source[i]] /\ source[i] \in Sources
      /\ cfg = [cfg EXCEPT ![i] = cfg[i]]
      /\ found = [found EXCEPT ![i] = found[i]] /\ found[i] \in SUBSET Environments
  BY <1>1, PutBack
<1>3. env \in Environments
  BY <1>1 DEF CType
<1>4. CASE Init(i)
  <2>1. /\ pc[i] = "idle" /\ pc' = [pc EXCEPT ![i] = "dotenv"]
        /\ UNCHANGED <<source, cfg, found, env, file, snap>>
    BY <1>4 DEF Init, Read, Goto, environment
  <2>2. Told("dotenv", source[i], cfg[i], found[i], env, snap, file)
    BY <1>1, <2>1 DEF Told, Early, Reading
  <2>3. "dotenv" \in StartupPC
    BY DEF StartupPC
  <2> QED BY <2>1, <2>2, <2>3, OneMove
<1>5. CASE InitWithConfig(i)
  <2>1. /\ pc[i] = "idle" /\ pc' = [pc EXCEPT ![i] = "logger"]
        /\ source' = [source EXCEPT ![i] = "given"] /\ cfg' = [cfg EXCEPT ![i] = DefaultConfig]
        /\ UNCHANGED <<found, env, file, snap>>
    BY <1>5 DEF InitWithConfig, Read, Goto, environment
  <2>2. Told("logger", "given", DefaultConfig, found[i], env, snap, file)
    BY DEF Told, Early, Reading
  <2>3. "logger" \in StartupPC /\ "given" \in Sources
    BY DEF StartupPC, Sources
  <2> QED BY <1>2, <2>1, <2>2, <2>3, OneCall
<1>6. CASE Reload(i)
  <2>1. /\ pc[i] = "reload" /\ pc' = [pc EXCEPT ![i] = "load"] /\ snap' = env
        /\ UNCHANGED <<source, cfg, found, env, file>>
    BY <1>6 DEF Reload, Read, Goto
  <2>2. Told("load", source[i], cfg[i], found[i], env, snap', file)
    BY <1>1, <2>1 DEF Told, Early, Reading
  <2>3. "load" \in StartupPC
    BY DEF StartupPC
  <2> QED BY <2>1, <2>2, <2>3, OneMove
<1>7. CASE Load(i)
  <2>1. /\ pc[i] = "load" /\ UNCHANGED <<source, found, env, file, snap>>
        /\ pc' = [pc EXCEPT ![i] = IF Errors(snap) = {} THEN "nested" ELSE "fatalConfig"]
        /\ cfg' = [cfg EXCEPT ![i] = IF Errors(snap) = {} THEN LoadConfig(snap) ELSE @]
    BY <1>7 DEF Load, Read, Goto, environment
  <2>2. CASE Errors(snap) = {}
    <3>0. PICK c : c = LoadConfig(snap)
      OBVIOUS
    <3>1. Told("nested", source[i], c, found[i], env, snap, file)
      BY <1>1, <2>1, <2>2, <3>0 DEF Told, Early, Reading
    <3>2. "nested" \in StartupPC
      BY DEF StartupPC
    <3>3. pc' = [pc EXCEPT ![i] = "nested"] /\ cfg' = [cfg EXCEPT ![i] = c]
      BY <2>1, <2>2, <3>0
    <3> QED BY <1>2, <2>1, <3>1, <3>2, <3>3, OneCall
  <2>3. CASE Errors(snap) # {}
    <3>1. Told("fatalConfig", source[i], cfg[i], found[i], env, snap, file)
      BY <1>1, <2>1 DEF Told, Early, Reading
    <3>2. "fatalConfig" \in StartupPC
      BY DEF StartupPC
    <3>3. pc' = [pc EXCEPT ![i] = "fatalConfig"] /\ cfg' = [cfg EXCEPT ![i] = cfg[i]]
      BY <2>1, <2>3
    <3> QED BY <1>2, <2>1, <3>1, <3>2, <3>3, OneCall
  <2> QED BY <2>2, <2>3
<1>8. CASE LoadNested(i)
  <2>1. PICK c : /\ c = ApplyNestedEnv(cfg[i], env) /\ cfg' = [cfg EXCEPT ![i] = c]
                 /\ pc[i] = "nested" /\ pc' = [pc EXCEPT ![i] = "logger"]
                 /\ source' = [source EXCEPT ![i] = "env"]
                 /\ UNCHANGED <<found, env, file, snap>>
    BY <1>8 DEF LoadNested, Read, Goto, environment
  <2>2. ASSUME NEW k \in Keys PROVE \E f \in found[i] : c[k] = Meaning(f)[k]
    <3>1. env \in found[i] /\ \E d \in found[i] : Errors(d) = {} /\ cfg[i] = LoadConfig(d)
      BY <1>1, <2>1 DEF Told, Reading
    <3>2. PICK d \in found[i] : Errors(d) = {} /\ cfg[i] = LoadConfig(d)
      BY <3>1
    <3>3. d \in Environments
      BY <1>2
    <3> QED BY <1>3, <2>1, <3>1, <3>2, <3>3, LoadsMeaning
  <2>3. Told("logger", "env", c, found[i], env, snap, file)
    BY <2>2 DEF Told, Early, Reading
  <2>4. "logger" \in StartupPC /\ "env" \in Sources
    BY DEF StartupPC, Sources
  <2> QED BY <1>2, <2>1, <2>3, <2>4, OneCall
<1>9. CASE ReloadConfig(i)
  <2>1. /\ pc[i] \in {"returned", "failed"} /\ source[i] \in {"given", "reload"} /\ snap' = env
        /\ UNCHANGED <<pc, env, file>>
    BY <1>9 DEF ReloadConfig
  <2>2. CASE Errors(env) = {}
    <3>1. PICK c : /\ c = LoadConfig(env) /\ cfg' = [cfg EXCEPT ![i] = c]
                   /\ found' = [found EXCEPT ![i] = {env}] /\ source' = [source EXCEPT ![i] = "reload"]
      BY <1>9, <2>2 DEF ReloadConfig
    <3>2. Told(pc[i], "reload", c, {env}, env, snap', file)
      BY <2>1, <2>2, <3>1 DEF Told, Early, Reading
    <3>3. "reload" \in Sources /\ {env} \in SUBSET Environments
      BY <1>3 DEF Sources
    <3> QED BY <1>2, <1>3, <2>1, <3>1, <3>2, <3>3, OneCall
  <2>3. CASE Errors(env) # {}
    <3>1. UNCHANGED <<cfg, found, source>>
      BY <1>9, <2>3 DEF ReloadConfig
    <3>2. Told(pc[i], source[i], cfg[i], found[i], env, snap', file)
      BY <1>1, <2>1, ToldStays
    <3> QED BY <1>2, <2>1, <3>1, <3>2, OneCall
  <2> QED BY <2>2, <2>3
<1> QED BY <1>4, <1>5, <1>6, <1>7, <1>8, <1>9 DEF ConfigStep

(* LoadDotEnv changes no variable under a call that reads them, for that call  *)
(* has loaded .env before.                                                     *)
LEMMA LoadDotEnvStep ==
  ASSUME CInv, NEW i \in Configurers, LoadDotEnv(i) PROVE CInv'
<1>1. CType /\ Told(pc[i], source[i], cfg[i], found[i], env, snap, file)
  BY DEF CInv
<1>2. PICK to \in {"fatalConfig", "reload"} :
        /\ pc[i] = "dotenv" /\ pc' = [pc EXCEPT ![i] = to]
        /\ env' = Overlay(env, file.vars) /\ found' = [found EXCEPT ![i] = {env'}]
        /\ UNCHANGED <<file, snap, source, cfg>>
  BY DEF LoadDotEnv, Read, Goto
<1>3. env' \in Environments /\ Overlay(env', file.vars) = env'
  BY <1>1, <1>2, OverlayTyped, OverlaidOnce DEF CType
<1>4. to \in StartupPC
  BY DEF StartupPC
<1>5. CType'
  BY <1>1, <1>2, <1>3, <1>4 DEF CType
<1>6. Told(pc'[i], source'[i], cfg'[i], found'[i], env', snap', file')
  <2>1. pc'[i] = to /\ found'[i] = {env'}
    BY <1>1, <1>2 DEF CType
  <2> QED BY <1>1, <1>2, <1>3, <2>1 DEF Told, Early, Reading
<1>7. ASSUME NEW q \in Configurers, q # i
      PROVE  Told(pc'[q], source'[q], cfg'[q], found'[q], env', snap', file')
  <2>1. Told(pc[q], source[q], cfg[q], found[q], env, snap, file)
    BY DEF CInv
  <2>2. pc'[q] = pc[q] /\ found'[q] = found[q]
    BY <1>1, <1>2, <1>7 DEF CType
  <2>3. CASE pc[q] \in Reading
    <3>1. env' = env
      BY <1>2, <2>1, <2>3 DEF Told
    <3> QED BY <1>2, <2>1, <2>2, <3>1
  <2>4. CASE pc[q] \notin Reading
    BY <1>2, <2>1, <2>2, <2>4 DEF Told, Reading
  <2> QED BY <2>3, <2>4
<1> QED BY <1>5, <1>6, <1>7 DEF CInv

(* os.Setenv gives the calls that are reading one environment more to find.    *)
LEMMA SetenvStep == ASSUME CInv, Setenv PROVE CInv'
<1>1. CType
  BY DEF CInv
<1>2. PICK a \in Assignments :
        /\ env' = [env EXCEPT ![a[1]] = a[2]]
        /\ found' = [i \in Configurers |->
                       IF pc[i] \in Reading THEN found[i] \cup {env'} ELSE found[i]]
        /\ UNCHANGED <<file, snap, pc, source, cfg>>
  BY DEF Setenv
<1>3. a[1] \in EnvKeys /\ a[2] \in Values \ {"unset"}
  BY WorldsAssumption
<1>4. env' \in Environments
  BY <1>1, <1>2, <1>3 DEF CType, Environments
<1>5. found' \in [Configurers -> SUBSET Environments]
  BY <1>1, <1>2, <1>4 DEF CType
<1>6. CType'
  BY <1>1, <1>2, <1>4, <1>5 DEF CType
<1>7. ASSUME Overlay(env, file.vars) = env PROVE Overlay(env', file.vars) = env'
  <2>1. env \in Environments
    BY <1>1 DEF CType
  <2>2. PICK k \in EnvKeys, v \in Values \ {"unset"} : k = a[1] /\ v = a[2]
    BY <1>3
  <2>3. Overlay([env EXCEPT ![k] = v], file.vars) = [env EXCEPT ![k] = v]
    BY <1>7, <2>1, OverlayKept
  <2>4. env' = [env EXCEPT ![k] = v]
    BY <1>2, <2>2
  <2> QED BY <2>3, <2>4, Zenon
<1>8. ASSUME NEW q \in Configurers
      PROVE  Told(pc'[q], source'[q], cfg'[q], found'[q], env', snap', file')
  <2>1. Told(pc[q], source[q], cfg[q], found[q], env, snap, file)
    BY DEF CInv
  <2>2. CASE pc[q] \in Reading
    <3>1. found'[q] = found[q] \cup {env'}
      BY <1>2, <2>2
    <3>2. source[q] = "none"
      BY <2>1, <2>2 DEF Told, Reading, Early
    <3> QED BY <1>2, <1>7, <2>1, <2>2, <3>1, <3>2 DEF Told
  <2>3. CASE pc[q] \notin Reading
    <3>1. found'[q] = found[q]
      BY <1>2, <2>3
    <3> QED BY <1>2, <2>1, <2>3, <3>1 DEF Told, Reading
  <2> QED BY <2>2, <2>3
<1> QED BY <1>6, <1>8 DEF CInv

(* The steps after the configuration is read.                                  *)
LEMMA LaterSteps ==
  ASSUME CInv, NEW i \in Configurers, InitStep(i) PROVE CInv'
<1>1. CType /\ Told(pc[i], source[i], cfg[i], found[i], env, snap, file)
  BY DEF CInv
<1>2. /\ pc = [pc EXCEPT ![i] = pc[i]] /\ pc[i] \in StartupPC
      /\ source = [source EXCEPT ![i] = source[i]] /\ source[i] \in Sources
      /\ cfg = [cfg EXCEPT ![i] = cfg[i]]
      /\ found = [found EXCEPT ![i] = found[i]] /\ found[i] \in SUBSET Environments
  BY <1>1, PutBack
<1>3. ASSUME NEW to \in StartupPC \ Early, pc' = [pc EXCEPT ![i] = to],
             UNCHANGED <<source, cfg, found, env, file, snap>>
      PROVE  CInv'
  <2>1. Told(to, source[i], cfg[i], found[i], env, snap, file)
    BY <1>1, <1>3 DEF Told, Early, Reading
  <2> QED BY <1>3, <2>1, OneMove
<1>4. CASE Configure(i)
  BY <1>3, <1>4 DEF Configure, Goto, environment, StartupPC, Early
<1>5. CASE Create(i)
  BY <1>3, <1>5 DEF Create, Goto, environment, StartupPC, Early
<1>6. CASE Start(i)
  <2>1. PICK to \in {"returned", "failed", "fatalStart"} : pc' = [pc EXCEPT ![i] = to]
    BY <1>6 DEF Start, Goto
  <2>2. UNCHANGED <<source, cfg, found, env, file, snap>>
    BY <1>6 DEF Start, environment
  <2> QED BY <1>3, <2>1, <2>2 DEF StartupPC, Early
<1>7. UNCHANGED <<pc, source, cfg, found, env, file, snap>> => CInv'
  BY DEF CInv, CType
<1>8. CASE FatalConfig(i)
  <2>1. UNCHANGED <<cfg, found, env, file, snap>>
    BY <1>8 DEF FatalConfig, environment
  <2>2. \/ UNCHANGED <<pc, source>>
        \/ pc[i] = "fatalConfig" /\ pc' = [pc EXCEPT ![i] = "logger"]
           /\ source' = [source EXCEPT ![i] = "zero"]
    BY <1>8 DEF FatalConfig, Goto
  <2>3. Told("logger", "zero", cfg[i], found[i], env, snap, file)
    BY DEF Told, Early, Reading
  <2>4. "logger" \in StartupPC /\ "zero" \in Sources
    BY DEF StartupPC, Sources
  <2> QED BY <1>2, <1>7, <2>1, <2>2, <2>3, <2>4, OneCall
<1>9. CASE FatalStart(i)
  <2>1. UNCHANGED <<source, cfg, found, env, file, snap>>
    BY <1>9 DEF FatalStart, environment
  <2>2. UNCHANGED pc \/ pc' = [pc EXCEPT ![i] = "nil"]
    BY <1>9 DEF FatalStart, Goto
  <2>3. "nil" \in StartupPC \ Early
    BY DEF StartupPC, Early
  <2> QED BY <1>3, <1>7, <2>1, <2>2, <2>3
<1> QED BY <1>4, <1>5, <1>6, <1>8, <1>9 DEF InitStep

(* No call has read anything.                                                  *)
LEMMA CInvInit == SInit => CInv
<1> SUFFICES ASSUME SInit PROVE CInv
  OBVIOUS
<1>1. PICK w \in Worlds : env = w.env /\ file = w.file
  BY DEF SInit
<1>2. env \in Environments /\ \A k \in DOMAIN file.vars : file.vars[k] \in Values \ {"unset"}
  BY <1>1, WorldsAssumption
<1>3. /\ pc = [i \in Configurers |-> "idle"] /\ source = [i \in Configurers |-> "none"]
      /\ cfg = [i \in Configurers |-> ZeroConfig] /\ found = [i \in Configurers |-> {}]
  BY DEF SInit
<1>4. CType
  BY <1>2, <1>3 DEF CType, StartupPC, Sources
<1>5. ASSUME NEW i \in Configurers
      PROVE  Told(pc[i], source[i], cfg[i], found[i], env, snap, file)
  <2>1. pc[i] = "idle" /\ source[i] = "none"
    BY <1>3
  <2> QED BY <2>1 DEF Told, Reading
<1> QED BY <1>4, <1>5 DEF CInv

(* The inductive step.                                                         *)
LEMMA CInvNext == CInv /\ [SNext]_vars => CInv'
<1> SUFFICES ASSUME CInv, [SNext]_vars PROVE CInv'
  OBVIOUS
<1>1. UNCHANGED <<pc, source, cfg, found, env, file, snap>> => CInv'
  BY DEF CInv, CType
<1>2. ASSUME NEW i \in Configurers, LoggerStep(i) PROVE CInv'
  BY <1>1, <1>2 DEF LoggerStep, environment, inits
<1>3. CASE UNCHANGED vars
  BY <1>1, <1>3 DEF vars, environment, inits
<1> QED BY <1>2, <1>3, ReadSteps, LoadDotEnvStep, LaterSteps, SetenvStep DEF SNext

(* The configuration Init reads is in every field what an environment means    *)
(* that the process had, with .env under it, while Init read it, whatever      *)
(* other calls load and whatever variable is set meanwhile                     *)
(* (config_env.go:18-42, defaults.go:5).                                       *)
THEOREM ConfigIsMeaning == SSpec => []ConfigMeansEnvironment
<1>1. CInv => ConfigMeansEnvironment
  BY DEF ConfigMeansEnvironment, Loaded, CInv, Told
<1> QED BY <1>1, CInvInit, CInvNext, PTL DEF SSpec

(* A configuration that is reloaded means the environment of its reload, in    *)
(* every field that has a default in its tag (config_env_gen.go:17-25).        *)
THEOREM ReloadIsMeaning == SSpec => []ReloadMeansEnvironment
<1>1. CInv => ReloadMeansEnvironment
  <2> SUFFICES ASSUME CInv, NEW i \in Configurers, source[i] = "reload",
                      NEW k \in DOMAIN Generated, Generated[k].default # "",
                      NEW e \in found[i]
               PROVE  cfg[i][k] = Meaning(e)[k]
    BY DEF ReloadMeansEnvironment
  <2>1. Errors(e) = {} /\ cfg[i] = LoadConfig(e)
    BY DEF CInv, Told
  <2> QED BY <2>1, ReloadsMeaning
<1> QED BY <1>1, CInvInit, CInvNext, PTL DEF SSpec
=============================================================================
