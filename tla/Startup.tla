------------------------------- MODULE Startup -------------------------------
(* From the environment to a running Telemetry: Init and InitWithConfig        *)
(* (config_env.go), called by several goroutines, with ConfigureLogger in the  *)
(* steps of ProcessLogger, Fatal and its exit function, and the application    *)
(* setting variables and reloading its configuration meanwhile.  Start itself  *)
(* is module Lifecycle: here it succeeds or fails.                             *)
EXTENDS ProcessLogger, Environment

CONSTANTS Worlds,          \* the environments, .env files and exits explored
          Assignments,     \* <<variable, value>>: what the application may set
          MaxSets          \* bound: how often it does

ASSUME MaxSetsAssumption == MaxSets \in Nat

(* Neither a .env file nor os.Setenv can unset a variable.                     *)
ASSUME WorldsAssumption ==
  /\ Assignments \subseteq EnvKeys \X (Values \ {"unset"})
  /\ \A w \in Worlds :
       /\ w.env \in Environments /\ w.exits \in BOOLEAN
       /\ \A k \in DOMAIN w.file.vars : w.file.vars[k] \in Values \ {"unset"}

VARIABLES
  env,       \* the variables of the process
  file,      \* the .env file: missing, broken or read, and what it assigns
  snap,      \* env.Snapshot
  sets,
  pc,        \* [i] where a call of Init or InitWithConfig is
  source,    \* [i] where its configuration comes from
  cfg,       \* [i] the configuration
  found,     \* [i] the environments of the process while the call read them
  global,    \* whose Telemetry is the global one
  mixed,     \* the last call to configure the logger did so during another
  exits,     \* the exit function is os.Exit
  exited     \* it has been called

environment == <<env, file, snap, sets>>
process == <<exits, exited>>
inits == <<pc, source, cfg, found>>
installed == <<global, mixed>>
vars == <<loggerVars, environment, process, inits, installed>>

StartupPC == {"idle", "dotenv", "reload", "load", "nested", "logger", "logging", "start",
              "fatalConfig", "fatalStart", "returned", "nil", "failed"}

STypeOK ==
  /\ LTypeOK
  /\ env \in Environments /\ snap \in Environments
  /\ sets \in 0..MaxSets
  /\ pc \in [Configurers -> StartupPC]
  /\ source \in [Configurers -> {"none", "env", "given", "zero", "reload"}]
  /\ \A i \in Configurers : DOMAIN cfg[i] = Keys
  /\ found \in [Configurers -> SUBSET Environments]
  /\ global \in Owners /\ mixed \in BOOLEAN
  /\ exits \in BOOLEAN /\ exited \in BOOLEAN

SInit ==
  /\ LInit
  /\ \E w \in Worlds : env = w.env /\ file = w.file /\ exits = w.exits
  /\ snap = env /\ sets = 0
  /\ pc = [i \in Configurers |-> "idle"]
  /\ source = [i \in Configurers |-> "none"]
  /\ cfg = [i \in Configurers |-> ZeroConfig]
  /\ found = [i \in Configurers |-> {}]
  /\ global = Package /\ mixed = FALSE
  /\ exited = FALSE

-----------------------------------------------------------------------------
Goto(i, from, to) == ~exited /\ pc[i] = from /\ pc' = [pc EXCEPT ![i] = to]
Reading == {"reload", "load", "nested"}
Read(i, from, to) == Goto(i, from, to) /\ UNCHANGED <<loggerVars, process, installed>>

(* Slips the properties below exclude.                                         *)

(* The snapshot of before the .env file was loaded.                            *)
KeepSnapshot(i) ==
  /\ Read(i, "reload", "load")
  /\ UNCHANGED <<environment, source, cfg, found>>

(* ReloadConfig from the snapshot as it is.                                    *)
ReloadStale(i) ==
  /\ ~exited /\ pc[i] \in {"returned", "failed"} /\ source[i] \in {"given", "reload"}
  /\ Errors(snap) = {}
  /\ cfg' = [cfg EXCEPT ![i] = LoadConfig(snap)]
  /\ found' = [found EXCEPT ![i] = {env}]
  /\ source' = [source EXCEPT ![i] = "reload"]
  /\ UNCHANGED <<loggerVars, environment, process, pc, installed>>

(* A global Telemetry that is set only once.                                   *)
CreateOnce(i) ==
  /\ at[i] = "done"
  /\ Goto(i, "logging", "start")
  /\ global' = IF global = Package THEN i ELSE global
  /\ UNCHANGED <<loggerVars, environment, process, source, cfg, found, mixed>>
-----------------------------------------------------------------------------
(* Init, and so GetConfigFromEnv, is called, ...                               *)
Init(i) ==
  /\ Read(i, "idle", "dotenv")
  /\ UNCHANGED <<environment, source, cfg, found>>

(* ... or InitWithConfig, with DefaultConfig, say.                             *)
InitWithConfig(i) ==
  /\ Read(i, "idle", "logger")
  /\ source' = [source EXCEPT ![i] = "given"]
  /\ cfg' = [cfg EXCEPT ![i] = DefaultConfig]
  /\ UNCHANGED <<environment, found>>

(* loadDotEnv: the variables that are not set are; a missing file is fine.     *)
LoadDotEnv(i) ==
  /\ Read(i, "dotenv", IF file.status = "broken" THEN "fatalConfig" ELSE "reload")
  /\ env' = Overlay(env, file.vars)
  /\ found' = [found EXCEPT ![i] = {env'}]
  /\ UNCHANGED <<file, snap, sets, source, cfg>>

(* env.Reload.                                                                 *)
Reload(i) ==
  /\ Read(i, "reload", "load")
  /\ snap' = env
  /\ UNCHANGED <<env, file, sets, source, cfg, found>>

(* The generated LoadConfig, from the snapshot.                                *)
Load(i) ==
  /\ Read(i, "load", IF Errors(snap) = {} THEN "nested" ELSE "fatalConfig")
  /\ cfg' = [cfg EXCEPT ![i] = IF Errors(snap) = {} THEN LoadConfig(snap) ELSE @]
  /\ UNCHANGED <<environment, source, found>>

(* The rest of GetConfigFromEnv, from the variables of the process.            *)
LoadNested(i) ==
  /\ Read(i, "nested", "logger")
  /\ cfg' = [cfg EXCEPT ![i] = ApplyNestedEnv(@, env)]
  /\ source' = [source EXCEPT ![i] = "env"]
  /\ UNCHANGED <<environment, found>>

(* InitWithConfig: ConfigureLogger, in the steps of ProcessLogger, ...         *)
Configure(i) ==
  /\ Goto(i, "logger", "logging")
  /\ InitLogger(i)
  /\ mixed' = (\E j \in Configurers : pc[j] = "logging")
  /\ UNCHANGED <<environment, process, source, cfg, found, global>>

(* ... NewWithConfig and SetGlobal, ...                                        *)
Create(i) ==
  /\ at[i] = "done"
  /\ Goto(i, "logging", "start")
  /\ global' = i
  /\ UNCHANGED <<loggerVars, environment, process, source, cfg, found, mixed>>

(* ... and Start; its error is Init's to be fatal about, or the caller's.      *)
Start(i) ==
  /\ \/ Goto(i, "start", "returned")
     \/ Goto(i, "start", IF source[i] = "given" THEN "failed" ELSE "fatalStart")
  /\ UNCHANGED <<loggerVars, environment, process, source, cfg, found, installed>>

(* Fatal: the line, and the exit function.  One that returns lets Init go on,  *)
(* with the zero configuration, ...                                            *)
FatalConfig(i) ==
  /\ IF exits THEN ~exited /\ pc[i] = "fatalConfig" /\ exited' = TRUE /\ UNCHANGED <<pc, source>>
              ELSE /\ Goto(i, "fatalConfig", "logger") /\ UNCHANGED exited
                   /\ source' = [source EXCEPT ![i] = "zero"]
  /\ UNCHANGED <<loggerVars, environment, cfg, found, installed, exits>>

(* ... or return no Telemetry at all.                                          *)
FatalStart(i) ==
  /\ IF exits THEN ~exited /\ pc[i] = "fatalStart" /\ exited' = TRUE /\ UNCHANGED pc
              ELSE Goto(i, "fatalStart", "nil") /\ UNCHANGED exited
  /\ UNCHANGED <<loggerVars, environment, source, cfg, found, installed, exits>>

-----------------------------------------------------------------------------
(* os.Setenv by the application.                                               *)
Setenv ==
  /\ ~exited /\ sets < MaxSets
  /\ \E a \in Assignments : env' = [env EXCEPT ![a[1]] = a[2]]
  /\ sets' = sets + 1
  /\ found' = [i \in Configurers |-> IF pc[i] \in Reading THEN found[i] \cup {env'} ELSE found[i]]
  /\ UNCHANGED <<loggerVars, file, snap, process, pc, source, cfg, installed>>

(* ReloadConfig of the configuration the application passed to InitWithConfig: *)
(* replaced as a whole, its nested sections too, or left as it is.  The step   *)
(* stands at the last env.Reload before its env.Snapshot.                      *)
ReloadConfig(i) ==
  /\ ~exited /\ pc[i] \in {"returned", "failed"} /\ source[i] \in {"given", "reload"}
  /\ snap' = env
  /\ IF Errors(env) = {}
     THEN /\ cfg' = [cfg EXCEPT ![i] = LoadConfig(env)]
          /\ found' = [found EXCEPT ![i] = {env}]
          /\ source' = [source EXCEPT ![i] = "reload"]
     ELSE UNCHANGED <<cfg, found, source>>
  /\ UNCHANGED <<loggerVars, env, file, sets, process, pc, installed>>

-----------------------------------------------------------------------------
ConfigStep(i) == \/ Init(i) \/ InitWithConfig(i) \/ LoadDotEnv(i) \/ Reload(i)
                 \/ Load(i) \/ LoadNested(i) \/ ReloadConfig(i)
InitStep(i) == \/ Configure(i) \/ Create(i) \/ Start(i)
               \/ FatalConfig(i) \/ FatalStart(i)
LoggerStep(i) ==
  /\ ~exited
  /\ \/ StoreBase(i) \/ DefaultBase(i) \/ WithServiceFields(i)
     \/ StoreFull(i) \/ DefaultFull(i)
  /\ UNCHANGED <<environment, process, inits, installed>>

SNext == \/ \E i \in Configurers : ConfigStep(i) \/ InitStep(i) \/ LoggerStep(i)
         \/ Setenv

SSpec == SInit /\ [][SNext]_vars

-----------------------------------------------------------------------------
(* In every field the configuration is what an environment means that the     *)
(* process had, with .env under it, while the call read it, and where that     *)
(* says nothing what DefaultConfig says: all fields of one environment when no *)
(* variable was set meanwhile, also when two goroutines load at once, and no   *)
(* field of an older one when some was (config_env.go:18-42, defaults.go:5).   *)
Loaded(i) == source[i] = "env" /\ pc[i] # "fatalConfig"

ConfigMeansEnvironment ==
  \A i \in Configurers : Loaded(i) =>
    \A k \in Keys : \E e \in found[i] : cfg[i][k] = Meaning(e)[k]

(* A reloaded configuration means the environment of its reload in every field *)
(* that has a default in its tag (config_env_gen.go:17-25).                    *)
ReloadMeansEnvironment ==
  \A i \in Configurers : source[i] = "reload" =>
    \A k \in DOMAIN Generated :
      Generated[k].default # "" => \A e \in found[i] : cfg[i][k] = Meaning(e)[k]

(* The process logger and the global Telemetry are those of one call, the last *)
(* to begin, once no call is between the two, if that one did not run into     *)
(* another: whatever calls before it left mixed, it puts right                 *)
(* (config_env.go:145-155).                                                    *)
InitInstallsBoth ==
  ~mixed /\ (\A i \in Configurers : pc[i] # "logging") =>
    proc = dflt /\ proc.base = global /\ global = newest
=============================================================================
