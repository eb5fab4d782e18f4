------------------------------ MODULE AllowList ------------------------------
(* AllowSubjects against Start and Shutdown (tel.go), with DenyUnknown on: the *)
(* labels are kept by the Telemetry for the caches of later Starts, and also   *)
(* added to the allow list of the running one's cache, which AttrCache.Allow   *)
(* (metric.go) replaces by a larger copy.  Every element of Callers is one     *)
(* call of AllowSubjects, every element of Starts one Start; a Start's cache   *)
(* bears its name.  The caches of a stopped Telemetry deny nothing, so their   *)
(* lists are left out.                                                         *)
EXTENDS Naturals, FiniteSets

CONSTANTS Callers, Starts,
          Labels, Empty,    \* label values, "" among them
          None              \* no Start is running

ASSUME NoneAssumption == None \notin Starts

VARIABLES
  allowedLabels,  \* t.allowedLabels
  running,        \* the Start whose cache is that of t.registry, or None
  list,           \* [s] the set behind the pointer allowed of its cache
  startPC,        \* [s] where Start s is
  callerPC,       \* [c] where AllowSubjects call c is
  wanted,         \* [c] its labels
  target, prev,   \* [c] the Start whose cache it met, and the list it loaded
  alone           \* history: the calls no other call or Start interfered with

starts == <<list, startPC>>
callers == <<callerPC, wanted, target, prev>>
vars == <<allowedLabels, running, starts, callers, alone>>

TypeOK ==
  /\ allowedLabels \subseteq Labels
  /\ running \in Starts \cup {None}
  /\ list \in [Starts -> SUBSET (Labels \ {Empty})]
  /\ startPC \in [Starts -> {"idle", "copy", "commit", "done"}]
  /\ callerPC \in [Callers -> {"idle", "load", "store", "done"}]
  /\ wanted \in [Callers -> SUBSET Labels]
  /\ target \in [Callers -> Starts \cup {None}]
  /\ prev \in [Callers -> SUBSET (Labels \ {Empty})]
  /\ alone \subseteq Callers

Init ==
  /\ allowedLabels = {} /\ running = None
  /\ list = [s \in Starts |-> {}]
  /\ startPC = [s \in Starts |-> "idle"]
  /\ callerPC = [c \in Callers |-> "idle"]
  /\ wanted \in [Callers -> SUBSET Labels \ {{}}]
  /\ target = [c \in Callers |-> None]
  /\ prev = [c \in Callers |-> {}]
  /\ alone = {}

-----------------------------------------------------------------------------
StartGoto(s, from, to) == startPC[s] = from /\ startPC' = [startPC EXCEPT ![s] = to]
Goto(c, from, to) == callerPC[c] = from /\ callerPC' = [callerPC EXCEPT ![c] = to]

BeginStart(s) ==
  /\ StartGoto(s, "idle", IF running = None THEN "copy" ELSE "done")
  /\ UNCHANGED <<allowedLabels, running, list, callers, alone>>

(* The labels are copied under RLock and put into the cache, which no one else *)
(* has seen.                                                                   *)
CopyLabels(s) ==
  /\ StartGoto(s, "copy", "commit")
  /\ list' = [list EXCEPT ![s] = allowedLabels \ {Empty}]
  /\ UNCHANGED <<allowedLabels, running, callers, alone>>

(* Commit, or lose the race to another Start.                                  *)
Commit(s) ==
  /\ StartGoto(s, "commit", "done")
  /\ running' = IF running = None THEN s ELSE running
  /\ UNCHANGED <<allowedLabels, list, callers, alone>>

(* initProviders or startMonitor fails.                                        *)
StartFails(s) ==
  /\ StartGoto(s, "copy", "done") \/ StartGoto(s, "commit", "done")
  /\ UNCHANGED <<allowedLabels, running, list, callers, alone>>

Shutdown ==
  /\ running # None
  /\ running' = None
  /\ UNCHANGED <<allowedLabels, starts, callers, alone>>

-----------------------------------------------------------------------------
Replacing == {c \in Callers : callerPC[c] \in {"load", "store"}}
Interferes == Replacing # {} \/ \E s \in Starts : startPC[s] = "commit"

(* A slip the properties below exclude: the labels of a running Telemetry kept *)
(* by its cache only.                                                          *)
RegisterInCache(c) ==
  /\ Goto(c, "idle", IF running = None THEN "done" ELSE "load")
  /\ target' = [target EXCEPT ![c] = running]
  /\ allowedLabels' = IF running = None THEN allowedLabels \cup wanted[c]
                                        ELSE allowedLabels
  /\ alone' = IF Interferes THEN alone \ Replacing ELSE alone \cup {c}
  /\ UNCHANGED <<running, starts, wanted, prev>>

(* AllowSubjects, under t.mu.                                                  *)
Register(c) ==
  /\ Goto(c, "idle", IF running = None THEN "done" ELSE "load")
  /\ target' = [target EXCEPT ![c] = running]
  /\ allowedLabels' = allowedLabels \cup wanted[c]
  /\ alone' = IF Interferes THEN alone \ Replacing ELSE alone \cup {c}
  /\ UNCHANGED <<running, starts, wanted, prev>>

(* AttrCache.Allow, under no lock: the list is loaded ...                      *)
LoadList(c) ==
  /\ Goto(c, "load", "store")
  /\ prev' = [prev EXCEPT ![c] = list[target[c]]]
  /\ UNCHANGED <<allowedLabels, running, starts, wanted, target, alone>>

(* A slip: "" kept in the list.                                               *)
StoreAll(c) ==
  /\ Goto(c, "store", "done")
  /\ list' = [list EXCEPT ![target[c]] = prev[c] \cup wanted[c]]
  /\ UNCHANGED <<allowedLabels, running, startPC, wanted, target, prev, alone>>

(* ... and a larger copy is stored.                                            *)
StoreList(c) ==
  /\ Goto(c, "store", "done")
  /\ list' = [list EXCEPT ![target[c]] = prev[c] \cup (wanted[c] \ {Empty})]
  /\ UNCHANGED <<allowedLabels, running, startPC, wanted, target, prev, alone>>

Next == \/ \E s \in Starts : BeginStart(s) \/ CopyLabels(s) \/ Commit(s) \/ StartFails(s)
        \/ Shutdown
        \/ \E c \in Callers : Register(c) \/ LoadList(c) \/ StoreList(c)

Spec == Init /\ [][Next]_vars

-----------------------------------------------------------------------------
Done(c) == callerPC[c] = "done"
Passes(labels, s) == labels \ {Empty} \subseteq list[s]

(* A call that met no other one, and no Start between its copy and its commit, *)
(* holds for good: its labels pass the cache of every Start that ever runs     *)
(* after it, and later calls, racing or not, never take them out again         *)
(* (tel.go:195-200, 420-435, metric.go:88-111).                                *)
QuietCallsHold ==
  \A c \in alone : Done(c) /\ running # None => Passes(wanted[c], running)

(* tel.go:418 "Safe before or after Start; pre-Start values are applied when   *)
(* the AttrCache is created": what was registered while nothing ran passes the *)
(* cache that runs next.                                                       *)
PreStartApplied ==
  \A c \in Callers :
    Done(c) /\ target[c] = None /\ running # None => Passes(wanted[c], running)

(* metric.go:86 "Allow registers label values permitted when DenyUnknown is    *)
(* set": a cache permits the labels of every Allow that returned.              *)
AllowRegisters ==
  \A c \in Callers : Done(c) /\ target[c] # None => Passes(wanted[c], target[c])
=============================================================================
