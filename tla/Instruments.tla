----------------------------- MODULE Instruments -----------------------------
(* The instrument registry and the Fast* instruments (instruments.go) across   *)
(* restarts.  Start and Shutdown replace t.registry and add one to t.epoch in  *)
(* the same critical section (module Lifecycle), so a registry is named by the *)
(* epoch it was made at; an instrument belongs to a registry for ever.  Every  *)
(* element of Users is a goroutine that fetches an instrument from the current *)
(* registry, keeps it, and records through it as often as it likes, directly   *)
(* or through a Timer, which it may start under one registry and stop under    *)
(* another.                                                                    *)
EXTENDS Naturals, FiniteSets

CONSTANTS Users,
          Instruments,      \* the (kind, name) pairs asked for
          Histograms,       \* those a Timer can be made of
          MaxInstruments,
          MaxEpoch,         \* bound: the restarts explored
          Nobody

ASSUME MaxAssumption == MaxInstruments \in Nat \ {0} /\ MaxEpoch \in Nat
ASSUME InstrumentAssumption == Instruments # {} /\ Histograms \subseteq Instruments
ASSUME NobodyAssumption == Nobody \notin Users

Epochs == 0..MaxEpoch

VARIABLES
  epoch,       \* t.epoch, and so the registry t.registry
  stored,      \* [e] the instruments in the maps of registry e
  registered,  \* [e] the instruments its meter was asked to create, how often
  lock,        \* [e] who holds its mu for writing
  pc,          \* [u] where a user is
  reg, ins,    \* [u] the registry it fetched and the instrument it wants
  began,       \* [u] the epoch at which its record began
  armed,       \* [u] its Timer's start is set
  hits         \* the records that reached a meter: <<its registry, when it began>>

registries == <<stored, registered, lock>>
users == <<pc, reg, ins, began, armed>>
vars == <<epoch, registries, users, hits>>

Getting == {"read", "lock", "check", "create", "store"}
Recording == {"live", "resolve", "again", "apply"}

TypeOK ==
  /\ epoch \in Epochs
  /\ stored \in [Epochs -> SUBSET Instruments]
  /\ registered \in [Epochs -> [Instruments -> 0..1]]
  /\ lock \in [Epochs -> Users \cup {Nobody}]
  /\ pc \in [Users -> {"idle", "have", "error"} \cup Getting \cup Recording]
  /\ reg \in [Users -> Epochs]
  /\ ins \in [Users -> Instruments]
  /\ began \in [Users -> Epochs]
  /\ armed \in [Users -> BOOLEAN]
  /\ hits \subseteq Epochs \X Epochs

Init ==
  /\ epoch = 0
  /\ stored = [e \in Epochs |-> {}]
  /\ registered = [e \in Epochs |-> [i \in Instruments |-> 0]]
  /\ lock = [e \in Epochs |-> Nobody]
  /\ pc = [u \in Users |-> "idle"]
  /\ reg = [u \in Users |-> 0]
  /\ ins = [u \in Users |-> CHOOSE i \in Instruments : TRUE]
  /\ began = [u \in Users |-> 0]
  /\ armed = [u \in Users |-> FALSE]
  /\ hits = {}

-----------------------------------------------------------------------------
Goto(u, from, to) == pc[u] = from /\ pc' = [pc EXCEPT ![u] = to]
Free(u) == lock[reg[u]] = Nobody
Unlock(u) == lock' = [lock EXCEPT ![reg[u]] = Nobody]
Found(u) == ins[u] \in stored[reg[u]]

(* Slips the properties below exclude: one instrument too many, and a record   *)
(* through an instrument of any epoch.                                         *)
FullOffByOne(e) == Cardinality(stored[e]) > MaxInstruments
AlwaysLive(u) == TRUE

(* instrumentCount, against maxInstruments.                                    *)
Full(e) == Cardinality(stored[e]) >= MaxInstruments

(* instrumentLive.                                                             *)
Live(u) == epoch = reg[u]

-----------------------------------------------------------------------------
(* Slips the properties below exclude.                                         *)
CreateUnchecked(u) ==
  /\ IF Full(reg[u]) THEN Goto(u, "check", "error") /\ Unlock(u)
                     ELSE Goto(u, "check", "create") /\ UNCHANGED lock
  /\ UNCHANGED <<epoch, stored, registered, reg, ins, began, armed, hits>>

CreateErrorLocked(u) ==
  /\ \/ /\ Goto(u, "create", "store")
        /\ registered' = [registered EXCEPT ![reg[u]][ins[u]] = @ + 1]
     \/ Goto(u, "create", "error") /\ UNCHANGED registered
  /\ UNCHANGED <<epoch, stored, lock, reg, ins, began, armed, hits>>
-----------------------------------------------------------------------------
(* Start commits, or Shutdown begins: the registry is replaced by a new one.   *)
Restart ==
  /\ epoch < MaxEpoch
  /\ epoch' = epoch + 1
  /\ UNCHANGED <<registries, users, hits>>

(* t.Registry().Counter(name), or Histogram or Gauge.                          *)
Fetch(u) ==
  /\ pc[u] \in {"idle", "have", "error"}
  /\ pc' = [pc EXCEPT ![u] = "read"]
  /\ reg' = [reg EXCEPT ![u] = epoch]
  /\ \E i \in Instruments : ins' = [ins EXCEPT ![u] = i]
  /\ armed' = [armed EXCEPT ![u] = FALSE]
  /\ UNCHANGED <<epoch, registries, began, hits>>

(* getOrCreate: the look under RLock ...                                       *)
FastLookup(u) ==
  /\ Free(u)
  /\ Goto(u, "read", IF Found(u) THEN "have" ELSE "lock")
  /\ UNCHANGED <<epoch, registries, reg, ins, began, armed, hits>>

Acquire(u) ==
  /\ Free(u)
  /\ Goto(u, "lock", "check")
  /\ lock' = [lock EXCEPT ![reg[u]] = u]
  /\ UNCHANGED <<epoch, stored, registered, reg, ins, began, armed, hits>>

(* ... and the second one, with the limit, under the write lock.               *)
Recheck(u) ==
  /\ CASE Found(u) -> Goto(u, "check", "have") /\ Unlock(u)
       [] ~Found(u) /\ Full(reg[u]) -> Goto(u, "check", "error") /\ Unlock(u)
       [] OTHER -> Goto(u, "check", "create") /\ UNCHANGED lock
  /\ UNCHANGED <<epoch, stored, registered, reg, ins, began, armed, hits>>

(* The meter creates the instrument, or refuses it and has registered nothing. *)
Create(u) ==
  /\ \/ /\ Goto(u, "create", "store")
        /\ registered' = [registered EXCEPT ![reg[u]][ins[u]] = @ + 1]
        /\ UNCHANGED lock
     \/ Goto(u, "create", "error") /\ Unlock(u) /\ UNCHANGED registered
  /\ UNCHANGED <<epoch, stored, reg, ins, began, armed, hits>>

Store(u) ==
  /\ Goto(u, "store", "have")
  /\ stored' = [stored EXCEPT ![reg[u]] = @ \cup {ins[u]}]
  /\ Unlock(u)
  /\ UNCHANGED <<epoch, registered, reg, ins, began, armed, hits>>

-----------------------------------------------------------------------------
(* A record: the plain form looks once whether the instrument is live, the     *)
(* forms with labels before they resolve them.                                 *)
BeginRecord(u) ==
  /\ Goto(u, "have", "live") \/ Goto(u, "have", "again")
  /\ began' = [began EXCEPT ![u] = epoch]
  /\ UNCHANGED <<epoch, registries, reg, ins, armed, hits>>

(* NewTimer over the histogram it has, and Timer.Start.                        *)
StartTimer(u) ==
  /\ pc[u] = "have" /\ ins[u] \in Histograms
  /\ armed' = [armed EXCEPT ![u] = TRUE]
  /\ UNCHANGED <<epoch, registries, pc, reg, ins, began, hits>>

(* Timer.Stop and StopWith*: a Timer that was not started records nothing, and *)
(* one that was is spent by it, whether or not the histogram is still live.    *)
StopTimer(u) ==
  /\ armed[u]
  /\ Goto(u, "have", "live") \/ Goto(u, "have", "again")
  /\ armed' = [armed EXCEPT ![u] = FALSE]
  /\ began' = [began EXCEPT ![u] = epoch]
  /\ UNCHANGED <<epoch, registries, reg, ins, hits>>

CheckLive(u) ==
  /\ Goto(u, "live", IF Live(u) THEN "resolve" ELSE "have")
  /\ UNCHANGED <<epoch, registries, reg, ins, began, armed, hits>>

(* lookup* denies the labels or finds their options; without any label the     *)
(* plain form takes over and looks again.                                      *)
Resolve(u) ==
  /\ \E to \in {"have", "apply", "again"} : Goto(u, "resolve", to)
  /\ UNCHANGED <<epoch, registries, reg, ins, began, armed, hits>>

CheckAgain(u) ==
  /\ Goto(u, "again", IF Live(u) THEN "apply" ELSE "have")
  /\ UNCHANGED <<epoch, registries, reg, ins, began, armed, hits>>

(* The OpenTelemetry instrument takes the value.                               *)
Apply(u) ==
  /\ Goto(u, "apply", "have")
  /\ hits' = hits \cup {<<reg[u], began[u]>>}
  /\ UNCHANGED <<epoch, registries, reg, ins, began, armed>>

GetStep(u) == FastLookup(u) \/ Acquire(u) \/ Recheck(u) \/ Create(u) \/ Store(u)
RecordStep(u) == CheckLive(u) \/ Resolve(u) \/ CheckAgain(u) \/ Apply(u)

Next == \/ Restart
        \/ \E u \in Users : Fetch(u) \/ GetStep(u) \/ RecordStep(u)
                            \/ BeginRecord(u) \/ StartTimer(u) \/ StopTimer(u)

Spec == Init /\ [][Next]_vars

(* Calls that have begun keep running.  A goroutine that wants reg.mu gets it  *)
(* in the end even when others keep asking for it: a Go RWMutex lets a waiting *)
(* writer in before new readers, and readers before the next writer.           *)
FairSpec == Spec /\ \A u \in Users : SF_vars(GetStep(u)) /\ WF_vars(RecordStep(u))

-----------------------------------------------------------------------------
(* A registry never holds more than MaxInstruments, nor does its meter, over   *)
(* all three kinds and however many creations race (instruments.go:106-111).   *)
InstrumentsBounded ==
  \A e \in Epochs :
    Cardinality({i \in Instruments : registered[e][i] > 0}) <= MaxInstruments

(* The meter is asked once for an instrument, and what it made is in the map,  *)
(* or about to be: no instrument is orphaned in the SDK (instruments.go:87).   *)
NoOrphanInstrument ==
  \A e \in Epochs, i \in Instruments :
    /\ registered[e][i] <= 1
    /\ registered[e][i] = 1 =>
         \/ i \in stored[e]
         \/ \E u \in Users : pc[u] = "store" /\ reg[u] = e /\ ins[u] = i

(* A record reaches the meter of a registry only when it began while that      *)
(* registry was the current one: an instrument from before a Start or a        *)
(* Shutdown records nothing after it (instruments.go:201-256).                 *)
RecordsWhereBegun == \A h \in hits : h[1] = h[2]

(* Asking for an instrument ends, with the instrument or with an error.        *)
GetReturns == \A u \in Users : pc[u] \in Getting ~> pc[u] \in {"have", "error"}
=============================================================================
