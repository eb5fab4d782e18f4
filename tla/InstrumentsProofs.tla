-------------------------- MODULE InstrumentsProofs --------------------------
(* A registry and the instruments of it, for any number of users, instruments  *)
(* and restarts: the limit is kept, no instrument is orphaned in the SDK, and  *)
(* no record reaches the meter of another epoch than the one it began in.      *)
EXTENDS Instruments, FiniteSetTheorems, TLAPS

Holding == {"check", "create", "store"}
Storing(u, e, i) == pc[u] = "store" /\ reg[u] = e /\ ins[u] = i

(* The write lock excludes other creations in the registry ...                 *)
Locked(u) == pc[u] \in Holding => lock[reg[u]] = u

(* ... so what its holder found out there under it stays true: the instrument  *)
(* is not there, and there is room for it.                                     *)
Room(u) == pc[u] \in {"create", "store"} =>
             /\ ~Found(u)
             /\ Cardinality(stored[reg[u]]) < MaxInstruments

(* The meter has what is in the map and what is about to be.                   *)
Accounted(e) ==
  /\ IsFiniteSet(stored[e]) /\ Cardinality(stored[e]) <= MaxInstruments
  /\ \A i \in Instruments :
       registered[e][i] = IF i \in stored[e] \/ \E u \in Users : Storing(u, e, i)
                            THEN 1 ELSE 0

(* A registry is fetched before a record through it begins, and both before    *)
(* now; a record that passed instrumentLive has them at the same epoch.        *)
InTime(u) == /\ reg[u] <= epoch
             /\ pc[u] \in Recording => reg[u] <= began[u] /\ began[u] <= epoch
             /\ pc[u] \in {"resolve", "apply"} => reg[u] = began[u]

IInv == /\ TypeOK
        /\ \A u \in Users : Locked(u) /\ Room(u) /\ InTime(u)
        /\ \A e \in Epochs : Accounted(e)
        /\ RecordsWhereBegun

-----------------------------------------------------------------------------
(* The steps that hold no lock and leave the registries alone.                 *)
Outside(u) == \/ Fetch(u) \/ FastLookup(u) \/ BeginRecord(u) \/ StartTimer(u)
              \/ StopTimer(u) \/ RecordStep(u)

(* The types are kept.                                                         *)
LEMMA OutsideTypes ==
  ASSUME TypeOK, NEW u \in Users, Outside(u)
  PROVE  /\ TypeOK'
         /\ UNCHANGED <<epoch, stored, registered, lock>>
         /\ pc[u] \notin Holding /\ pc'[u] \notin Holding
         /\ \A v \in Users \ {u} : /\ pc'[v] = pc[v] /\ reg'[v] = reg[v]
                                   /\ ins'[v] = ins[v] /\ began'[v] = began[v]
<1> USE DEF TypeOK, Getting, Recording, Holding, registries, Goto
<1>1. CASE Fetch(u)
  BY <1>1 DEF Fetch
<1>2. CASE FastLookup(u)
  BY <1>2 DEF FastLookup
<1>3. CASE BeginRecord(u)
  BY <1>3 DEF BeginRecord
<1>4. CASE StartTimer(u)
  BY <1>4 DEF StartTimer
<1>5. CASE StopTimer(u)
  BY <1>5 DEF StopTimer
<1>6. CASE CheckLive(u)
  BY <1>6 DEF CheckLive
<1>7. CASE Resolve(u)
  BY <1>7 DEF Resolve
<1>8. CASE CheckAgain(u)
  BY <1>8 DEF CheckAgain
<1>9. CASE Apply(u)
  BY <1>9 DEF Apply
<1> QED
  BY <1>1, <1>2, <1>3, <1>4, <1>5, <1>6, <1>7, <1>8, <1>9 DEF Outside, RecordStep

(* The lock and the registries stay as they were agreed.                       *)
LEMMA OutsideRegistries ==
  ASSUME IInv, NEW u \in Users, Outside(u)
  PROVE  /\ \A v \in Users : Locked(v)' /\ Room(v)'
         /\ \A e \in Epochs : Accounted(e)'
<1>1. /\ UNCHANGED <<epoch, stored, registered, lock>>
      /\ pc[u] \notin Holding /\ pc'[u] \notin Holding
      /\ \A v \in Users \ {u} : /\ pc'[v] = pc[v] /\ reg'[v] = reg[v]
                                /\ ins'[v] = ins[v]
  BY OutsideTypes DEF IInv
<1>2. ASSUME NEW v \in Users PROVE Locked(v)' /\ Room(v)'
  BY <1>1 DEF IInv, Locked, Room, Found, Holding
<1>3. ASSUME NEW e \in Epochs PROVE Accounted(e)'
  <2>1. \A v \in Users, i \in Instruments : Storing(v, e, i)' <=> Storing(v, e, i)
    BY <1>1 DEF Storing, Holding
  <2> QED BY <1>1, <2>1 DEF IInv, Accounted
<1> QED BY <1>2, <1>3

(* No record gets past instrumentLive in an epoch it did not begin in.         *)
LEMMA OutsideTimes ==
  ASSUME IInv, NEW u \in Users, Outside(u)
  PROVE  (\A v \in Users : InTime(v)') /\ RecordsWhereBegun'
<1>1. /\ epoch' = epoch
      /\ \A v \in Users \ {u} : /\ pc'[v] = pc[v] /\ reg'[v] = reg[v]
                                /\ began'[v] = began[v]
  BY OutsideTypes DEF IInv
<1>2. \A v \in Users \ {u} : InTime(v)'
  BY <1>1 DEF IInv, InTime
<1>3. /\ TypeOK /\ RecordsWhereBegun /\ InTime(u)
      /\ epoch \in Nat /\ reg[u] \in Nat /\ began[u] \in Nat
  BY DEF IInv, TypeOK, Epochs
<1>4. InTime(u)' /\ RecordsWhereBegun'
  <2> USE DEF InTime, RecordsWhereBegun, Recording, Goto
  <2>1. CASE Fetch(u)
    BY <1>3, <2>1 DEF Fetch, TypeOK
  <2>2. CASE FastLookup(u)
    BY <1>3, <2>2 DEF FastLookup, TypeOK
  <2>3. CASE BeginRecord(u)
    BY <1>3, <2>3 DEF BeginRecord, TypeOK
  <2>4. CASE StartTimer(u)
    BY <1>3, <2>4 DEF StartTimer
  <2>5. CASE StopTimer(u)
    BY <1>3, <2>5 DEF StopTimer, TypeOK
  <2>6. CASE CheckLive(u)
    BY <1>3, <2>6 DEF CheckLive, Live, TypeOK
  <2>7. CASE Resolve(u)
    BY <1>3, <2>7 DEF Resolve, TypeOK
  <2>8. CASE CheckAgain(u)
    BY <1>3, <2>8 DEF CheckAgain, Live, TypeOK
  <2>9. CASE Apply(u)
    BY <1>3, <2>9 DEF Apply, TypeOK
  <2> QED
    BY <2>1, <2>2, <2>3, <2>4, <2>5, <2>6, <2>7, <2>8, <2>9 DEF Outside, RecordStep
<1> QED BY <1>2, <1>4

-----------------------------------------------------------------------------
(* The steps of getOrCreate from the write lock on.                            *)
Inside(u) == Acquire(u) \/ Recheck(u) \/ Create(u) \/ Store(u)

(* Recheck as its three outcomes.                                              *)
LEMMA RecheckCases ==
  ASSUME NEW u, Recheck(u)
  PROVE  /\ pc[u] = "check"
         /\ \/ \E to \in {"have", "error"} : pc' = [pc EXCEPT ![u] = to] /\ Unlock(u)
            \/ /\ ~Found(u) /\ ~Full(reg[u]) /\ lock' = lock
               /\ pc' = [pc EXCEPT ![u] = "create"]
         /\ UNCHANGED <<epoch, stored, registered, reg, ins, began, armed, hits>>
<1>1. CASE Found(u)
  BY <1>1 DEF Recheck, Goto
<1>2. CASE ~Found(u) /\ Full(reg[u])
  BY <1>2 DEF Recheck, Goto
<1>3. CASE ~Found(u) /\ ~Full(reg[u])
  BY <1>3 DEF Recheck, Goto
<1> QED BY <1>1, <1>2, <1>3

(* Create as its two.                                                          *)
LEMMA CreateCases ==
  ASSUME NEW u, Create(u)
  PROVE  /\ pc[u] = "create"
         /\ \/ /\ pc' = [pc EXCEPT ![u] = "store"] /\ lock' = lock
               /\ registered' = [registered EXCEPT ![reg[u]][ins[u]] = @ + 1]
            \/ /\ pc' = [pc EXCEPT ![u] = "error"] /\ Unlock(u)
               /\ registered' = registered
         /\ UNCHANGED <<epoch, stored, reg, ins, began, armed, hits>>
  BY DEF Create, Goto

(* A holder of the lock is alone in its registry.                              *)
LEMMA HolderAlone ==
  ASSUME IInv, NEW u \in Users, NEW v \in Users, pc[u] \in Holding, pc[v] \in Holding,
         reg[u] = reg[v]
  PROVE  u = v
  BY DEF IInv, Locked

(* What a creation by u puts down: the meter had not been asked before.        *)
LEMMA CreatedOnce ==
  ASSUME IInv, NEW u \in Users, pc[u] = "create"
  PROVE  registered[reg[u]][ins[u]] = 0
<1>1. reg[u] \in Epochs /\ ins[u] \in Instruments
  BY DEF IInv, TypeOK
<1>2. ins[u] \notin stored[reg[u]]
  BY DEF IInv, Room, Found
<1>3. ASSUME NEW v \in Users, Storing(v, reg[u], ins[u]) PROVE FALSE
  BY <1>3, HolderAlone DEF Storing, Holding
<1> QED BY <1>1, <1>2, <1>3 DEF IInv, Accounted

(* The types are kept, and a step is the user's own.                           *)
LEMMA InsideTypes ==
  ASSUME IInv, NEW u \in Users, Inside(u)
  PROVE  /\ TypeOK'
         /\ UNCHANGED <<epoch, reg, ins, began, armed, hits>>
         /\ pc[u] \in Holding \cup {"lock"} /\ pc'[u] \in Holding \cup {"have", "error"}
         /\ \A v \in Users \ {u} : pc'[v] = pc[v]
         /\ \A e \in Epochs \ {reg[u]} : /\ lock'[e] = lock[e] /\ stored'[e] = stored[e]
                                         /\ registered'[e] = registered[e]
<1>0. TypeOK
  BY DEF IInv
<1>00. reg[u] \in Epochs /\ ins[u] \in Instruments
  BY <1>0 DEF TypeOK
<1>1. CASE Acquire(u)
  BY <1>0, <1>1 DEF Acquire, Goto, TypeOK, Getting, Holding
<1>2. CASE Recheck(u)
  <2>1. /\ pc[u] = "check"
        /\ UNCHANGED <<epoch, stored, registered, reg, ins, began, armed, hits>>
    BY <1>2, RecheckCases
  <2>2. \E to \in {"have", "error", "create"} : pc' = [pc EXCEPT ![u] = to]
    BY <1>2, RecheckCases
  <2>3. lock' = lock \/ lock' = [lock EXCEPT ![reg[u]] = Nobody]
    BY <1>2, RecheckCases DEF Unlock
  <2> QED BY <1>0, <2>1, <2>2, <2>3 DEF TypeOK, Getting, Holding
<1>3. CASE Create(u)
  <2>1. /\ pc[u] = "create" /\ registered[reg[u]][ins[u]] = 0
        /\ UNCHANGED <<epoch, stored, reg, ins, began, armed, hits>>
    BY <1>3, CreateCases, CreatedOnce
  <2>2. \E to \in {"store", "error"} : pc' = [pc EXCEPT ![u] = to]
    BY <1>3, CreateCases
  <2>3. lock' = lock \/ lock' = [lock EXCEPT ![reg[u]] = Nobody]
    BY <1>3, CreateCases DEF Unlock
  <2>4. \/ registered' = registered
        \/ registered' = [registered EXCEPT ![reg[u]][ins[u]] = 1]
    BY <1>3, <2>1, CreateCases
  <2>5. /\ registered' \in [Epochs -> [Instruments -> 0..1]]
        /\ \A e \in Epochs \ {reg[u]} : registered'[e] = registered[e]
    <3>1. CASE registered' = [registered EXCEPT ![reg[u]][ins[u]] = 1]
      <4>1. [registered[reg[u]] EXCEPT ![ins[u]] = 1] \in [Instruments -> 0..1]
        BY <1>0, <1>00 DEF TypeOK
      <4> QED BY <1>0, <1>00, <3>1, <4>1 DEF TypeOK
    <3>2. CASE registered' = registered
      BY <1>0, <3>2 DEF TypeOK
    <3> QED BY <2>4, <3>1, <3>2
  <2> QED BY <1>0, <2>1, <2>2, <2>3, <2>5 DEF TypeOK, Getting, Holding
<1>4. CASE Store(u)
  BY <1>0, <1>00, <1>4 DEF Store, Goto, Unlock, TypeOK, Getting, Holding
<1> QED BY <1>1, <1>2, <1>3, <1>4 DEF Inside

(* The times do not move.                                                      *)
LEMMA InsideTimes ==
  ASSUME IInv, NEW u \in Users, Inside(u)
  PROVE  (\A v \in Users : InTime(v)') /\ RecordsWhereBegun'
<1>1. /\ UNCHANGED <<epoch, reg, began, hits>> /\ pc'[u] \notin Recording
      /\ \A v \in Users \ {u} : pc'[v] = pc[v]
  BY InsideTypes DEF Holding, Recording
<1>2. ASSUME NEW v \in Users PROVE InTime(v)'
  BY <1>1 DEF IInv, InTime, Recording
<1> QED BY <1>1, <1>2 DEF IInv, RecordsWhereBegun

(* Nobody else's lock is taken or given back.                                  *)
LEMMA InsideLocked ==
  ASSUME IInv, NEW u \in Users, Inside(u), NEW v \in Users
  PROVE  Locked(v)'
<1>0. TypeOK /\ Locked(u) /\ Locked(v) /\ reg[u] \in Epochs /\ reg[v] \in Epochs
  BY DEF IInv, TypeOK
<1>1. /\ reg' = reg /\ (v # u => pc'[v] = pc[v])
      /\ \A e \in Epochs \ {reg[u]} : lock'[e] = lock[e]
  BY InsideTypes
<1>2. CASE Acquire(u)
  <2>1. lock[reg[u]] = Nobody /\ lock'[reg[u]] = u
    BY <1>0, <1>2 DEF Acquire, Free, TypeOK
  <2> QED BY <1>0, <1>1, <2>1, NobodyAssumption DEF Locked
<1>3. CASE pc[u] \in Holding /\ lock' = lock
  BY <1>0, <1>1, <1>3 DEF Locked
<1>4. CASE pc[u] \in Holding /\ pc'[u] \notin Holding
  BY <1>0, <1>1, <1>4 DEF Locked
<1>5. Acquire(u) \/ (pc[u] \in Holding /\ (lock' = lock \/ pc'[u] \notin Holding))
  <2>1. CASE Recheck(u)
    BY <1>0, <2>1, RecheckCases DEF Holding, TypeOK
  <2>2. CASE Create(u)
    BY <1>0, <2>2, CreateCases DEF Holding, TypeOK
  <2>3. CASE Store(u)
    BY <1>0, <2>3 DEF Store, Goto, Holding, TypeOK
  <2> QED BY <2>1, <2>2, <2>3 DEF Inside
<1> QED BY <1>2, <1>3, <1>4, <1>5

(* What a holder found out stays true.                                         *)
LEMMA InsideRoom ==
  ASSUME IInv, NEW u \in Users, Inside(u), NEW v \in Users
  PROVE  Room(v)'
<1> SUFFICES ASSUME pc'[v] \in {"create", "store"}
             PROVE  /\ ins[v] \notin stored'[reg[v]]
                    /\ Cardinality(stored'[reg[v]]) < MaxInstruments
  BY InsideTypes DEF Room, Found
<1>0. TypeOK /\ Room(u) /\ Room(v) /\ reg[u] \in Epochs /\ reg[v] \in Epochs
  BY DEF IInv, TypeOK
<1>1. /\ (v # u => pc'[v] = pc[v]) /\ pc[u] \in Holding \cup {"lock"}
      /\ \A e \in Epochs \ {reg[u]} : stored'[e] = stored[e]
  BY InsideTypes
<1>2. CASE v # u
  <2>1. CASE reg[v] # reg[u]
    BY <1>0, <1>1, <1>2, <2>1 DEF Room, Found
  <2>2. CASE reg[v] = reg[u]
    <3>1. pc[u] = "lock"
      BY <1>1, <1>2, <2>2, HolderAlone DEF Holding
    <3>2. stored' = stored
      BY <3>1, RecheckCases, CreateCases DEF Inside, Acquire, Store, Goto
    <3> QED BY <1>0, <1>1, <1>2, <3>2 DEF Room, Found
  <2> QED BY <2>1, <2>2
<1>3. CASE v = u
  <2>1. CASE Recheck(u)
    <3>1. ~Found(u) /\ ~Full(reg[u]) /\ stored' = stored
      BY <1>0, <1>3, <2>1, RecheckCases DEF TypeOK
    <3>2. Cardinality(stored[reg[u]]) \in Nat
      BY <1>0, FS_CardinalityType DEF IInv, Accounted
    <3> QED BY <1>3, <3>1, <3>2, MaxAssumption DEF Full, Found
  <2>2. CASE Create(u)
    BY <1>0, <1>3, <2>2, CreateCases DEF Room, Found
  <2>3. CASE Acquire(u) \/ Store(u)
    BY <1>0, <1>3, <2>3 DEF Acquire, Store, Goto, TypeOK
  <2> QED BY <2>1, <2>2, <2>3 DEF Inside
<1> QED BY <1>2, <1>3

(* The meter and the map stay in step.                                         *)
LEMMA InsideAccounted ==
  ASSUME IInv, NEW u \in Users, Inside(u), NEW e \in Epochs
  PROVE  Accounted(e)'
<1>0. /\ TypeOK /\ TypeOK' /\ Accounted(e) /\ reg[u] \in Epochs /\ ins[u] \in Instruments
      /\ reg' = reg /\ ins' = ins
      /\ \A v \in Users \ {u} : pc'[v] = pc[v]
  BY InsideTypes DEF IInv, TypeOK
<1>1. CASE e # reg[u]
  <2>1. stored'[e] = stored[e] /\ registered'[e] = registered[e]
    BY <1>1, InsideTypes
  <2>2. \A v \in Users, i \in Instruments : Storing(v, e, i)' <=> Storing(v, e, i)
    BY <1>0, <1>1 DEF Storing
  <2> QED BY <1>0, <2>1, <2>2 DEF Accounted
<1>2. CASE e = reg[u]
  <2>1. CASE /\ stored' = stored /\ registered' = registered
             /\ pc[u] # "store" /\ pc'[u] # "store"
    <3>1. \A v \in Users, i \in Instruments : Storing(v, e, i)' <=> Storing(v, e, i)
      BY <1>0, <2>1 DEF Storing
    <3> QED BY <1>0, <2>1, <3>1 DEF Accounted
  <2>2. CASE /\ Create(u) /\ pc' = [pc EXCEPT ![u] = "store"]
             /\ registered' = [registered EXCEPT ![reg[u]][ins[u]] = @ + 1]
    <3>1. /\ pc[u] = "create" /\ pc'[u] = "store" /\ stored' = stored
          /\ registered' = [registered EXCEPT ![reg[u]][ins[u]] = @ + 1]
      BY <1>0, <2>2, CreateCases DEF TypeOK
    <3>2. registered[e][ins[u]] = 0
      BY <1>2, <3>1, CreatedOnce
    <3>3. \A i \in Instruments :
            registered'[e][i] = IF i = ins[u] THEN 1 ELSE registered[e][i]
      BY <1>0, <1>2, <3>1, <3>2 DEF TypeOK
    <3>4. \A i \in Instruments :
            (\E v \in Users : Storing(v, e, i)')
               <=> i = ins[u] \/ (\E v \in Users : Storing(v, e, i))
      BY <1>0, <1>2, <3>1 DEF Storing
    <3> QED BY <1>0, <3>1, <3>3, <3>4 DEF Accounted
  <2>3. CASE Store(u)
    <3>1. /\ pc[u] = "store" /\ pc'[u] = "have" /\ registered' = registered
          /\ stored'[e] = stored[e] \cup {ins[u]}
      BY <1>0, <1>2, <2>3 DEF Store, Goto, TypeOK
    <3>2. ASSUME NEW v \in Users, pc[v] = "store", reg[v] = e PROVE v = u
      BY <1>2, <3>1, <3>2, HolderAlone DEF Holding
    <3>3. \A v \in Users, i \in Instruments :
            /\ ~(Storing(v, e, i)')
            /\ Storing(v, e, i) => i = ins[u]
      BY <1>0, <3>1, <3>2 DEF Storing
    <3>4. \E v \in Users : Storing(v, e, ins[u])
      BY <1>2, <3>1 DEF Storing
    <3>5. \A i \in Instruments :
            registered'[e][i] = IF i \in stored'[e] \/ (\E v \in Users : Storing(v, e, i)')
                                  THEN 1 ELSE 0
      BY <1>0, <3>1, <3>3, <3>4 DEF Accounted
    <3>6. IsFiniteSet(stored'[e]) /\ Cardinality(stored'[e]) <= MaxInstruments
      <4>1. ins[u] \notin stored[e] /\ Cardinality(stored[e]) < MaxInstruments
        BY <1>2, <3>1 DEF IInv, Room, Found
      <4>2. IsFiniteSet(stored[e]) /\ Cardinality(stored[e]) \in Nat
        BY <1>0, FS_CardinalityType DEF Accounted
      <4>3. /\ IsFiniteSet(stored[e] \cup {ins[u]})
            /\ Cardinality(stored[e] \cup {ins[u]}) = Cardinality(stored[e]) + 1
        BY <4>1, <4>2, FS_AddElement
      <4> QED BY <3>1, <4>1, <4>2, <4>3, MaxAssumption
    <3> QED BY <3>5, <3>6 DEF Accounted
  <2>4. CASE Acquire(u)
    BY <1>0, <2>1, <2>4 DEF Acquire, Goto, TypeOK
  <2>5. CASE Recheck(u)
    BY <1>0, <2>1, <2>5, RecheckCases DEF TypeOK
  <2>6. CASE Create(u) /\ pc' = [pc EXCEPT ![u] = "error"] /\ registered' = registered
    BY <1>0, <2>1, <2>6, CreateCases DEF TypeOK
  <2>7. CASE Create(u)
    BY <2>2, <2>6, <2>7, CreateCases
  <2> QED BY <2>3, <2>4, <2>5, <2>7 DEF Inside
<1> QED BY <1>1, <1>2

-----------------------------------------------------------------------------
(* The invariant holds at the start.                                           *)
LEMMA IInvInit == Init => IInv
<1> SUFFICES ASSUME Init PROVE IInv
  OBVIOUS
<1>1. TypeOK
  BY MaxAssumption, InstrumentAssumption DEF Init, TypeOK, Epochs
<1>2. ASSUME NEW u \in Users PROVE Locked(u) /\ Room(u) /\ InTime(u)
  BY DEF Init, Locked, Room, InTime, Holding, Recording
<1>3. ASSUME NEW e \in Epochs PROVE Accounted(e)
  <2>1. IsFiniteSet({}) /\ Cardinality({}) = 0
    BY FS_EmptySet
  <2> QED BY <2>1, MaxAssumption DEF Init, Accounted, Storing
<1>4. RecordsWhereBegun
  BY DEF Init, RecordsWhereBegun
<1> QED BY <1>1, <1>2, <1>3, <1>4 DEF IInv

(* Every step keeps it: a restart only makes the epochs that were earlier.     *)
LEMMA IInvStep == IInv /\ [Next]_vars => IInv'
<1> SUFFICES ASSUME IInv, [Next]_vars PROVE IInv'
  OBVIOUS
<1>1. CASE UNCHANGED vars
  BY <1>1 DEF IInv, vars, registries, users, TypeOK, Locked, Room, Found, InTime,
              Accounted, Storing, RecordsWhereBegun
<1>2. CASE Restart
  <2>1. /\ epoch' = epoch + 1 /\ epoch < MaxEpoch
        /\ UNCHANGED <<stored, registered, lock, pc, reg, ins, began, armed, hits>>
    BY <1>2 DEF Restart, registries, users
  <2>2. TypeOK'
    BY <2>1, MaxAssumption DEF IInv, TypeOK, Epochs
  <2>3. ASSUME NEW u \in Users PROVE Locked(u)' /\ Room(u)' /\ InTime(u)'
    <3>1. epoch \in Nat /\ reg[u] \in Nat /\ began[u] \in Nat
      BY DEF IInv, TypeOK, Epochs
    <3> QED BY <2>1, <3>1 DEF IInv, Locked, Room, Found, InTime
  <2>4. ASSUME NEW e \in Epochs PROVE Accounted(e)'
    BY <2>1 DEF IInv, Accounted, Storing
  <2>5. RecordsWhereBegun'
    BY <2>1 DEF IInv, RecordsWhereBegun
  <2> QED BY <2>2, <2>3, <2>4, <2>5 DEF IInv
<1>3. ASSUME NEW u \in Users, Outside(u) PROVE IInv'
  <2>1. TypeOK'
    BY <1>3, OutsideTypes DEF IInv
  <2> QED BY <1>3, <2>1, OutsideRegistries, OutsideTimes DEF IInv
<1>4. ASSUME NEW u \in Users, Inside(u) PROVE IInv'
  <2>1. TypeOK'
    BY <1>4, InsideTypes
  <2>2. \A v \in Users : Locked(v)' /\ Room(v)' /\ InTime(v)'
    BY <1>4, InsideLocked, InsideRoom, InsideTimes
  <2>3. \A e \in Epochs : Accounted(e)'
    BY <1>4, InsideAccounted
  <2>4. RecordsWhereBegun'
    BY <1>4, InsideTimes
  <2> QED BY <2>1, <2>2, <2>3, <2>4 DEF IInv
<1> QED
  BY <1>1, <1>2, <1>3, <1>4 DEF Next, GetStep, Outside, Inside

(* The types of the registries and their users hold, and with them that the    *)
(* meter is asked at most once for an instrument (getOrCreate).                *)
THEOREM TypeCorrect == Spec => []TypeOK
<1>1. IInv => TypeOK
  BY DEF IInv
<1> QED BY <1>1, IInvInit, IInvStep, PTL DEF Spec

(* No registry and no meter holds more than MaxInstruments, whoever races to   *)
(* create them (getOrCreate, instruments.go:87-126).                           *)
THEOREM BoundKept == Spec => []InstrumentsBounded
<1>1. IInv => InstrumentsBounded
  <2> SUFFICES ASSUME IInv, NEW e \in Epochs
               PROVE  Cardinality({i \in Instruments : registered[e][i] > 0})
                        <= MaxInstruments
    BY DEF InstrumentsBounded
  <2> DEFINE R == {i \in Instruments : registered[e][i] > 0}
  <2>0. Accounted(e) /\ stored[e] \subseteq Instruments
    BY DEF IInv, TypeOK
  <2>1. \A i \in Instruments : i \in R <=>
           i \in stored[e] \/ \E u \in Users : Storing(u, e, i)
    BY <2>0 DEF Accounted
  <2> HIDE DEF R
  <2>2. CASE \E u \in Users : pc[u] = "store" /\ reg[u] = e
    <3>1. PICK u \in Users : pc[u] = "store" /\ reg[u] = e
      BY <2>2
    <3>2. \A v \in Users : pc[v] = "store" /\ reg[v] = e => v = u
      BY <3>1, HolderAlone DEF Holding
    <3>3. \A i \in Instruments : (\E v \in Users : Storing(v, e, i)) <=> i = ins[u]
      BY <3>1, <3>2 DEF Storing
    <3>4. ins[u] \in Instruments /\ R \subseteq Instruments
      BY DEF IInv, TypeOK, R
    <3>5. R = stored[e] \cup {ins[u]}
      BY <2>0, <2>1, <3>3, <3>4
    <3>6. ins[u] \notin stored[e] /\ Cardinality(stored[e]) < MaxInstruments
      BY <3>1 DEF IInv, Room, Found
    <3>7. IsFiniteSet(stored[e]) /\ Cardinality(stored[e]) \in Nat
      BY <2>0, FS_CardinalityType DEF Accounted
    <3>8. Cardinality(stored[e] \cup {ins[u]}) = Cardinality(stored[e]) + 1
      BY <3>6, <3>7, FS_AddElement
    <3>9. Cardinality(R) <= MaxInstruments
      BY <3>5, <3>6, <3>7, <3>8, MaxAssumption
    <3> QED BY <3>9 DEF R
  <2>3. CASE ~\E u \in Users : pc[u] = "store" /\ reg[u] = e
    <3>1. R \subseteq Instruments
      BY DEF R
    <3>2. R = stored[e]
      BY <2>0, <2>1, <2>3, <3>1 DEF Storing
    <3>3. Cardinality(R) <= MaxInstruments
      BY <2>0, <3>2 DEF Accounted
    <3> QED BY <3>3 DEF R
  <2> QED BY <2>2, <2>3
<1> QED BY <1>1, IInvInit, IInvStep, PTL DEF Spec

(* The meter never made an instrument that is lost (getOrCreate).              *)
THEOREM NoneOrphaned == Spec => []NoOrphanInstrument
<1>1. IInv => NoOrphanInstrument
  <2> SUFFICES ASSUME IInv, NEW e \in Epochs, NEW i \in Instruments
               PROVE  /\ registered[e][i] <= 1
                      /\ registered[e][i] = 1 =>
                           i \in stored[e] \/ \E u \in Users : Storing(u, e, i)
    BY DEF NoOrphanInstrument, Storing
  <2> QED BY DEF IInv, Accounted
<1> QED BY <1>1, IInvInit, IInvStep, PTL DEF Spec

(* A record reaches only the meter of the epoch it began in, whatever Start or *)
(* Shutdown does between its steps (instrumentLive, instruments.go:201-256).   *)
THEOREM RecordsStay == Spec => []RecordsWhereBegun
<1>1. IInv => RecordsWhereBegun
  BY DEF IInv
<1> QED BY <1>1, IInvInit, IInvStep, PTL DEF Spec
=============================================================================
