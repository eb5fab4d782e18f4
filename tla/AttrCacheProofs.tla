--------------------------- MODULE AttrCacheProofs ---------------------------
(* The interning cache for any number of lookups, readers, keys and shards:    *)
(* its size, what it answers, what its detector counts and warns of, and that  *)
(* it answers as Interner promises.                                            *)
EXTENDS AttrCache, FiniteSetTheorems, SequenceTheorems, TLAPS

Holding == {"check", "load", "cas", "miss", "insert", "missFull", "overflow"}
Overflowing(l) == pc[l] \in {"missFull", "overflow"} \/ answer[l] = "overflow"

(* The shard lock of a key excludes its other lookups ...                      *)
Locked(l) == pc[l] \in Holding => lock[Shard(l)] = l

(* ... so the key that was missing under it is missing until it is inserted,   *)
(* and a slot is only taken where the size it was seen free at is current.     *)
Missing(l) == /\ pc[l] \in Holding \ {"check"} => key[l] \notin cached
              /\ pc[l] = "cas" => seen[l] < MaxEntries

(* A cache that was full stays full, and no lookup is inserting a key that was *)
(* refused for it.                                                             *)
Refused(l) == Overflowing(l) => /\ size = MaxEntries /\ key[l] \notin cached
                                /\ \A m \in Reserved : key[m] # key[l]

(* A lookup is answered when it ends, and got as far as its key is allowed.    *)
Sorted(l) == /\ pc[l] # "done" => answer[l] = "none"
             /\ pc[l] \in {"denied", "observeDenied"} => ~Allowed(key[l])
             /\ pc[l] \in Holding \cup {"read", "lock"} => Allowed(key[l])

LookupInv(l) == Locked(l) /\ Missing(l) /\ Refused(l) /\ Sorted(l)

IInv == /\ TypeOK
        /\ \A l \in Lookups : LookupInv(l)
        /\ IsFiniteSet(cached) /\ IsFiniteSet(noted)
        /\ size = Cardinality(cached) + Cardinality(Reserved)
        /\ CountersAgree /\ SnapshotCounted /\ WarningsHold

-----------------------------------------------------------------------------
(* A set of lookups is finite.                                                 *)
LEMMA LookupsCounted ==
  ASSUME NEW S \in SUBSET Lookups
  PROVE  /\ IsFiniteSet(S) /\ Cardinality(S) \in Nat
         /\ \A l \in S : Cardinality(S \ {l}) = Cardinality(S) - 1
         /\ \A l \in Lookups \ S : Cardinality(S \cup {l}) = Cardinality(S) + 1
<1>1. IsFiniteSet(S) /\ Cardinality(S) \in Nat
  BY LookupsAssumption, FS_Subset, FS_CardinalityType
<1>2. \A l \in S : Cardinality(S \ {l}) = Cardinality(S) - 1
  BY <1>1, FS_RemoveElement
<1>3. \A l \in Lookups \ S : Cardinality(S \cup {l}) = Cardinality(S) + 1
  BY <1>1, FS_AddElement
<1> QED BY <1>1, <1>2, <1>3

(* The number of a set after one lookup joined or left it.                     *)
LEMMA OneMoreOrLess ==
  ASSUME NEW S \in SUBSET Lookups, NEW T \in SUBSET Lookups, NEW l \in Lookups,
         S \ {l} = T \ {l}
  PROVE  Cardinality(T) = Cardinality(S) + (IF l \in T THEN 1 ELSE 0)
                                         - (IF l \in S THEN 1 ELSE 0)
<1>0. Cardinality(S) \in Nat
  BY LookupsCounted
<1>1. CASE l \in S /\ l \in T
  <2>1. S = T
    BY <1>1
  <2> QED BY <1>0, <1>1, <2>1
<1>2. CASE l \in S /\ l \notin T
  <2>1. T = S \ {l}
    BY <1>2
  <2>2. Cardinality(T) = Cardinality(S) - 1
    BY <1>2, <2>1, LookupsCounted
  <2> QED BY <1>0, <1>2, <2>2
<1>3. CASE l \notin S /\ l \in T
  <2>1. T = S \cup {l}
    BY <1>3
  <2>2. Cardinality(T) = Cardinality(S) + 1
    BY <1>3, <2>1, LookupsCounted
  <2> QED BY <1>0, <1>3, <2>2
<1>4. CASE l \notin S /\ l \notin T
  <2>1. S = T
    BY <1>4
  <2> QED BY <1>0, <1>4, <2>1
<1> QED BY <1>1, <1>2, <1>3, <1>4

-----------------------------------------------------------------------------
(* A step of a lookup: where it was, where it goes and what it answers then.   *)
Moves(l, from, to, a) ==
  /\ pc[l] = from /\ pc' = [pc EXCEPT ![l] = to]
  /\ answer[l] = "none" /\ answer' = [answer EXCEPT ![l] = a]

(* What it does to the numbers of lookups at the points that matter.           *)
LEMMA MoveCounts ==
  ASSUME TypeOK, NEW l \in Lookups, NEW from, NEW to, NEW a, Moves(l, from, to, a)
  PROVE  /\ Cardinality(Reserved') = Cardinality(Reserved)
              + (IF to \in {"miss", "insert"} THEN 1 ELSE 0)
              - (IF from \in {"miss", "insert"} THEN 1 ELSE 0)
         /\ Cardinality(InFlight({"insert", "overflow"})') =
              Cardinality(InFlight({"insert", "overflow"}))
              + (IF to \in {"insert", "overflow"} THEN 1 ELSE 0)
              - (IF from \in {"insert", "overflow"} THEN 1 ELSE 0)
         /\ Cardinality(InFlight({"observeDenied"})') =
              Cardinality(InFlight({"observeDenied"}))
              + (IF to = "observeDenied" THEN 1 ELSE 0)
              - (IF from = "observeDenied" THEN 1 ELSE 0)
         /\ Cardinality(Answered("overflow")') = Cardinality(Answered("overflow"))
              + (IF a = "overflow" THEN 1 ELSE 0)
<1>1. /\ pc[l] = from /\ pc'[l] = to /\ answer[l] = "none" /\ answer'[l] = a
      /\ \A m \in Lookups \ {l} : pc'[m] = pc[m] /\ answer'[m] = answer[m]
  BY DEF Moves, TypeOK
<1>2. Cardinality(Reserved') = Cardinality(Reserved)
        + (IF to \in {"miss", "insert"} THEN 1 ELSE 0)
        - (IF from \in {"miss", "insert"} THEN 1 ELSE 0)
  <2>1. /\ Reserved \in SUBSET Lookups /\ Reserved' \in SUBSET Lookups
        /\ Reserved \ {l} = Reserved' \ {l}
        /\ l \in Reserved <=> from \in {"miss", "insert"}
        /\ l \in Reserved' <=> to \in {"miss", "insert"}
    BY <1>1 DEF Reserved
  <2> QED BY <2>1, OneMoreOrLess
<1>3. Cardinality(InFlight({"insert", "overflow"})') =
        Cardinality(InFlight({"insert", "overflow"}))
        + (IF to \in {"insert", "overflow"} THEN 1 ELSE 0)
        - (IF from \in {"insert", "overflow"} THEN 1 ELSE 0)
  <2> DEFINE S == InFlight({"insert", "overflow"})
  <2>1. /\ S \in SUBSET Lookups /\ S' \in SUBSET Lookups
        /\ S \ {l} = S' \ {l}
        /\ l \in S <=> from \in {"insert", "overflow"}
        /\ l \in S' <=> to \in {"insert", "overflow"}
    BY <1>1 DEF InFlight
  <2> QED BY <2>1, OneMoreOrLess
<1>4. Cardinality(InFlight({"observeDenied"})') =
        Cardinality(InFlight({"observeDenied"}))
        + (IF to = "observeDenied" THEN 1 ELSE 0)
        - (IF from = "observeDenied" THEN 1 ELSE 0)
  <2> DEFINE S == InFlight({"observeDenied"})
  <2>1. /\ S \in SUBSET Lookups /\ S' \in SUBSET Lookups
        /\ S \ {l} = S' \ {l}
        /\ l \in S <=> from = "observeDenied"
        /\ l \in S' <=> to = "observeDenied"
    BY <1>1 DEF InFlight
  <2> QED BY <2>1, OneMoreOrLess
<1>5. Cardinality(Answered("overflow")') = Cardinality(Answered("overflow"))
        + (IF a = "overflow" THEN 1 ELSE 0)
  <2> DEFINE S == Answered("overflow")
  <2>1. /\ S \in SUBSET Lookups /\ S' \in SUBSET Lookups
        /\ S \ {l} = S' \ {l}
        /\ l \notin S
        /\ l \in S' <=> a = "overflow"
    BY <1>1 DEF Answered
  <2>2. Cardinality(S) \in Nat
    BY <2>1, LookupsCounted
  <2> QED BY <2>1, <2>2, OneMoreOrLess
<1> QED BY <1>2, <1>3, <1>4, <1>5

(* What it leaves true of the other lookups.                                   *)
LEMMA OthersKeep ==
  ASSUME IInv, NEW l \in Lookups, NEW from, NEW to, NEW a, Moves(l, from, to, a),
         UNCHANGED <<key, deny, allowed>>,
         \A m \in Lookups \ {l} : seen'[m] = seen[m],
         \A m \in Lookups \ {l} : lock[Shard(m)] = m => lock'[Shard(m)] = m,
         \A m \in Lookups \ {l} : LookupInv(m) /\ key[m] \notin cached
                                  /\ (pc[m] \in Holding \/ Overflowing(m))
                                     => key[m] \notin cached',
         size' \in 0..MaxEntries, size' >= size,
         to \in {"miss", "insert"} => from \in {"miss", "insert"} \/ size < MaxEntries,
         NEW m \in Lookups, m # l
  PROVE  LookupInv(m)'
<1>1. /\ pc[l] = from /\ pc'[l] = to
      /\ pc'[m] = pc[m] /\ answer'[m] = answer[m]
      /\ \A n \in Lookups \ {l} : pc'[n] = pc[n]
  BY DEF IInv, Moves, TypeOK
<1>2. LookupInv(m) /\ MaxEntries \in Nat /\ size \in 0..MaxEntries
  BY MaxAssumption DEF IInv, TypeOK
<1>3. Locked(m)'
  BY <1>1, <1>2 DEF LookupInv, Locked, Shard
<1>4. Missing(m)'
  BY <1>1, <1>2 DEF LookupInv, Missing, Holding
<1>5. Refused(m)'
  <2> SUFFICES ASSUME Overflowing(m)'
               PROVE  /\ size' = MaxEntries /\ key[m] \notin cached'
                      /\ \A n \in Reserved' : key[n] # key[m]
    BY DEF Refused
  <2>1. Overflowing(m)
    BY <1>1 DEF Overflowing
  <2>2. /\ size = MaxEntries /\ key[m] \notin cached
        /\ \A n \in Reserved : key[n] # key[m]
    BY <1>2, <2>1 DEF LookupInv, Refused
  <2>3. Reserved' \subseteq Reserved
    BY <1>1, <1>2, <2>2 DEF Reserved
  <2> QED BY <1>2, <2>1, <2>2, <2>3
<1>6. Sorted(m)'
  <2>1. Allowed(key[m])' <=> Allowed(key[m])
    BY DEF Allowed
  <2> QED BY <1>1, <1>2, <2>1 DEF LookupInv, Sorted
<1> QED BY <1>3, <1>4, <1>5, <1>6 DEF LookupInv

-----------------------------------------------------------------------------
(* What no lookup changes.                                                     *)
Untouched == UNCHANGED <<key, deny, allowed, counting, warnPct, logged, view>>

(* The steps that take no lock, no slot and no entry.                          *)
LEMMA BeginEffect ==
  ASSUME IInv, NEW l \in Lookups, Begin(l)
  PROVE  /\ Moves(l, "idle", IF Allowed(key[l]) THEN "read" ELSE "denied", "none")
         /\ Untouched /\ UNCHANGED <<cached, size, lock, noted, counters, seen>>
<1>1. answer \in [Lookups -> {"none", "denied", "entry", "overflow"}] /\ Sorted(l)
  BY DEF IInv, TypeOK, LookupInv
<1> QED BY <1>1 DEF Begin, Goto, Moves, Untouched, config, detector, Sorted

(* NoteDenied: the first time a subject is refused it is observed too.         *)
LEMMA NoteDeniedEffect ==
  ASSUME IInv, NEW l \in Lookups, NoteDenied(l)
  PROVE  /\ \/ /\ Show[key[l]] \in noted /\ Moves(l, "denied", "done", "denied")
            \/ /\ Show[key[l]] \notin noted /\ Moves(l, "denied", "observeDenied", "none")
         /\ noted' = noted \cup {Show[key[l]]}
         /\ Untouched /\ UNCHANGED <<cached, size, lock, counters, seen>>
<1>1. answer \in [Lookups -> {"none", "denied", "entry", "overflow"}] /\ Sorted(l)
  BY DEF IInv, TypeOK, LookupInv
<1> QED BY <1>1 DEF NoteDenied, Return, Goto, Moves, Untouched, config, detector, Sorted

(* The detector hears of a refused subject.                                    *)
LEMMA ObserveDeniedEffect ==
  ASSUME IInv, NEW l \in Lookups, ObserveDenied(l)
  PROVE  /\ Moves(l, "observeDenied", "done", "denied")
         /\ counters' = [counters EXCEPT !.denied = IF counting THEN @ + 1 ELSE @]
         /\ Untouched /\ UNCHANGED <<cached, size, lock, noted, seen>>
<1>1. Sorted(l)
  BY DEF IInv, LookupInv
<1> QED BY <1>1 DEF ObserveDenied, Return, Goto, Bump, Moves, Untouched, config, Sorted

(* The read without the lock finds the entry or goes on to the lock.           *)
LEMMA FastReadEffect ==
  ASSUME IInv, NEW l \in Lookups, FastRead(l)
  PROVE  /\ \/ key[l] \in cached /\ Moves(l, "read", "done", "entry")
            \/ Moves(l, "read", "lock", "none")
         /\ Untouched /\ UNCHANGED <<cached, size, lock, noted, counters, seen>>
<1>1. answer \in [Lookups -> {"none", "denied", "entry", "overflow"}] /\ Sorted(l)
  BY DEF IInv, TypeOK, LookupInv
<1> QED BY <1>1 DEF FastRead, Return, Goto, Moves, Untouched, config, detector, Sorted

(* The size, read under the lock.                                              *)
LEMMA LoadSizeEffect ==
  ASSUME IInv, NEW l \in Lookups, LoadSize(l)
  PROVE  /\ Moves(l, "load", IF size >= MaxEntries THEN "missFull" ELSE "cas", "none")
         /\ seen' = [seen EXCEPT ![l] = size]
         /\ Untouched /\ UNCHANGED <<cached, size, lock, noted, counters>>
<1>1. answer \in [Lookups -> {"none", "denied", "entry", "overflow"}] /\ Sorted(l)
  BY DEF IInv, TypeOK, LookupInv
<1> QED BY <1>1 DEF LoadSize, Goto, Moves, Untouched, config, detector, Sorted

(* The detector hears of a miss.                                               *)
LEMMA ObserveMissEffect ==
  ASSUME IInv, NEW l \in Lookups, ObserveMiss(l)
  PROVE  /\ Moves(l, "miss", "insert", "none") \/ Moves(l, "missFull", "overflow", "none")
         /\ counters' = [counters EXCEPT !.records = IF counting THEN @ + 1 ELSE @]
         /\ Untouched /\ UNCHANGED <<cached, size, lock, noted, seen>>
<1>1. answer \in [Lookups -> {"none", "denied", "entry", "overflow"}] /\ Sorted(l)
  BY DEF IInv, TypeOK, LookupInv
<1> QED BY <1>1 DEF ObserveMiss, Goto, Bump, Moves, Untouched, config, Sorted

(* Those that do.                                                              *)
LEMMA AcquireEffect ==
  ASSUME IInv, NEW l \in Lookups, Acquire(l)
  PROVE  /\ Moves(l, "lock", "check", "none")
         /\ lock[Shard(l)] = Nobody /\ lock' = [lock EXCEPT ![Shard(l)] = l]
         /\ Untouched /\ UNCHANGED <<cached, size, noted, counters, seen>>
<1>1. answer \in [Lookups -> {"none", "denied", "entry", "overflow"}] /\ Sorted(l)
  BY DEF IInv, TypeOK, LookupInv
<1> QED BY <1>1 DEF Acquire, Goto, Free, Moves, Untouched, config, detector, Sorted

(* The second read, under the lock, finds the entry or does not.               *)
LEMMA RecheckEffect ==
  ASSUME IInv, NEW l \in Lookups, Recheck(l)
  PROVE  /\ \/ /\ key[l] \in cached /\ Moves(l, "check", "done", "entry")
               /\ lock' = [lock EXCEPT ![Shard(l)] = Nobody]
            \/ /\ key[l] \notin cached /\ Moves(l, "check", "load", "none")
               /\ lock' = lock
         /\ Untouched /\ UNCHANGED <<cached, size, noted, counters, seen>>
<1>1. answer \in [Lookups -> {"none", "denied", "entry", "overflow"}] /\ Sorted(l)
  BY DEF IInv, TypeOK, LookupInv
<1> QED
  BY <1>1 DEF Recheck, Return, Goto, Unlock, Moves, Untouched, config, detector, Sorted

(* The compare-and-swap takes a place, or the lookup loads the size again.     *)
LEMMA ReserveEffect ==
  ASSUME IInv, NEW l \in Lookups, Reserve(l)
  PROVE  /\ \/ /\ size = seen[l] /\ size' = size + 1 /\ Moves(l, "cas", "miss", "none")
            \/ /\ size' = size /\ Moves(l, "cas", "load", "none")
         /\ Untouched /\ UNCHANGED <<cached, lock, noted, counters, seen>>
<1>1. answer \in [Lookups -> {"none", "denied", "entry", "overflow"}] /\ Sorted(l)
  BY DEF IInv, TypeOK, LookupInv
<1> QED BY <1>1 DEF Reserve, Goto, Moves, Untouched, config, detector, Sorted

(* The entry is stored and the shard unlocked.                                 *)
LEMMA InsertEffect ==
  ASSUME IInv, NEW l \in Lookups, Insert(l)
  PROVE  /\ Moves(l, "insert", "done", "entry")
         /\ cached' = cached \cup {key[l]}
         /\ lock' = [lock EXCEPT ![Shard(l)] = Nobody]
         /\ Untouched /\ UNCHANGED <<size, noted, counters, seen>>
<1>1. Sorted(l)
  BY DEF IInv, LookupInv
<1> QED
  BY <1>1 DEF Insert, Return, Goto, Unlock, Moves, Untouched, config, detector, Sorted

(* A full cache answers with the shared entry and unlocks the shard.           *)
LEMMA OverflowEffect ==
  ASSUME IInv, NEW l \in Lookups, Overflow(l)
  PROVE  /\ Moves(l, "overflow", "done", "overflow")
         /\ counters' = [counters EXCEPT !.overflows = IF counting THEN @ + 1 ELSE @]
         /\ lock' = [lock EXCEPT ![Shard(l)] = Nobody]
         /\ Untouched /\ UNCHANGED <<cached, size, noted, seen>>
<1>1. Sorted(l)
  BY DEF IInv, LookupInv
<1> QED
  BY <1>1 DEF Overflow, Return, Goto, Bump, Unlock, Moves, Untouched, config, Sorted

(* All steps of a lookup.                                                      *)
Step(l) == Begin(l) \/ LookupStep(l)

-----------------------------------------------------------------------------
(* A counter that may have been bumped is a counter.                           *)
LEMMA Bumped ==
  ASSUME NEW c \in [records: Nat, overflows: Nat, denied: Nat], NEW b \in BOOLEAN
  PROVE  /\ [c EXCEPT !.records = IF b THEN @ + 1 ELSE @]
              \in [records: Nat, overflows: Nat, denied: Nat]
         /\ [c EXCEPT !.overflows = IF b THEN @ + 1 ELSE @]
              \in [records: Nat, overflows: Nat, denied: Nat]
         /\ [c EXCEPT !.denied = IF b THEN @ + 1 ELSE @]
              \in [records: Nat, overflows: Nat, denied: Nat]
<1>1. CASE b
  BY <1>1
<1>2. CASE ~b
  BY <1>2
<1> QED BY <1>1, <1>2

(* A move within the types.                                                    *)
LEMMA MoveTypes ==
  ASSUME TypeOK, NEW l \in Lookups, NEW from, NEW to \in LookupPC,
         NEW a \in {"none", "denied", "entry", "overflow"}, Moves(l, from, to, a)
  PROVE  /\ pc' \in [Lookups -> LookupPC]
         /\ answer' \in [Lookups -> {"none", "denied", "entry", "overflow"}]
  BY DEF TypeOK, Moves

(* A lock that changes hands goes to a lookup or to nobody.                    *)
LEMMA LockTypes ==
  ASSUME lock \in [1..NShards -> Lookups \cup {Nobody}], NEW l \in Lookups,
         \/ lock' = lock \/ lock' = [lock EXCEPT ![Shard(l)] = l]
         \/ lock' = [lock EXCEPT ![Shard(l)] = Nobody]
  PROVE  lock' \in [1..NShards -> Lookups \cup {Nobody}]
OBVIOUS

(* The types are kept: no compare-and-swap takes the size past its limit.      *)
LEMMA StepTypes ==
  ASSUME IInv, NEW l \in Lookups, Step(l)
  PROVE  TypeOK'
<1>0. TypeOK /\ key[l] \in Keys /\ Missing(l)
  BY DEF IInv, TypeOK, LookupInv
<1> DEFINE Others == /\ cached' \subseteq Keys /\ size' \in 0..MaxEntries
                     /\ lock' \in [1..NShards -> Lookups \cup {Nobody}]
                     /\ noted' \subseteq {Show[k] : k \in Keys}
                     /\ counters' \in [records: Nat, overflows: Nat, denied: Nat]
                     /\ seen' \in [Lookups -> 0..MaxEntries]
           Moved == /\ pc' \in [Lookups -> LookupPC]
                    /\ answer' \in [Lookups -> {"none", "denied", "entry", "overflow"}]
<1>1. Moved /\ Others /\ Untouched => TypeOK'
  BY <1>0 DEF TypeOK, Untouched
<1>k. /\ cached' = cached => cached' \subseteq Keys
      /\ size' = size => size' \in 0..MaxEntries
      /\ lock' = lock => lock' \in [1..NShards -> Lookups \cup {Nobody}]
      /\ noted' = noted => noted' \subseteq {Show[k] : k \in Keys}
      /\ counters' = counters => counters' \in [records: Nat, overflows: Nat, denied: Nat]
      /\ seen' = seen => seen' \in [Lookups -> 0..MaxEntries]
  BY <1>0 DEF TypeOK
<1>2. CASE Begin(l)
  <2>1. Moved
    BY <1>0, <1>2, BeginEffect, MoveTypes DEF LookupPC
  <2>2. Others /\ Untouched
    BY <1>2, <1>k, BeginEffect
  <2> QED BY <1>1, <2>1, <2>2
<1>3. CASE NoteDenied(l)
  <2>1. Moved
    BY <1>0, <1>3, NoteDeniedEffect, MoveTypes DEF LookupPC
  <2>2. noted' \subseteq {Show[k] : k \in Keys}
    BY <1>0, <1>3, NoteDeniedEffect DEF TypeOK
  <2>3. Others /\ Untouched
    BY <1>3, <1>k, <2>2, NoteDeniedEffect
  <2> QED BY <1>1, <2>1, <2>3
<1>4. CASE ObserveDenied(l)
  <2>1. Moved
    BY <1>0, <1>4, ObserveDeniedEffect, MoveTypes DEF LookupPC
  <2>2. counters' \in [records: Nat, overflows: Nat, denied: Nat]
    BY <1>0, <1>4, ObserveDeniedEffect, Bumped DEF TypeOK
  <2>3. Others /\ Untouched
    BY <1>4, <1>k, <2>2, ObserveDeniedEffect
  <2> QED BY <1>1, <2>1, <2>3
<1>5. CASE FastRead(l)
  <2>1. Moved
    BY <1>0, <1>5, FastReadEffect, MoveTypes DEF LookupPC
  <2>2. Others /\ Untouched
    BY <1>5, <1>k, FastReadEffect
  <2> QED BY <1>1, <2>1, <2>2
<1>6. CASE LoadSize(l)
  <2>1. Moved
    BY <1>0, <1>6, LoadSizeEffect, MoveTypes DEF LookupPC
  <2>2. seen' \in [Lookups -> 0..MaxEntries]
    BY <1>0, <1>6, LoadSizeEffect DEF TypeOK
  <2>3. Others /\ Untouched
    BY <1>6, <1>k, <2>2, LoadSizeEffect
  <2> QED BY <1>1, <2>1, <2>3
<1>7. CASE ObserveMiss(l)
  <2>1. Moved
    BY <1>0, <1>7, ObserveMissEffect, MoveTypes DEF LookupPC
  <2>2. counters' \in [records: Nat, overflows: Nat, denied: Nat]
    BY <1>0, <1>7, ObserveMissEffect, Bumped DEF TypeOK
  <2>3. Others /\ Untouched
    BY <1>7, <1>k, <2>2, ObserveMissEffect
  <2> QED BY <1>1, <2>1, <2>3
<1>8. CASE Acquire(l)
  <2>1. Moved
    BY <1>0, <1>8, AcquireEffect, MoveTypes DEF LookupPC
  <2>l. \/ lock' = lock \/ lock' = [lock EXCEPT ![Shard(l)] = l]
        \/ lock' = [lock EXCEPT ![Shard(l)] = Nobody]
    BY <1>8, AcquireEffect
  <2>2. lock' \in [1..NShards -> Lookups \cup {Nobody}]
    BY <1>0, <2>l, LockTypes DEF TypeOK
  <2>3. Others /\ Untouched
    BY <1>8, <1>k, <2>2, AcquireEffect
  <2> QED BY <1>1, <2>1, <2>3
<1>9. CASE Recheck(l)
  <2>1. Moved
    BY <1>0, <1>9, RecheckEffect, MoveTypes DEF LookupPC
  <2>l. \/ lock' = lock \/ lock' = [lock EXCEPT ![Shard(l)] = l]
        \/ lock' = [lock EXCEPT ![Shard(l)] = Nobody]
    BY <1>9, RecheckEffect
  <2>2. lock' \in [1..NShards -> Lookups \cup {Nobody}]
    BY <1>0, <2>l, LockTypes DEF TypeOK
  <2>3. Others /\ Untouched
    BY <1>9, <1>k, <2>2, RecheckEffect
  <2> QED BY <1>1, <2>1, <2>3
<1>10. CASE Reserve(l)
  <2>1. Moved
    BY <1>0, <1>10, ReserveEffect, MoveTypes DEF LookupPC
  <2>2. size' \in 0..MaxEntries
    BY <1>0, <1>10, ReserveEffect, MaxAssumption DEF TypeOK, Missing, Moves
  <2>3. Others /\ Untouched
    BY <1>10, <1>k, <2>2, ReserveEffect
  <2> QED BY <1>1, <2>1, <2>3
<1>11. CASE Insert(l)
  <2>1. Moved
    BY <1>0, <1>11, InsertEffect, MoveTypes DEF LookupPC
  <2>l. \/ lock' = lock \/ lock' = [lock EXCEPT ![Shard(l)] = l]
        \/ lock' = [lock EXCEPT ![Shard(l)] = Nobody]
    BY <1>11, InsertEffect
  <2>2. lock' \in [1..NShards -> Lookups \cup {Nobody}]
    BY <1>0, <2>l, LockTypes DEF TypeOK
  <2>3. cached' \subseteq Keys
    BY <1>0, <1>11, InsertEffect DEF TypeOK
  <2>4. Others /\ Untouched
    BY <1>11, <1>k, <2>2, <2>3, InsertEffect
  <2> QED BY <1>1, <2>1, <2>4
<1>12. CASE Overflow(l)
  <2>1. Moved
    BY <1>0, <1>12, OverflowEffect, MoveTypes DEF LookupPC
  <2>l. \/ lock' = lock \/ lock' = [lock EXCEPT ![Shard(l)] = l]
        \/ lock' = [lock EXCEPT ![Shard(l)] = Nobody]
    BY <1>12, OverflowEffect
  <2>2. lock' \in [1..NShards -> Lookups \cup {Nobody}]
    BY <1>0, <2>l, LockTypes DEF TypeOK
  <2>3. counters' \in [records: Nat, overflows: Nat, denied: Nat]
    BY <1>0, <1>12, OverflowEffect, Bumped DEF TypeOK
  <2>4. Others /\ Untouched
    BY <1>12, <1>k, <2>2, <2>3, OverflowEffect
  <2> QED BY <1>1, <2>1, <2>4
<1> HIDE DEF Others, Moved
<1> QED
  BY <1>2, <1>3, <1>4, <1>5, <1>6, <1>7, <1>8, <1>9, <1>10, <1>11, <1>12
     DEF Step, LookupStep

-----------------------------------------------------------------------------
(* Two lookups that hold the lock of the same shard are one, so a key is in    *)
(* the hands of one lookup at a time.                                          *)
LEMMA HolderAlone ==
  ASSUME IInv, NEW l \in Lookups, NEW m \in Lookups,
         pc[l] \in Holding, pc[m] \in Holding, Shard(l) = Shard(m)
  PROVE  l = m
  BY DEF IInv, LookupInv, Locked

(* The lock is given back by its holder only.                                  *)
LEMMA OthersLocks ==
  ASSUME IInv, NEW l \in Lookups, NEW m \in Lookups, m # l, lock[Shard(m)] = m,
         \/ lock' = lock
         \/ lock[Shard(l)] \in {l, Nobody} /\ \E x : lock' = [lock EXCEPT ![Shard(l)] = x]
  PROVE  lock'[Shard(m)] = m
<1>1. Shard(m) \in 1..NShards /\ Shard(l) \in 1..NShards
  BY ShardAssumption DEF IInv, TypeOK, Shard
<1> QED BY <1>1, NobodyAssumption DEF IInv, TypeOK

(* Where a move takes a lookup.                                                *)
LEMMA MovedTo ==
  ASSUME TypeOK, NEW l \in Lookups, NEW from, NEW to, NEW a, Moves(l, from, to, a)
  PROVE  /\ pc[l] = from /\ pc'[l] = to /\ answer'[l] = a
         /\ from \notin {"miss", "insert"} /\ to \notin {"miss", "insert"}
              => Reserved' = Reserved
<1>1. /\ pc[l] = from /\ pc'[l] = to /\ answer'[l] = a
      /\ \A m \in Lookups \ {l} : pc'[m] = pc[m]
  BY DEF TypeOK, Moves
<1> QED BY <1>1 DEF Reserved

(* A step that takes no lock, no slot and no entry is the lookup's own affair. *)
LEMMA QuietStep ==
  ASSUME IInv, NEW l \in Lookups, NEW from, NEW to, NEW a, Moves(l, from, to, a),
         Untouched, UNCHANGED <<cached, size, lock>>,
         \A m \in Lookups \ {l} : seen'[m] = seen[m],
         to \in {"miss", "insert"} => from \in {"miss", "insert"},
         LookupInv(l)'
  PROVE  \A m \in Lookups : LookupInv(m)'
<1>1. size' \in 0..MaxEntries /\ size' >= size
  BY MaxAssumption DEF IInv, TypeOK
<1>2. ASSUME NEW m \in Lookups, m # l PROVE LookupInv(m)'
  BY <1>1, <1>2, OthersKeep DEF Untouched
<1> QED BY <1>2

(* Begin, noteDenied, the first look: neither a lock nor a slot in sight.      *)
LEMMA FirstSteps ==
  ASSUME IInv, NEW l \in Lookups,
         Begin(l) \/ NoteDenied(l) \/ ObserveDenied(l) \/ FastRead(l)
  PROVE  \A m \in Lookups : LookupInv(m)'
<1>0. TypeOK /\ Sorted(l)
  BY DEF IInv, LookupInv
<1>1. /\ Untouched /\ UNCHANGED <<cached, size, lock, seen>>
      /\ \/ /\ Begin(l)
            /\ Moves(l, "idle", IF Allowed(key[l]) THEN "read" ELSE "denied", "none")
         \/ Moves(l, "denied", "done", "denied")
         \/ Moves(l, "denied", "observeDenied", "none")
         \/ Moves(l, "observeDenied", "done", "denied")
         \/ Moves(l, "read", "done", "entry")
         \/ Moves(l, "read", "lock", "none")
  BY BeginEffect, NoteDeniedEffect, ObserveDeniedEffect, FastReadEffect
<1>2. Allowed(key[l])' <=> Allowed(key[l])
  BY <1>1 DEF Allowed, Untouched
<1>3. ASSUME NEW from, NEW to, NEW a, Moves(l, from, to, a),
             to \notin Holding, a # "overflow",
             to # "done" => a = "none",
             to \in {"denied", "observeDenied"} => ~Allowed(key[l]),
             to \in {"read", "lock"} => Allowed(key[l])
      PROVE  \A m \in Lookups : LookupInv(m)'
  <2>1. pc'[l] = to /\ answer'[l] = a
    BY <1>0, <1>3, MovedTo
  <2>2. LookupInv(l)'
    BY <1>2, <1>3, <2>1 DEF LookupInv, Locked, Missing, Refused, Overflowing, Sorted, Holding
  <2>3. to \notin {"miss", "insert"}
    BY <1>3 DEF Holding
  <2> QED BY <1>1, <1>3, <2>2, <2>3, QuietStep
<1>4. CASE Moves(l, "idle", IF Allowed(key[l]) THEN "read" ELSE "denied", "none")
  <2>1. CASE Allowed(key[l])
    BY <1>3, <1>4, <2>1 DEF Holding
  <2>2. CASE ~Allowed(key[l])
    BY <1>3, <1>4, <2>2 DEF Holding
  <2> QED BY <2>1, <2>2
<1>5. CASE Moves(l, "denied", "done", "denied")
  BY <1>3, <1>5 DEF Holding
<1>6. CASE Moves(l, "denied", "observeDenied", "none")
  <2>1. ~Allowed(key[l])
    BY <1>0, <1>6 DEF Sorted, Moves
  <2> QED BY <1>3, <1>6, <2>1 DEF Holding
<1>7. CASE Moves(l, "observeDenied", "done", "denied")
  BY <1>3, <1>7 DEF Holding
<1>8. CASE Moves(l, "read", "done", "entry")
  BY <1>3, <1>8 DEF Holding
<1>9. CASE Moves(l, "read", "lock", "none")
  <2>1. Allowed(key[l])
    BY <1>0, <1>9 DEF Sorted, Moves
  <2> QED BY <1>3, <1>9, <2>1 DEF Holding
<1> QED BY <1>1, <1>4, <1>5, <1>6, <1>7, <1>8, <1>9

(* reserveSlot's load of the size, and the count of a miss, under the lock.    *)
LEMMA LockedSteps ==
  ASSUME IInv, NEW l \in Lookups, LoadSize(l) \/ ObserveMiss(l)
  PROVE  \A m \in Lookups : LookupInv(m)'
<1>0. /\ TypeOK /\ LookupInv(l) /\ size \in 0..MaxEntries /\ MaxEntries \in Nat
  BY MaxAssumption DEF IInv, TypeOK
<1>1. Untouched /\ UNCHANGED <<cached, size, lock>>
  BY LoadSizeEffect, ObserveMissEffect
<1>2. Allowed(key[l])' <=> Allowed(key[l])
  BY <1>1 DEF Allowed, Untouched
<1>3. ASSUME NEW from \in Holding, NEW to \in Holding \ {"check"}, Moves(l, from, to, "none")
      PROVE  Locked(l)' /\ Sorted(l)' /\ (key[l] \notin cached)'
  <2>0. pc[l] = from /\ pc'[l] = to /\ answer'[l] = "none"
    BY <1>0, <1>3, MovedTo
  <2>1. Locked(l)'
    BY <1>0, <1>1, <2>0 DEF LookupInv, Locked, Shard, Untouched
  <2>2. Sorted(l)'
    BY <1>0, <1>2, <2>0 DEF LookupInv, Sorted, Holding
  <2>3. from # "check" => (key[l] \notin cached)'
    BY <1>0, <1>1, <2>0 DEF LookupInv, Missing, Untouched
  <2>4. from # "check"
    BY <2>0, LoadSizeEffect, ObserveMissEffect DEF Moves
  <2> QED BY <2>1, <2>2, <2>3, <2>4
<1>4. CASE LoadSize(l)
  <2>1. /\ Moves(l, "load", IF size >= MaxEntries THEN "missFull" ELSE "cas", "none")
        /\ seen' = [seen EXCEPT ![l] = size]
    BY <1>4, LoadSizeEffect
  <2>2. /\ pc[l] = "load" /\ pc'[l] = IF size >= MaxEntries THEN "missFull" ELSE "cas"
        /\ answer'[l] = "none" /\ Reserved' = Reserved
    BY <1>0, <2>1, MovedTo
  <2>3. Locked(l)' /\ Sorted(l)' /\ (key[l] \notin cached)'
    BY <1>3, <2>1 DEF Holding
  <2>4. /\ seen'[l] = size /\ \A m \in Lookups \ {l} : seen'[m] = seen[m]
    BY <1>0, <2>1 DEF TypeOK
  <2>5. Missing(l)'
    BY <1>0, <2>2, <2>3, <2>4 DEF Missing
  <2>6. Refused(l)'
    <3>1. ASSUME NEW m \in Reserved, key[m] = key[l] PROVE FALSE
      <4>1. pc[m] \in Holding /\ pc[l] \in Holding /\ m \in Lookups
        BY <2>2, <3>1 DEF Reserved, Holding
      <4>2. Shard(m) = Shard(l)
        BY <3>1 DEF Shard
      <4>3. m = l
        BY <4>1, <4>2, HolderAlone
      <4> QED BY <2>2, <4>3 DEF Reserved
    <3>2. Overflowing(l)' => size = MaxEntries
      BY <1>0, <2>2 DEF Overflowing
    <3> QED BY <1>1, <2>2, <2>3, <3>1, <3>2 DEF Refused, Untouched
  <2> QED
    BY <1>1, <2>1, <2>3, <2>4, <2>5, <2>6, QuietStep DEF LookupInv
<1>5. CASE ObserveMiss(l)
  <2>0. seen' = seen
    BY <1>5, ObserveMissEffect
  <2>1. CASE Moves(l, "miss", "insert", "none")
    <3>1. pc'[l] = "insert" /\ answer'[l] = "none"
      BY <1>0, <2>1, MovedTo
    <3>2. Locked(l)' /\ Sorted(l)' /\ (key[l] \notin cached)'
      BY <1>3, <2>1 DEF Holding
    <3>3. LookupInv(l)'
      BY <3>1, <3>2 DEF LookupInv, Missing, Refused, Overflowing
    <3> QED BY <1>1, <2>0, <2>1, <3>3, QuietStep
  <2>2. CASE Moves(l, "missFull", "overflow", "none")
    <3>1. pc[l] = "missFull" /\ pc'[l] = "overflow" /\ Reserved' = Reserved
      BY <1>0, <2>2, MovedTo
    <3>2. Locked(l)' /\ Sorted(l)' /\ (key[l] \notin cached)'
      BY <1>3, <2>2 DEF Holding
    <3>3. Missing(l)'
      BY <3>1, <3>2 DEF Missing
    <3>4. Refused(l)'
      BY <1>0, <1>1, <3>1 DEF LookupInv, Refused, Overflowing, Untouched
    <3> QED BY <1>1, <2>0, <2>2, <3>2, <3>3, <3>4, QuietStep DEF LookupInv
  <2> QED BY <1>5, <2>1, <2>2, ObserveMissEffect
<1> QED BY <1>4, <1>5

(* A step that takes or gives back the lock, a slot or an entry.               *)
LEMMA LoudStep ==
  ASSUME IInv, NEW l \in Lookups, NEW from, NEW to, NEW a, Moves(l, from, to, a),
         Untouched, seen' = seen,
         \/ lock' = lock
         \/ lock[Shard(l)] \in {l, Nobody} /\ \E x : lock' = [lock EXCEPT ![Shard(l)] = x],
         \/ cached' = cached
         \/ from = "insert" /\ cached' = cached \cup {key[l]},
         size' \in 0..MaxEntries, size' >= size,
         to \in {"miss", "insert"} => from \in {"miss", "insert"} \/ size < MaxEntries,
         LookupInv(l)'
  PROVE  \A m \in Lookups : LookupInv(m)'
<1>1. ASSUME NEW m \in Lookups, m # l, LookupInv(m), key[m] \notin cached,
             pc[m] \in Holding \/ Overflowing(m)
      PROVE  key[m] \notin cached'
  <2> SUFFICES ASSUME from = "insert", key[m] = key[l] PROVE FALSE
    BY <1>1
  <2>1. pc[l] = "insert"
    BY DEF Moves
  <2>2. CASE pc[m] \in Holding
    <3>1. Shard(m) = Shard(l) /\ pc[l] \in Holding
      BY <2>1 DEF Shard, Holding
    <3> QED BY <1>1, <2>2, <3>1, HolderAlone
  <2>3. CASE Overflowing(m)
    <3>1. l \in Reserved
      BY <2>1 DEF Reserved
    <3> QED BY <1>1, <2>3, <3>1 DEF LookupInv, Refused
  <2> QED BY <1>1, <2>2, <2>3
<1>2. ASSUME NEW m \in Lookups, m # l, lock[Shard(m)] = m PROVE lock'[Shard(m)] = m
  BY <1>2, OthersLocks
<1>3. ASSUME NEW m \in Lookups, m # l PROVE LookupInv(m)'
  BY <1>1, <1>2, <1>3, OthersKeep DEF Untouched
<1> QED BY <1>3

(* The lock taken, the second look, the slot, the entry, the overflow.         *)
LEMMA LoudSteps ==
  ASSUME IInv, NEW l \in Lookups,
         Acquire(l) \/ Recheck(l) \/ Reserve(l) \/ Insert(l) \/ Overflow(l)
  PROVE  \A m \in Lookups : LookupInv(m)'
<1>0. /\ TypeOK /\ LookupInv(l) /\ size \in 0..MaxEntries /\ MaxEntries \in Nat
      /\ Shard(l) \in 1..NShards /\ seen[l] \in 0..MaxEntries
  BY MaxAssumption, ShardAssumption DEF IInv, TypeOK, Shard
<1>1. Untouched /\ seen' = seen
  BY AcquireEffect, RecheckEffect, ReserveEffect, InsertEffect, OverflowEffect
<1>2. (Allowed(key[l])' <=> Allowed(key[l])) /\ Shard(l)' = Shard(l)
  BY <1>1 DEF Allowed, Untouched, Shard
<1>3. size' \in 0..MaxEntries /\ size' >= size
  <2>1. CASE Reserve(l)
    BY <1>0, <2>1, ReserveEffect DEF LookupInv, Missing, Moves
  <2>2. CASE ~Reserve(l)
    BY <1>0, <2>2, AcquireEffect, RecheckEffect, InsertEffect, OverflowEffect
  <2> QED BY <2>1, <2>2
<1>4. CASE Acquire(l)
  <2>1. /\ Moves(l, "lock", "check", "none") /\ lock[Shard(l)] = Nobody
        /\ lock' = [lock EXCEPT ![Shard(l)] = l] /\ cached' = cached
    BY <1>4, AcquireEffect
  <2>2. pc[l] = "lock" /\ pc'[l] = "check" /\ answer'[l] = "none"
    BY <1>0, <2>1, MovedTo
  <2>3. lock'[Shard(l)] = l
    BY <1>0, <2>1 DEF TypeOK
  <2>4. LookupInv(l)'
    BY <1>0, <1>2, <2>2, <2>3
       DEF LookupInv, Locked, Missing, Refused, Overflowing, Sorted, Holding
  <2> QED BY <1>1, <1>3, <2>1, <2>4, LoudStep
<1>5. CASE Recheck(l)
  <2>0. cached' = cached
    BY <1>5, RecheckEffect
  <2>1. CASE /\ Moves(l, "check", "done", "entry")
             /\ lock' = [lock EXCEPT ![Shard(l)] = Nobody]
    <3>1. pc[l] = "check" /\ pc'[l] = "done" /\ answer'[l] = "entry"
      BY <1>0, <2>1, MovedTo
    <3>2. lock[Shard(l)] = l
      BY <1>0, <3>1 DEF LookupInv, Locked, Holding
    <3>3. LookupInv(l)'
      BY <3>1 DEF LookupInv, Locked, Missing, Refused, Overflowing, Sorted, Holding
    <3> QED BY <1>1, <1>3, <2>0, <2>1, <3>2, <3>3, LoudStep
  <2>2. CASE key[l] \notin cached /\ Moves(l, "check", "load", "none") /\ lock' = lock
    <3>1. pc[l] = "check" /\ pc'[l] = "load" /\ answer'[l] = "none"
      BY <1>0, <2>2, MovedTo
    <3>2. Locked(l)' /\ Sorted(l)'
      BY <1>0, <1>2, <2>2, <3>1 DEF LookupInv, Locked, Sorted, Holding
    <3>3. Missing(l)' /\ Refused(l)'
      BY <1>1, <2>0, <2>2, <3>1 DEF Missing, Refused, Overflowing, Untouched
    <3> QED BY <1>1, <1>3, <2>0, <2>2, <3>2, <3>3, LoudStep DEF LookupInv
  <2> QED BY <1>5, <2>1, <2>2, RecheckEffect
<1>6. CASE Reserve(l)
  <2>0. cached' = cached /\ lock' = lock
    BY <1>6, ReserveEffect
  <2>1. CASE size = seen[l] /\ Moves(l, "cas", "miss", "none")
    <3>1. pc[l] = "cas" /\ pc'[l] = "miss" /\ answer'[l] = "none"
      BY <1>0, <2>1, MovedTo
    <3>2. size < MaxEntries
      BY <1>0, <2>1, <3>1 DEF LookupInv, Missing
    <3>3. Locked(l)' /\ Sorted(l)'
      BY <1>0, <1>2, <2>0, <3>1 DEF LookupInv, Locked, Sorted, Holding
    <3>4. Missing(l)' /\ Refused(l)'
      BY <1>0, <1>1, <2>0, <3>1
         DEF LookupInv, Missing, Refused, Overflowing, Holding, Untouched
    <3> QED BY <1>1, <1>3, <2>0, <2>1, <3>2, <3>3, <3>4, LoudStep DEF LookupInv
  <2>2. CASE Moves(l, "cas", "load", "none")
    <3>1. pc[l] = "cas" /\ pc'[l] = "load" /\ answer'[l] = "none"
      BY <1>0, <2>2, MovedTo
    <3>2. Locked(l)' /\ Sorted(l)'
      BY <1>0, <1>2, <2>0, <3>1 DEF LookupInv, Locked, Sorted, Holding
    <3>3. Missing(l)' /\ Refused(l)'
      BY <1>0, <1>1, <2>0, <3>1
         DEF LookupInv, Missing, Refused, Overflowing, Holding, Untouched
    <3> QED BY <1>1, <1>3, <2>0, <2>2, <3>2, <3>3, LoudStep DEF LookupInv
  <2> QED BY <1>6, <2>1, <2>2, ReserveEffect
<1>7. CASE Insert(l)
  <2>1. /\ Moves(l, "insert", "done", "entry") /\ cached' = cached \cup {key[l]}
        /\ lock' = [lock EXCEPT ![Shard(l)] = Nobody]
    BY <1>7, InsertEffect
  <2>2. pc[l] = "insert" /\ pc'[l] = "done" /\ answer'[l] = "entry"
    BY <1>0, <2>1, MovedTo
  <2>3. lock[Shard(l)] = l
    BY <1>0, <2>2 DEF LookupInv, Locked, Holding
  <2>4. LookupInv(l)'
    BY <2>2 DEF LookupInv, Locked, Missing, Refused, Overflowing, Sorted, Holding
  <2> QED BY <1>1, <1>3, <2>1, <2>3, <2>4, LoudStep
<1>8. CASE Overflow(l)
  <2>1. /\ Moves(l, "overflow", "done", "overflow") /\ cached' = cached /\ size' = size
        /\ lock' = [lock EXCEPT ![Shard(l)] = Nobody]
    BY <1>8, OverflowEffect
  <2>2. /\ pc[l] = "overflow" /\ pc'[l] = "done" /\ answer'[l] = "overflow"
        /\ Reserved' = Reserved
    BY <1>0, <2>1, MovedTo
  <2>3. lock[Shard(l)] = l
    BY <1>0, <2>2 DEF LookupInv, Locked, Holding
  <2>4. Locked(l)' /\ Missing(l)' /\ Sorted(l)'
    BY <2>2 DEF Locked, Missing, Sorted, Holding
  <2>5. Refused(l)'
    BY <1>0, <1>1, <2>1, <2>2 DEF LookupInv, Refused, Overflowing, Untouched
  <2> QED BY <1>1, <1>3, <2>1, <2>3, <2>4, <2>5, LoudStep DEF LookupInv
<1> QED BY <1>4, <1>5, <1>6, <1>7, <1>8

-----------------------------------------------------------------------------
(* The numbers before a step of a lookup: those of the sets are naturals, and  *)
(* a key about to be inserted is new.                                          *)
LEMMA Numbers ==
  ASSUME IInv
  PROVE  /\ Cardinality(cached) \in Nat /\ Cardinality(noted) \in Nat /\ size \in Nat
         /\ Cardinality(Reserved) \in Nat /\ Cardinality(Answered("overflow")) \in Nat
         /\ Cardinality(InFlight({"insert", "overflow"})) \in Nat
         /\ Cardinality(InFlight({"observeDenied"})) \in Nat
         /\ counters.records \in Nat /\ counters.overflows \in Nat /\ counters.denied \in Nat
<1>1. Cardinality(cached) \in Nat /\ Cardinality(noted) \in Nat
  BY FS_CardinalityType DEF IInv
<1>2. /\ Reserved \in SUBSET Lookups /\ Answered("overflow") \in SUBSET Lookups
      /\ InFlight({"insert", "overflow"}) \in SUBSET Lookups
      /\ InFlight({"observeDenied"}) \in SUBSET Lookups
  BY DEF Reserved, Answered, InFlight
<1>3. /\ size \in Nat
      /\ counters.records \in Nat /\ counters.overflows \in Nat /\ counters.denied \in Nat
  BY MaxAssumption DEF IInv, TypeOK
<1> QED BY <1>1, <1>2, <1>3, LookupsCounted

(* The size and the detector's counters stay exact.                            *)
LEMMA StepNumbers ==
  ASSUME IInv, NEW l \in Lookups, Step(l)
  PROVE  /\ IsFiniteSet(cached)' /\ IsFiniteSet(noted)'
         /\ (size = Cardinality(cached) + Cardinality(Reserved))'
         /\ CountersAgree'
<1>0. TypeOK /\ IsFiniteSet(cached) /\ IsFiniteSet(noted) /\ LookupInv(l)
      /\ size = Cardinality(cached) + Cardinality(Reserved)
  BY DEF IInv
<1>00. /\ Cardinality(cached) \in Nat /\ Cardinality(noted) \in Nat /\ size \in Nat
       /\ Cardinality(Reserved) \in Nat /\ Cardinality(Answered("overflow")) \in Nat
       /\ Cardinality(InFlight({"insert", "overflow"})) \in Nat
       /\ Cardinality(InFlight({"observeDenied"})) \in Nat
       /\ counters.records \in Nat /\ counters.overflows \in Nat /\ counters.denied \in Nat
  BY Numbers
<1>01. /\ counters \in [records: Nat, overflows: Nat, denied: Nat]
  BY <1>0 DEF TypeOK
<1>02. counting =>
         /\ counters.overflows = Cardinality(Answered("overflow"))
         /\ counters.records = Cardinality(cached)
              + Cardinality(InFlight({"insert", "overflow"})) + counters.overflows
         /\ counters.denied + Cardinality(InFlight({"observeDenied"})) = Cardinality(noted)
  BY DEF IInv, CountersAgree
<1>03. counting' = counting
  BY BeginEffect, NoteDeniedEffect, ObserveDeniedEffect, FastReadEffect, LoadSizeEffect,
     ObserveMissEffect, AcquireEffect, RecheckEffect, ReserveEffect, InsertEffect,
     OverflowEffect DEF Step, LookupStep, Untouched
<1> SUFFICES /\ IsFiniteSet(cached') /\ IsFiniteSet(noted')
             /\ size' = Cardinality(cached') + Cardinality(Reserved')
             /\ counting =>
                  /\ counters'.overflows = Cardinality(Answered("overflow")')
                  /\ counters'.records = Cardinality(cached')
                       + Cardinality(InFlight({"insert", "overflow"})') + counters'.overflows
                  /\ counters'.denied + Cardinality(InFlight({"observeDenied"})')
                       = Cardinality(noted')
  BY <1>03 DEF CountersAgree
<1>1. CASE /\ UNCHANGED <<cached, noted, size, counters>>
           /\ \E from, to, a : /\ Moves(l, from, to, a)
                               /\ from \notin {"miss", "insert", "overflow", "observeDenied"}
                               /\ to \notin {"miss", "insert", "overflow", "observeDenied"}
                               /\ a # "overflow"
  <2>1. PICK from, to, a : /\ Moves(l, from, to, a)
                           /\ from \notin {"miss", "insert", "overflow", "observeDenied"}
                           /\ to \notin {"miss", "insert", "overflow", "observeDenied"}
                           /\ a # "overflow"
    BY <1>1
  <2>2. /\ Cardinality(Reserved') = Cardinality(Reserved)
        /\ Cardinality(Answered("overflow")') = Cardinality(Answered("overflow"))
        /\ Cardinality(InFlight({"insert", "overflow"})') =
             Cardinality(InFlight({"insert", "overflow"}))
        /\ Cardinality(InFlight({"observeDenied"})') = Cardinality(InFlight({"observeDenied"}))
    BY <1>0, <1>00, <2>1, MoveCounts
  <2> QED BY <1>0, <1>02, <1>1, <2>2
<1>2. CASE Begin(l)
  <2>1. CASE Allowed(key[l])
    BY <1>1, <1>2, <2>1, BeginEffect
  <2>2. CASE ~Allowed(key[l])
    BY <1>1, <1>2, <2>2, BeginEffect
  <2> QED BY <2>1, <2>2
<1>3. CASE FastRead(l)
  BY <1>1, <1>3, FastReadEffect
<1>4. CASE LoadSize(l)
  <2>1. CASE size >= MaxEntries
    BY <1>1, <1>4, <2>1, LoadSizeEffect
  <2>2. CASE ~(size >= MaxEntries)
    BY <1>1, <1>4, <2>2, LoadSizeEffect
  <2> QED BY <2>1, <2>2
<1>5. CASE Acquire(l)
  BY <1>1, <1>5, AcquireEffect
<1>6. CASE Recheck(l)
  BY <1>1, <1>6, RecheckEffect
<1>7. CASE NoteDenied(l)
  <2>1. CASE Show[key[l]] \in noted
    <3>1. noted' = noted
      BY <1>7, <2>1, NoteDeniedEffect
    <3> QED BY <1>1, <1>7, <2>1, <3>1, NoteDeniedEffect
  <2>2. CASE Show[key[l]] \notin noted
    <3>1. /\ Moves(l, "denied", "observeDenied", "none")
          /\ noted' = noted \cup {Show[key[l]]} /\ UNCHANGED <<cached, size, counters>>
      BY <1>7, <2>2, NoteDeniedEffect
    <3>2. IsFiniteSet(noted') /\ Cardinality(noted') = Cardinality(noted) + 1
      BY <1>0, <2>2, <3>1, FS_AddElement
    <3>3. /\ Cardinality(Reserved') = Cardinality(Reserved)
          /\ Cardinality(Answered("overflow")') = Cardinality(Answered("overflow"))
          /\ Cardinality(InFlight({"insert", "overflow"})') =
               Cardinality(InFlight({"insert", "overflow"}))
          /\ Cardinality(InFlight({"observeDenied"})') =
               Cardinality(InFlight({"observeDenied"})) + 1
      BY <1>0, <1>00, <3>1, MoveCounts
    <3> QED BY <1>0, <1>00, <1>02, <3>1, <3>2, <3>3
  <2> QED BY <2>1, <2>2
<1>8. CASE ObserveDenied(l)
  <2>1. /\ Moves(l, "observeDenied", "done", "denied") /\ UNCHANGED <<cached, size, noted>>
        /\ counters' = [counters EXCEPT !.denied = IF counting THEN @ + 1 ELSE @]
    BY <1>8, ObserveDeniedEffect
  <2>2. /\ counters'.records = counters.records /\ counters'.overflows = counters.overflows
        /\ counting => counters'.denied = counters.denied + 1
    BY <1>01, <2>1
  <2>3. /\ Cardinality(Reserved') = Cardinality(Reserved)
        /\ Cardinality(Answered("overflow")') = Cardinality(Answered("overflow"))
        /\ Cardinality(InFlight({"insert", "overflow"})') =
             Cardinality(InFlight({"insert", "overflow"}))
        /\ Cardinality(InFlight({"observeDenied"})') =
             Cardinality(InFlight({"observeDenied"})) - 1
    BY <1>0, <1>00, <2>1, MoveCounts
  <2> QED BY <1>0, <1>00, <1>02, <2>1, <2>2, <2>3
<1>9. CASE ObserveMiss(l)
  <2>1. /\ UNCHANGED <<cached, size, noted>>
        /\ Moves(l, "miss", "insert", "none") \/ Moves(l, "missFull", "overflow", "none")
        /\ counters' = [counters EXCEPT !.records = IF counting THEN @ + 1 ELSE @]
    BY <1>9, ObserveMissEffect
  <2>2. /\ counters'.denied = counters.denied /\ counters'.overflows = counters.overflows
        /\ counting => counters'.records = counters.records + 1
    BY <1>01, <2>1
  <2>3. /\ Cardinality(Reserved') = Cardinality(Reserved)
        /\ Cardinality(Answered("overflow")') = Cardinality(Answered("overflow"))
        /\ Cardinality(InFlight({"insert", "overflow"})') =
             Cardinality(InFlight({"insert", "overflow"})) + 1
        /\ Cardinality(InFlight({"observeDenied"})') = Cardinality(InFlight({"observeDenied"}))
    <3>1. CASE Moves(l, "miss", "insert", "none")
      BY <1>0, <1>00, <3>1, MoveCounts
    <3>2. CASE Moves(l, "missFull", "overflow", "none")
      BY <1>0, <1>00, <3>2, MoveCounts
    <3> QED BY <2>1, <3>1, <3>2
  <2> QED BY <1>0, <1>00, <1>02, <2>1, <2>2, <2>3
<1>10. CASE Reserve(l)
  <2>0. UNCHANGED <<cached, noted, counters>>
    BY <1>10, ReserveEffect
  <2>1. CASE size' = size + 1 /\ Moves(l, "cas", "miss", "none")
    <3>1. /\ Cardinality(Reserved') = Cardinality(Reserved) + 1
          /\ Cardinality(Answered("overflow")') = Cardinality(Answered("overflow"))
          /\ Cardinality(InFlight({"insert", "overflow"})') =
               Cardinality(InFlight({"insert", "overflow"}))
          /\ Cardinality(InFlight({"observeDenied"})') =
               Cardinality(InFlight({"observeDenied"}))
      BY <1>0, <1>00, <2>1, MoveCounts
    <3> QED BY <1>0, <1>00, <1>02, <2>0, <2>1, <3>1
  <2>2. CASE size' = size /\ Moves(l, "cas", "load", "none")
    BY <1>1, <2>0, <2>2
  <2> QED BY <1>10, <2>1, <2>2, ReserveEffect
<1>11. CASE Insert(l)
  <2>1. /\ Moves(l, "insert", "done", "entry") /\ cached' = cached \cup {key[l]}
        /\ UNCHANGED <<size, noted, counters>>
    BY <1>11, InsertEffect
  <2>2. key[l] \notin cached
    BY <1>0, <2>1 DEF LookupInv, Missing, Moves, Holding
  <2>3. IsFiniteSet(cached') /\ Cardinality(cached') = Cardinality(cached) + 1
    BY <1>0, <2>1, <2>2, FS_AddElement
  <2>4. /\ Cardinality(Reserved') = Cardinality(Reserved) - 1
        /\ Cardinality(Answered("overflow")') = Cardinality(Answered("overflow"))
        /\ Cardinality(InFlight({"insert", "overflow"})') =
             Cardinality(InFlight({"insert", "overflow"})) - 1
        /\ Cardinality(InFlight({"observeDenied"})') = Cardinality(InFlight({"observeDenied"}))
    BY <1>0, <1>00, <2>1, MoveCounts
  <2> QED BY <1>0, <1>00, <1>02, <2>1, <2>3, <2>4
<1>12. CASE Overflow(l)
  <2>1. /\ Moves(l, "overflow", "done", "overflow") /\ UNCHANGED <<cached, size, noted>>
        /\ counters' = [counters EXCEPT !.overflows = IF counting THEN @ + 1 ELSE @]
    BY <1>12, OverflowEffect
  <2>2. /\ counters'.records = counters.records /\ counters'.denied = counters.denied
        /\ counting => counters'.overflows = counters.overflows + 1
    BY <1>01, <2>1
  <2>3. /\ Cardinality(Reserved') = Cardinality(Reserved)
        /\ Cardinality(Answered("overflow")') = Cardinality(Answered("overflow")) + 1
        /\ Cardinality(InFlight({"insert", "overflow"})') =
             Cardinality(InFlight({"insert", "overflow"})) - 1
        /\ Cardinality(InFlight({"observeDenied"})') = Cardinality(InFlight({"observeDenied"}))
    BY <1>0, <1>00, <2>1, MoveCounts
  <2> QED BY <1>0, <1>00, <1>02, <2>1, <2>2, <2>3
<1> QED
  BY <1>2, <1>3, <1>4, <1>5, <1>6, <1>7, <1>8, <1>9, <1>10, <1>11, <1>12
     DEF Step, LookupStep

-----------------------------------------------------------------------------
(* The cache, its size and the count of misses only grow.                      *)
LEMMA StepGrows ==
  ASSUME IInv, NEW l \in Lookups, Step(l)
  PROVE  /\ Untouched /\ cached \subseteq cached' /\ size <= size'
         /\ counters.records <= counters'.records
<1>0. size \in Nat /\ counters.records \in Nat
      /\ counters \in [records: Nat, overflows: Nat, denied: Nat]
  BY Numbers DEF IInv, TypeOK
<1>1. Untouched
  BY BeginEffect, NoteDeniedEffect, ObserveDeniedEffect, FastReadEffect, LoadSizeEffect,
     ObserveMissEffect, AcquireEffect, RecheckEffect, ReserveEffect, InsertEffect,
     OverflowEffect DEF Step, LookupStep
<1>2. cached \subseteq cached'
  BY BeginEffect, NoteDeniedEffect, ObserveDeniedEffect, FastReadEffect, LoadSizeEffect,
     ObserveMissEffect, AcquireEffect, RecheckEffect, ReserveEffect, InsertEffect,
     OverflowEffect DEF Step, LookupStep
<1>3. size' = size \/ size' = size + 1
  BY BeginEffect, NoteDeniedEffect, ObserveDeniedEffect, FastReadEffect, LoadSizeEffect,
     ObserveMissEffect, AcquireEffect, RecheckEffect, ReserveEffect, InsertEffect,
     OverflowEffect DEF Step, LookupStep
<1>4. \/ counters' = counters
      \/ counters' = [counters EXCEPT !.records = IF counting THEN @ + 1 ELSE @]
      \/ counters' = [counters EXCEPT !.overflows = IF counting THEN @ + 1 ELSE @]
      \/ counters' = [counters EXCEPT !.denied = IF counting THEN @ + 1 ELSE @]
  BY BeginEffect, NoteDeniedEffect, ObserveDeniedEffect, FastReadEffect, LoadSizeEffect,
     ObserveMissEffect, AcquireEffect, RecheckEffect, ReserveEffect, InsertEffect,
     OverflowEffect DEF Step, LookupStep
<1>5. counters.records <= counters'.records
  BY <1>0, <1>4
<1> QED BY <1>0, <1>1, <1>2, <1>3, <1>5

(* So what snapshots have read and reports have warned of stays true.          *)
LEMMA StepReports ==
  ASSUME IInv, NEW l \in Lookups, Step(l)
  PROVE  SnapshotCounted' /\ WarningsHold'
<1>1. /\ Untouched /\ cached \subseteq cached' /\ size <= size'
  BY StepGrows
<1>2. /\ view' = view /\ counting' = counting /\ logged' = logged /\ warnPct' = warnPct
  BY <1>1 DEF Untouched
<1>3. SnapshotCounted'
  BY <1>1, <1>2 DEF IInv, SnapshotCounted
<1>4. WarningsHold'
  <2>1. /\ size \in Nat /\ size' \in Nat /\ size' <= MaxEntries /\ MaxEntries \in Nat
        /\ warnPct \in Nat
    BY StepTypes, MaxAssumption DEF IInv, TypeOK
  <2>2. warnPct * MaxEntries \in Nat
    BY <2>1
  <2>3. size = MaxEntries => size' = MaxEntries
    BY <1>1, <2>1
  <2>4. \A a, b, p \in Nat : a <= b /\ a * 100 >= p => b * 100 >= p
    OBVIOUS
  <2> QED BY <1>1, <1>2, <2>1, <2>2, <2>3, <2>4 DEF IInv, WarningsHold
<1> QED BY <1>3, <1>4

-----------------------------------------------------------------------------
Views == [at: 0..(NShards + 4), len: 0..MaxEntries, subjects: SUBSET Keys,
          records: Nat, overflows: Nat, denied: Nat]

(* Putting something into a view.                                              *)
LEMMA ViewPut ==
  ASSUME NEW A, NEW B, NEW C,
         NEW x \in [at: A, len: B, subjects: C, records: Nat, overflows: Nat, denied: Nat],
         NEW a \in A, NEW n \in B, NEW c \in C, NEW m \in Nat, NEW o \in Nat, NEW d \in Nat
  PROVE  /\ [x EXCEPT !.at = a, !.len = n]
              \in [at: A, len: B, subjects: C, records: Nat, overflows: Nat, denied: Nat]
         /\ [x EXCEPT !.at = a, !.subjects = c]
              \in [at: A, len: B, subjects: C, records: Nat, overflows: Nat, denied: Nat]
         /\ [x EXCEPT !.at = a, !.records = m]
              \in [at: A, len: B, subjects: C, records: Nat, overflows: Nat, denied: Nat]
         /\ [x EXCEPT !.at = a, !.overflows = o]
              \in [at: A, len: B, subjects: C, records: Nat, overflows: Nat, denied: Nat]
         /\ [x EXCEPT !.at = a, !.denied = d]
              \in [at: A, len: B, subjects: C, records: Nat, overflows: Nat, denied: Nat]
  OBVIOUS

(* What the steps of a Snapshot put into its view.                             *)
LEMMA SnapshotEffect ==
  ASSUME IInv, NEW r \in Readers, Snapshot(r)
  PROVE  /\ view' \in [Readers -> Views]
         /\ \A q \in Readers \ {r} : view'[q] = view[q]
         /\ \/ view'[r].at <= NShards + 1
               /\ view'[r].subjects \subseteq view[r].subjects \cup cached
            \/ /\ view'[r].subjects = view[r].subjects
               /\ \/ view'[r].records = counters.records
                  \/ view'[r].records = view[r].records /\ view[r].at > NShards + 1
<1>0. /\ view \in [Readers -> Views] /\ view[r] \in Views /\ NShards \in Nat \ {0}
      /\ size \in 0..MaxEntries /\ cached \subseteq Keys
      /\ counters.records \in Nat /\ counters.overflows \in Nat /\ counters.denied \in Nat
  BY Numbers, ShardAssumption DEF IInv, TypeOK, Views
<1>1. CASE ReadLen(r)
  <2> DEFINE v == [view[r] EXCEPT !.at = 1, !.len = size]
  <2>0. 1 \in 0..(NShards + 4) /\ v.at = 1 /\ v.subjects = view[r].subjects
    BY <1>0 DEF Views
  <2>1. v \in Views
    BY <1>0, <2>0, ViewPut DEF Views
  <2>2. view' = [view EXCEPT ![r] = v]
    BY <1>0, <1>1 DEF ReadLen, Views
  <2> HIDE DEF v
  <2> QED BY <1>0, <2>0, <2>1, <2>2
<1>2. CASE ReadShard(r)
  <2> DEFINE new == {k \in cached : ShardOf[k] = view[r].at}
             v == [view[r] EXCEPT !.at = @ + 1, !.subjects = @ \cup new]
  <2>0. view[r].at \in 1..NShards /\ new \subseteq cached
    BY <1>2 DEF ReadShard
  <2>1. view' = [view EXCEPT ![r] = v]
    BY <1>0, <1>2 DEF ReadShard, Views
  <2> HIDE DEF new
  <2>2. v.at = view[r].at + 1 /\ v.subjects = view[r].subjects \cup new
    BY <1>0, <2>0 DEF Views
  <2>2a. v \in Views
    <3>1. view[r].at + 1 \in 0..(NShards + 4) /\ view[r].subjects \cup new \in SUBSET Keys
      BY <1>0, <2>0 DEF Views
    <3> QED BY <1>0, <3>1, ViewPut DEF Views
  <2> HIDE DEF v
  <2>3. view'[r] = v /\ view' \in [Readers -> Views] /\ v.at <= NShards + 1
    BY <1>0, <2>0, <2>1, <2>2, <2>2a
  <2> QED BY <1>0, <2>0, <2>1, <2>2, <2>3
<1>3. CASE ReadRecords(r)
  <2> DEFINE v == [view[r] EXCEPT !.at = @ + 1, !.records = counters.records]
  <2>0. view[r].at = NShards + 1
    BY <1>3 DEF ReadRecords, At
  <2>1. v \in Views /\ v.subjects = view[r].subjects /\ v.records = counters.records
    <3>1. view[r].at + 1 \in 0..(NShards + 4)
      BY <1>0, <2>0
    <3>2. v \in Views
      BY <1>0, <3>1, ViewPut DEF Views
    <3>3. v.subjects = view[r].subjects /\ v.records = counters.records
      BY <1>0 DEF Views
    <3> QED BY <3>2, <3>3
  <2>2. view' = [view EXCEPT ![r] = v]
    BY <1>0, <1>3 DEF ReadRecords, Views
  <2> HIDE DEF v
  <2> QED BY <1>0, <2>1, <2>2
<1>4. CASE ReadOverflows(r)
  <2> DEFINE v == [view[r] EXCEPT !.at = @ + 1, !.overflows = counters.overflows]
  <2>0. view[r].at = NShards + 2
    BY <1>4 DEF ReadOverflows, At
  <2>1. v \in Views /\ v.subjects = view[r].subjects /\ v.records = view[r].records
    <3>1. view[r].at + 1 \in 0..(NShards + 4)
      BY <1>0, <2>0
    <3>2. v \in Views
      BY <1>0, <3>1, ViewPut DEF Views
    <3>3. v.subjects = view[r].subjects /\ v.records = view[r].records
      BY <1>0 DEF Views
    <3> QED BY <3>2, <3>3
  <2>2. view' = [view EXCEPT ![r] = v]
    BY <1>0, <1>4 DEF ReadOverflows, Views
  <2> HIDE DEF v
  <2> QED BY <1>0, <2>0, <2>1, <2>2
<1>5. CASE ReadDenied(r)
  <2> DEFINE v == [view[r] EXCEPT !.at = @ + 1, !.denied = counters.denied]
  <2>0. view[r].at = NShards + 3
    BY <1>5 DEF ReadDenied, At
  <2>1. v \in Views /\ v.subjects = view[r].subjects /\ v.records = view[r].records
    <3>1. view[r].at + 1 \in 0..(NShards + 4)
      BY <1>0, <2>0
    <3>2. v \in Views
      BY <1>0, <3>1, ViewPut DEF Views
    <3>3. v.subjects = view[r].subjects /\ v.records = view[r].records
      BY <1>0 DEF Views
    <3> QED BY <3>2, <3>3
  <2>2. view' = [view EXCEPT ![r] = v]
    BY <1>0, <1>5 DEF ReadDenied, Views
  <2> HIDE DEF v
  <2> QED BY <1>0, <2>0, <2>1, <2>2
<1> QED BY <1>1, <1>2, <1>3, <1>4, <1>5 DEF Snapshot

(* A Snapshot changes nothing but its view, and reads the count of misses      *)
(* after the shards.                                                           *)
LEMMA SnapshotStep ==
  ASSUME IInv, NEW r \in Readers, Snapshot(r)
  PROVE  IInv'
<1>1. UNCHANGED <<deny, allowed, counting, warnPct, cached, size, lock, noted, counters,
                  logged, pc, key, seen, answer>>
  BY DEF Snapshot, config, detector, lookup
<1>2. /\ view' \in [Readers -> Views]
      /\ \A q \in Readers \ {r} : view'[q] = view[q]
      /\ \/ view'[r].at <= NShards + 1
            /\ view'[r].subjects \subseteq view[r].subjects \cup cached
         \/ /\ view'[r].subjects = view[r].subjects
            /\ \/ view'[r].records = counters.records
               \/ view'[r].records = view[r].records /\ view[r].at > NShards + 1
  BY SnapshotEffect
<1>3. TypeOK'
  BY <1>1, <1>2 DEF IInv, TypeOK, Views
<1>4. \A l \in Lookups : LookupInv(l)'
  BY <1>1 DEF IInv, LookupInv, Locked, Missing, Refused, Sorted, Overflowing, Reserved,
              Shard, Allowed
<1>5. /\ IsFiniteSet(cached)' /\ IsFiniteSet(noted)'
      /\ (size = Cardinality(cached) + Cardinality(Reserved))'
  BY <1>1 DEF IInv, Reserved
<1>6. CountersAgree' /\ WarningsHold'
  BY <1>1 DEF IInv, CountersAgree, WarningsHold, Answered, InFlight
<1>7. SnapshotCounted'
  <2>0. /\ Cardinality(cached) \in Nat /\ Cardinality(Reserved) \in Nat
        /\ Cardinality(InFlight({"insert", "overflow"})) \in Nat
        /\ counters.records \in Nat /\ counters.overflows \in Nat
        /\ size \in 0..MaxEntries /\ MaxEntries \in Nat /\ NShards \in Nat
        /\ IsFiniteSet(cached)
    BY Numbers, MaxAssumption, ShardAssumption DEF IInv, TypeOK
  <2>1. Cardinality(cached) <= MaxEntries
    BY <2>0 DEF IInv
  <2>2. counting => Cardinality(cached) <= counters.records
    BY <2>0 DEF IInv, CountersAgree
  <2>3. view'[r].subjects \subseteq cached
    BY <1>2 DEF IInv, SnapshotCounted
  <2>4. /\ Cardinality(view'[r].subjects) \in Nat
        /\ Cardinality(view'[r].subjects) <= Cardinality(cached)
    BY <2>0, <2>3, FS_Subset, FS_CardinalityType
  <2>5. Cardinality(view'[r].subjects) <= MaxEntries
    BY <2>0, <2>1, <2>4
  <2>6. counting /\ view'[r].at > NShards + 1
          => Cardinality(view'[r].subjects) <= view'[r].records
    <3>1. view'[r].at \in Nat
      BY <1>2, <2>0 DEF Views
    <3>2. CASE view'[r].at <= NShards + 1
      BY <2>0, <3>1, <3>2
    <3>3. CASE view'[r].records = counters.records
      BY <2>0, <2>2, <2>4, <3>3
    <3>4. CASE /\ view'[r].subjects = view[r].subjects
               /\ view'[r].records = view[r].records /\ view[r].at > NShards + 1
      BY <3>4 DEF IInv, SnapshotCounted
    <3> QED BY <1>2, <3>2, <3>3, <3>4
  <2>7. \A q \in Readers \ {r} : view'[q] = view[q]
    BY <1>2
  <2> QED BY <1>1, <2>3, <2>5, <2>6, <2>7 DEF IInv, SnapshotCounted
<1> QED BY <1>3, <1>4, <1>5, <1>6, <1>7 DEF IInv

(* A full cache is utilized at a hundred percent, and a utilization of p       *)
(* percent is at least that many entries.                                      *)
LEMMA UtilizationMeans ==
  ASSUME NEW n \in Nat, NEW p \in Nat
  PROVE  /\ Utilization(MaxEntries) = 100
         /\ Utilization(n) >= p => n * 100 >= p * MaxEntries
<1>0. MaxEntries \in Nat \ {0}
  BY MaxAssumption
<1>1. Utilization(MaxEntries) = 100
  BY <1>0 DEF Utilization
<1>2. ASSUME NEW a \in Nat, NEW m \in Nat \ {0} PROVE a >= (a \div m) * m /\ a \div m \in Nat
  OBVIOUS
<1>3. Utilization(n) \in Nat /\ n * 100 >= Utilization(n) * MaxEntries
  BY <1>0, <1>2 DEF Utilization
<1>4. ASSUME NEW q \in Nat, q >= p PROVE q * MaxEntries >= p * MaxEntries
  BY <1>0, <1>4
<1> QED BY <1>0, <1>1, <1>3, <1>4

(* A report warns in full.                                                     *)
LEMMA ReportStep ==
  ASSUME IInv, Report
  PROVE  IInv'
<1>1. UNCHANGED <<deny, allowed, counting, warnPct, cached, size, lock, noted, counters,
                  pc, key, seen, answer, view>>
  BY DEF Report, config, lookup
<1>2. logged' = logged \cup
        {w \in {"high"} : warnPct > 0 /\ Utilization(size) >= warnPct} \cup
        {w \in {"limit"} : size >= MaxEntries}
  BY DEF Report
<1>3. TypeOK'
  BY <1>1, <1>2 DEF IInv, TypeOK
<1>4. \A l \in Lookups : LookupInv(l)'
  BY <1>1 DEF IInv, LookupInv, Locked, Missing, Refused, Sorted, Overflowing, Reserved,
              Shard, Allowed
<1>5. /\ IsFiniteSet(cached)' /\ IsFiniteSet(noted)'
      /\ (size = Cardinality(cached) + Cardinality(Reserved))'
  BY <1>1 DEF IInv, Reserved
<1>6. CountersAgree' /\ SnapshotCounted'
  BY <1>1 DEF IInv, CountersAgree, SnapshotCounted, Answered, InFlight
<1>7. WarningsHold'
  <2>1. size \in 0..MaxEntries /\ MaxEntries \in Nat /\ warnPct \in 0..100
    BY MaxAssumption DEF IInv, TypeOK
  <2>2. size >= MaxEntries <=> size = MaxEntries
    BY <2>1
  <2>3. Utilization(MaxEntries) = 100
    BY <2>1, UtilizationMeans
  <2>4. Utilization(size) >= warnPct => size * 100 >= warnPct * MaxEntries
    BY <2>1, UtilizationMeans
  <2>5. "limit" \in logged' => size = MaxEntries
    BY <1>2, <2>2 DEF IInv, WarningsHold
  <2>6. size = MaxEntries /\ warnPct > 0 => "high" \in logged'
    BY <1>2, <2>1, <2>3
  <2>7. "high" \in logged' => size * 100 >= warnPct * MaxEntries
    BY <1>2, <2>4 DEF IInv, WarningsHold
  <2> QED BY <1>1, <2>5, <2>6, <2>7 DEF WarningsHold
<1> QED BY <1>3, <1>4, <1>5, <1>6, <1>7 DEF IInv

-----------------------------------------------------------------------------
(* The invariant holds when the cache is published.                            *)
LEMMA IInvInit == Init => IInv
<1> SUFFICES ASSUME Init PROVE IInv
  OBVIOUS
<1>1. TypeOK
  <2>1. PICK s \in Settings : /\ deny = s.deny /\ allowed = s.allowed
                               /\ counting = s.counting /\ warnPct = Clamp(s.warnPct)
    BY DEF Init
  <2>2. s \in [deny: BOOLEAN, allowed: SUBSET Labels, counting: BOOLEAN, warnPct: Int]
    BY SettingsAssumption
  <2>3. deny \in BOOLEAN /\ counting \in BOOLEAN /\ allowed \subseteq Labels
    BY <2>1, <2>2
  <2>4. \A p \in Int : Clamp(p) \in 0..100
    BY DEF Clamp
  <2>5. warnPct \in 0..100
    BY <2>1, <2>2, <2>4
  <2>6. /\ logged \subseteq {"high", "limit"} /\ cached \subseteq Keys /\ size \in 0..MaxEntries
        /\ lock \in [1..NShards -> Lookups \cup {Nobody}]
        /\ noted \subseteq {Show[k] : k \in Keys}
        /\ counters \in [records: Nat, overflows: Nat, denied: Nat]
        /\ pc \in [Lookups -> LookupPC] /\ key \in [Lookups -> Keys]
        /\ seen \in [Lookups -> 0..MaxEntries]
        /\ answer \in [Lookups -> {"none", "denied", "entry", "overflow"}]
    BY MaxAssumption, CallsAssumption DEF Init, LookupPC
  <2>7. NoView \in Views
    BY MaxAssumption, ShardAssumption DEF NoView, Views
  <2>8. view \in [Readers -> Views]
    BY <2>7 DEF Init
  <2> QED BY <2>3, <2>5, <2>6, <2>8 DEF TypeOK, Views
<1>2. \A l \in Lookups : LookupInv(l)
  BY DEF Init, LookupInv, Locked, Missing, Refused, Overflowing, Sorted, Holding
<1>3. /\ Reserved = {} /\ Answered("overflow") = {} /\ InFlight({"insert", "overflow"}) = {}
      /\ InFlight({"observeDenied"}) = {}
  BY DEF Init, Reserved, Answered, InFlight
<1>4. IsFiniteSet({}) /\ Cardinality({}) = 0
  BY FS_EmptySet
<1>5. /\ IsFiniteSet(cached) /\ IsFiniteSet(noted)
      /\ size = Cardinality(cached) + Cardinality(Reserved)
  BY <1>3, <1>4 DEF Init
<1>6. CountersAgree
  <2>1. /\ counters.records = 0 /\ counters.overflows = 0 /\ counters.denied = 0
        /\ cached = {} /\ noted = {}
    BY DEF Init
  <2> QED BY <1>3, <1>4, <2>1 DEF CountersAgree
<1>7. SnapshotCounted
  <2>1. MaxEntries \in Nat /\ NShards \in Nat
    BY MaxAssumption, ShardAssumption
  <2>2. \A r \in Readers : view[r].subjects = {} /\ view[r].at = 0
    BY DEF Init, NoView
  <2> QED BY <1>4, <2>1, <2>2 DEF SnapshotCounted
<1>8. WarningsHold
  BY DEF Init, WarningsHold
<1> QED BY <1>1, <1>2, <1>5, <1>6, <1>7, <1>8 DEF IInv

(* Every step keeps it.                                                        *)
LEMMA IInvStep == IInv /\ [Next]_vars => IInv'
<1> SUFFICES ASSUME IInv, [Next]_vars PROVE IInv'
  OBVIOUS
<1>1. CASE UNCHANGED vars
  <2>1. UNCHANGED <<deny, allowed, counting, warnPct, cached, size, lock, noted, counters,
                    logged, pc, key, seen, answer, view>>
    BY <1>1 DEF vars, config, detector, lookup
  <2>2. TypeOK'
    BY <2>1 DEF IInv, TypeOK
  <2>3. \A l \in Lookups : LookupInv(l)'
    BY <2>1 DEF IInv, LookupInv, Locked, Missing, Refused, Sorted, Overflowing, Reserved,
                Shard, Allowed
  <2>4. /\ IsFiniteSet(cached)' /\ IsFiniteSet(noted)'
        /\ (size = Cardinality(cached) + Cardinality(Reserved))'
    BY <2>1 DEF IInv, Reserved
  <2>5. CountersAgree' /\ SnapshotCounted' /\ WarningsHold'
    BY <2>1 DEF IInv, CountersAgree, SnapshotCounted, WarningsHold, Answered, InFlight
  <2> QED BY <2>2, <2>3, <2>4, <2>5 DEF IInv
<1>2. ASSUME NEW l \in Lookups, Step(l) PROVE IInv'
  <2>1. \A m \in Lookups : LookupInv(m)'
    BY <1>2, FirstSteps, LockedSteps, LoudSteps DEF Step, LookupStep
  <2> QED BY <1>2, <2>1, StepTypes, StepNumbers, StepReports DEF IInv
<1>3. ASSUME NEW r \in Readers, Snapshot(r) PROVE IInv'
  BY <1>3, SnapshotStep
<1>4. CASE Report
  BY <1>4, ReportStep
<1> QED BY <1>1, <1>2, <1>3, <1>4 DEF Next, Step

(* The types of the cache hold, and with them that the size never passes its   *)
(* limit (reserveSlot, metric.go:274-289).                                     *)
THEOREM TypeCorrect == Spec => []TypeOK
<1>1. IInv => TypeOK
  BY DEF IInv
<1> QED BY <1>1, IInvInit, IInvStep, PTL DEF Spec

(* The size is that of the maps and the slots on their way, whatever shards    *)
(* the keys fall into and however many lookups race (metric.go:361-379).       *)
THEOREM SizeExact == Spec => []SizeIsExact
<1>1. IInv => SizeIsExact
  <2> SUFFICES ASSUME IInv PROVE SizeIsExact
    OBVIOUS
  <2>1. size = Cardinality(cached) + Cardinality(Reserved)
    BY DEF IInv
  <2>2. ASSUME NEW l \in Reserved PROVE key[l] \notin cached
    BY DEF IInv, LookupInv, Missing, Reserved, Holding
  <2>3. ASSUME NEW l \in Reserved, NEW m \in Reserved, key[l] = key[m] PROVE l = m
    BY <2>3, HolderAlone DEF Reserved, Holding, Shard
  <2> QED BY <2>1, <2>2, <2>3 DEF SizeIsExact
<1> QED BY <1>1, IInvInit, IInvStep, PTL DEF Spec

(* A key that was refused is refused for good (metric.go:281-283, 364-370).    *)
THEOREM RefusedForGood == Spec => []OverflowIsFinal
<1>1. IInv => OverflowIsFinal
  BY DEF IInv, LookupInv, Refused, Overflowing, OverflowIsFinal, Answered
<1> QED BY <1>1, IInvInit, IInvStep, PTL DEF Spec

(* The detector counts every miss, overflow and denied string once             *)
(* (cardinality.go:86-107).                                                    *)
THEOREM CountersExact == Spec => []CountersAgree
<1>1. IInv => CountersAgree
  BY DEF IInv
<1> QED BY <1>1, IInvInit, IInvStep, PTL DEF Spec

(* A Snapshot lists no more subjects than the misses it reports                *)
(* (cardinality.go:198-216).                                                   *)
THEOREM SnapshotsCounted == Spec => []SnapshotCounted
<1>1. IInv => SnapshotCounted
  BY DEF IInv
<1> QED BY <1>1, IInvInit, IInvStep, PTL DEF Spec

(* The detector's warnings are true, and complete, for every percentage and    *)
(* every limit (cardinality.go:45-51, 131-158).                                *)
THEOREM WarningsTrue == Spec => []WarningsHold
<1>1. IInv => WarningsHold
  BY DEF IInv
<1> QED BY <1>1, IInvInit, IInvStep, PTL DEF Spec

-----------------------------------------------------------------------------
(* The answers are those of Interner.  Its state as AttrCache keeps it: the    *)
(* keys in the maps and on their way there, and what a lookup will answer.     *)
Interned == cached \cup {key[l] : l \in Reserved}

Says(p, a) == IF p \in {"denied", "observeDenied"} THEN "denied"
              ELSE IF p \in {"miss", "insert"} THEN "entry"
              ELSE IF p \in {"missFull", "overflow"} THEN "overflow"
              ELSE a
Told == [l \in Lookups |-> Says(pc[l], answer[l])]

(* They are as many as the size says.                                          *)
InternedCounted == IsFiniteSet(Interned) /\ Cardinality(Interned) = size

RInv == IInv /\ InternedCounted

(* A move of a lookup changes what that lookup will answer, and nothing else.  *)
LEMMA MoveTells ==
  ASSUME TypeOK, NEW l \in Lookups, NEW from, NEW to, NEW a, Moves(l, from, to, a)
  PROVE  Told[l] = Says(from, "none") /\ Told' = [Told EXCEPT ![l] = Says(to, a)]
  BY DEF TypeOK, Moves, Told

(* isAllowed and Interner agree on what is rejected.                           *)
LEMMA RejectedKeys ==
  ASSUME TypeOK, NEW l \in Lookups
  PROVE  Abstract!Rejected(key[l]) <=> ~Allowed(key[l])
<1>1. PICK n \in 1..3 : key[l] \in [1..n -> Labels]
  BY KeysAssumption DEF TypeOK
<1>2. key[l] \in Seq(Labels)
  BY <1>1, SeqDef
<1>3. DOMAIN key[l] = 1..Len(key[l])
  BY <1>2
<1>4. deny \in BOOLEAN
  BY DEF TypeOK
<1> QED BY <1>3, <1>4 DEF Allowed, Abstract!Rejected

(* A lookup that finds its key in the map.                                     *)
LEMMA FoundTells ==
  ASSUME IInv, NEW l \in Lookups, NEW from \in {"read", "check"},
         Moves(l, from, "done", "entry"), key[l] \in cached, Untouched, cached' = cached
  PROVE  /\ Told[l] = "none" /\ Told' = [Told EXCEPT ![l] = "entry"]
         /\ ~Abstract!Rejected(key[l]) /\ key[l] \in Interned /\ Interned' = Interned
<1>1. TypeOK /\ Sorted(l)
  BY DEF IInv, LookupInv
<1>2. Told[l] = Says(from, "none") /\ Told' = [Told EXCEPT ![l] = Says("done", "entry")]
  BY <1>1, MoveTells
<1>3. Says(from, "none") = "none" /\ Says("done", "entry") = "entry"
  BY DEF Says
<1>4. Reserved' = Reserved
  BY <1>1, MovedTo
<1>5. Interned' = Interned /\ key[l] \in Interned
  BY <1>4 DEF Interned, Untouched
<1>6. Allowed(key[l])
  BY <1>1 DEF Sorted, Moves, Holding
<1> QED BY <1>1, <1>2, <1>3, <1>5, <1>6, RejectedKeys

(* What a step of a lookup is to Interner: a denial, an entry, an overflow, or *)
(* nothing.                                                                    *)
DenyStep(l) == /\ Abstract!Rejected(key[l]) /\ Interned' = Interned
               /\ Told[l] = "none" /\ Told' = [Told EXCEPT ![l] = "denied"]
InternStep(l) == /\ ~Abstract!Rejected(key[l])
                 /\ \/ key[l] \in Interned /\ size' = size
                    \/ key[l] \notin Interned /\ size < MaxEntries /\ size' = size + 1
                 /\ Interned' = Interned \cup {key[l]}
                 /\ Told[l] = "none" /\ Told' = [Told EXCEPT ![l] = "entry"]
ShareStep(l) == /\ ~Abstract!Rejected(key[l]) /\ Interned' = Interned
                /\ key[l] \notin Interned /\ size = MaxEntries
                /\ Told[l] = "none" /\ Told' = [Told EXCEPT ![l] = "overflow"]
NoStep == Interned' = Interned /\ Told' = Told

(* A move that is nothing to Interner.                                         *)
LEMMA MoveTellsNothing ==
  ASSUME TypeOK, NEW l \in Lookups, NEW from, NEW to, NEW a, Moves(l, from, to, a),
         Untouched, Says(from, "none") = Says(to, a), cached' = cached,
         from \in {"miss", "insert"} <=> to \in {"miss", "insert"}
  PROVE  NoStep
<1>1. Told' = [Told EXCEPT ![l] = Told[l]]
  BY MoveTells
<1>2. Told' = Told
  BY <1>1 DEF Told
<1>3. /\ pc[l] = from /\ pc'[l] = to
      /\ \A m \in Lookups \ {l} : pc'[m] = pc[m]
  BY DEF TypeOK, Moves
<1>4. Reserved' = Reserved
  BY <1>3 DEF Reserved
<1> QED BY <1>2, <1>4 DEF NoStep, Interned, Untouched

(* Every step of a lookup is one of the four.                                  *)
LEMMA StepTells ==
  ASSUME IInv, NEW l \in Lookups, Step(l)
  PROVE  \/ DenyStep(l) /\ size' = size
         \/ InternStep(l)
         \/ ShareStep(l) /\ size' = size
         \/ NoStep /\ size' = size
<1>0. TypeOK /\ LookupInv(l) /\ size \in 0..MaxEntries /\ MaxEntries \in Nat
  BY MaxAssumption DEF IInv, TypeOK
<1>1. Untouched
  BY StepGrows
<1>2. CASE Begin(l)
  <2>1. CASE Allowed(key[l])
    <3>1. Moves(l, "idle", "read", "none") /\ UNCHANGED <<cached, size>>
      BY <1>2, <2>1, BeginEffect
    <3> QED BY <1>0, <1>1, <3>1, MoveTellsNothing DEF Says
  <2>2. CASE ~Allowed(key[l])
    <3>1. Moves(l, "idle", "denied", "none") /\ UNCHANGED <<cached, size>>
      BY <1>2, <2>2, BeginEffect
    <3>2. Told[l] = Says("idle", "none") /\ Told' = [Told EXCEPT ![l] = Says("denied", "none")]
      BY <1>0, <3>1, MoveTells
    <3>3. Reserved' = Reserved
      BY <1>0, <3>1, MovedTo
    <3>4. Interned' = Interned
      BY <1>1, <3>1, <3>3 DEF Interned, Untouched
    <3>5. Says("idle", "none") = "none" /\ Says("denied", "none") = "denied"
      BY DEF Says
    <3> QED BY <1>0, <2>2, <3>1, <3>2, <3>4, <3>5, RejectedKeys DEF DenyStep
  <2> QED BY <2>1, <2>2
<1>3. CASE NoteDenied(l)
  <2>1. /\ Moves(l, "denied", "done", "denied") \/ Moves(l, "denied", "observeDenied", "none")
        /\ UNCHANGED <<cached, size>>
    BY <1>3, NoteDeniedEffect
  <2> QED BY <1>0, <1>1, <2>1, MoveTellsNothing DEF Says
<1>4. CASE ObserveDenied(l)
  <2>1. Moves(l, "observeDenied", "done", "denied") /\ UNCHANGED <<cached, size>>
    BY <1>4, ObserveDeniedEffect
  <2> QED BY <1>0, <1>1, <2>1, MoveTellsNothing DEF Says
<1>5. CASE FastRead(l)
  <2>0. UNCHANGED <<cached, size>>
    BY <1>5, FastReadEffect
  <2>1. CASE key[l] \in cached /\ Moves(l, "read", "done", "entry")
    <3>1. /\ Told[l] = "none" /\ Told' = [Told EXCEPT ![l] = "entry"]
          /\ ~Abstract!Rejected(key[l]) /\ key[l] \in Interned /\ Interned' = Interned
      BY <1>1, <2>0, <2>1, FoundTells
    <3> QED BY <2>0, <3>1 DEF InternStep
  <2>2. CASE Moves(l, "read", "lock", "none")
    BY <1>0, <1>1, <2>0, <2>2, MoveTellsNothing DEF Says
  <2> QED BY <1>5, <2>1, <2>2, FastReadEffect
<1>6. CASE LoadSize(l)
  <2>0. UNCHANGED <<cached, size>>
    BY <1>6, LoadSizeEffect
  <2>1. CASE size >= MaxEntries
    <3>1. Moves(l, "load", "missFull", "none")
      BY <1>6, <2>1, LoadSizeEffect
    <3>2. Told[l] = Says("load", "none") /\ Told' = [Told EXCEPT ![l] = Says("missFull", "none")]
      BY <1>0, <3>1, MoveTells
    <3>3. Reserved' = Reserved /\ pc[l] = "load"
      BY <1>0, <3>1, MovedTo
    <3>4. Interned' = Interned
      BY <1>1, <2>0, <3>3 DEF Interned, Untouched
    <3>5. Says("load", "none") = "none" /\ Says("missFull", "none") = "overflow"
      BY DEF Says
    <3>6. key[l] \notin cached /\ Allowed(key[l])
      BY <1>0, <3>3 DEF LookupInv, Missing, Sorted, Holding
    <3>7. ASSUME NEW m \in Reserved, key[m] = key[l] PROVE FALSE
      <4>1. pc[m] \in Holding /\ pc[l] \in Holding /\ m \in Lookups /\ Shard(m) = Shard(l)
        BY <3>3, <3>7 DEF Reserved, Holding, Shard
      <4>2. m = l
        BY <4>1, HolderAlone
      <4> QED BY <3>3, <4>2 DEF Reserved
    <3>8. key[l] \notin Interned
      BY <3>6, <3>7 DEF Interned
    <3>9. size = MaxEntries
      BY <1>0, <2>1
    <3> QED BY <1>0, <2>0, <3>2, <3>4, <3>5, <3>6, <3>8, <3>9, RejectedKeys DEF ShareStep
  <2>2. CASE ~(size >= MaxEntries)
    <3>1. Moves(l, "load", "cas", "none")
      BY <1>6, <2>2, LoadSizeEffect
    <3> QED BY <1>0, <1>1, <2>0, <3>1, MoveTellsNothing DEF Says
  <2> QED BY <2>1, <2>2
<1>7. CASE ObserveMiss(l)
  <2>1. /\ Moves(l, "miss", "insert", "none") \/ Moves(l, "missFull", "overflow", "none")
        /\ UNCHANGED <<cached, size>>
    BY <1>7, ObserveMissEffect
  <2> QED BY <1>0, <1>1, <2>1, MoveTellsNothing DEF Says
<1>8. CASE Acquire(l)
  <2>1. Moves(l, "lock", "check", "none") /\ UNCHANGED <<cached, size>>
    BY <1>8, AcquireEffect
  <2> QED BY <1>0, <1>1, <2>1, MoveTellsNothing DEF Says
<1>9. CASE Recheck(l)
  <2>0. UNCHANGED <<cached, size>>
    BY <1>9, RecheckEffect
  <2>1. CASE key[l] \in cached /\ Moves(l, "check", "done", "entry")
    <3>1. /\ Told[l] = "none" /\ Told' = [Told EXCEPT ![l] = "entry"]
          /\ ~Abstract!Rejected(key[l]) /\ key[l] \in Interned /\ Interned' = Interned
      BY <1>1, <2>0, <2>1, FoundTells
    <3> QED BY <2>0, <3>1 DEF InternStep
  <2>2. CASE Moves(l, "check", "load", "none")
    BY <1>0, <1>1, <2>0, <2>2, MoveTellsNothing DEF Says
  <2> QED BY <1>9, <2>1, <2>2, RecheckEffect
<1>10. CASE Reserve(l)
  <2>0. cached' = cached
    BY <1>10, ReserveEffect
  <2>1. CASE size = seen[l] /\ size' = size + 1 /\ Moves(l, "cas", "miss", "none")
    <3>1. Told[l] = Says("cas", "none") /\ Told' = [Told EXCEPT ![l] = Says("miss", "none")]
      BY <1>0, <2>1, MoveTells
    <3>2. /\ pc[l] = "cas" /\ pc'[l] = "miss" /\ \A m \in Lookups \ {l} : pc'[m] = pc[m]
      BY <1>0, <2>1 DEF TypeOK, Moves
    <3>3. Reserved' = Reserved \cup {l} /\ l \notin Reserved
      BY <3>2 DEF Reserved
    <3>4. Interned' = Interned \cup {key[l]}
      BY <1>1, <2>0, <3>3 DEF Interned, Untouched
    <3>5. Says("cas", "none") = "none" /\ Says("miss", "none") = "entry"
      BY DEF Says
    <3>6. key[l] \notin cached /\ Allowed(key[l]) /\ size < MaxEntries
      BY <1>0, <2>1, <3>2 DEF LookupInv, Missing, Sorted, Holding
    <3>7. ASSUME NEW m \in Reserved, key[m] = key[l] PROVE FALSE
      <4>1. pc[m] \in Holding /\ pc[l] \in Holding /\ m \in Lookups /\ Shard(m) = Shard(l)
        BY <3>2, <3>7 DEF Reserved, Holding, Shard
      <4>2. m = l
        BY <4>1, HolderAlone
      <4> QED BY <3>3, <4>2
    <3>8. key[l] \notin Interned
      BY <3>6, <3>7 DEF Interned
    <3> QED BY <1>0, <2>1, <3>1, <3>4, <3>5, <3>6, <3>8, RejectedKeys DEF InternStep
  <2>2. CASE size' = size /\ Moves(l, "cas", "load", "none")
    BY <1>0, <1>1, <2>0, <2>2, MoveTellsNothing DEF Says
  <2> QED BY <1>10, <2>1, <2>2, ReserveEffect
<1>11. CASE Insert(l)
  <2>1. /\ Moves(l, "insert", "done", "entry") /\ cached' = cached \cup {key[l]}
        /\ size' = size
    BY <1>11, InsertEffect
  <2>2. Told[l] = Says("insert", "none") /\ Told' = [Told EXCEPT ![l] = Says("done", "entry")]
    BY <1>0, <2>1, MoveTells
  <2>3. Says("insert", "none") = "entry" /\ Says("done", "entry") = "entry"
    BY DEF Says
  <2>4. Told' = Told
    BY <2>2, <2>3 DEF Told
  <2>5. pc[l] = "insert" /\ pc'[l] = "done" /\ \A m \in Lookups \ {l} : pc'[m] = pc[m]
    BY <1>0, <2>1 DEF TypeOK, Moves
  <2>6. Reserved' = Reserved \ {l} /\ l \in Reserved
    BY <2>5 DEF Reserved
  <2>7. Interned' = Interned
    BY <1>1, <2>1, <2>6 DEF Interned, Untouched
  <2> QED BY <2>1, <2>4, <2>7 DEF NoStep
<1>12. CASE Overflow(l)
  <2>1. Moves(l, "overflow", "done", "overflow") /\ UNCHANGED <<cached, size>>
    BY <1>12, OverflowEffect
  <2> QED BY <1>0, <1>1, <2>1, MoveTellsNothing DEF Says
<1> QED
  BY <1>2, <1>3, <1>4, <1>5, <1>6, <1>7, <1>8, <1>9, <1>10, <1>11, <1>12
     DEF Step, LookupStep

(* Every other step is nothing to it.                                          *)
LEMMA OthersTell ==
  ASSUME (\E r \in Readers : Snapshot(r)) \/ Report \/ UNCHANGED vars
  PROVE  NoStep /\ UNCHANGED <<key, deny, allowed, size>>
<1>1. UNCHANGED <<key, deny, allowed, size, cached, pc, answer>>
  BY DEF Snapshot, Report, vars, config, lookup
<1> QED BY <1>1 DEF NoStep, Interned, Told, Reserved

(* The size counts what is interned, through every step.                       *)
LEMMA InternedStep == RInv /\ [Next]_vars => InternedCounted'
<1> SUFFICES ASSUME RInv, [Next]_vars PROVE InternedCounted'
  OBVIOUS
<1>0. size \in Nat /\ IInv /\ IsFiniteSet(Interned) /\ Cardinality(Interned) = size
  BY Numbers DEF RInv, InternedCounted
<1>1. CASE Interned' = Interned /\ size' = size
  BY <1>0, <1>1 DEF InternedCounted
<1>2. ASSUME NEW l \in Lookups, InternStep(l) PROVE InternedCounted'
  <2>1. CASE key[l] \in Interned /\ size' = size
    <3>1. Interned' = Interned
      BY <1>2, <2>1 DEF InternStep
    <3> QED BY <1>1, <2>1, <3>1
  <2>2. CASE key[l] \notin Interned /\ size' = size + 1
    <3>1. Interned' = Interned \cup {key[l]}
      BY <1>2 DEF InternStep
    <3>2. IsFiniteSet(Interned') /\ Cardinality(Interned') = size + 1
      BY <1>0, <2>2, <3>1, FS_AddElement
    <3> QED BY <2>2, <3>2 DEF InternedCounted
  <2> QED BY <1>2, <2>1, <2>2 DEF InternStep
<1>3. ASSUME NEW l \in Lookups, Step(l) PROVE InternedCounted'
  BY <1>0, <1>1, <1>2, <1>3, StepTells DEF DenyStep, ShareStep, NoStep
<1>4. CASE (\E r \in Readers : Snapshot(r)) \/ Report \/ UNCHANGED vars
  BY <1>1, <1>4, OthersTell DEF NoStep
<1> QED BY <1>3, <1>4 DEF Next, Step

(* The refinement mapping in these terms.                                      *)
Mapped == [l \in Lookups |-> IF pc[l] \in {"denied", "observeDenied"} THEN "denied"
                             ELSE IF l \in Reserved THEN "entry"
                             ELSE IF pc[l] \in {"missFull", "overflow"} THEN "overflow"
                             ELSE answer[l]]

(* It is Told, before and after a step.                                        *)
LEMMA MappedIsTold == Mapped = Told /\ Mapped' = Told'
  BY DEF Mapped, Told, Says, Reserved

(* Interner counts as AttrCache does.                                          *)
LEMMA SameCardinality == \A S : Abstract!Cardinality(S) = Cardinality(S)
  BY DEF Abstract!Cardinality, Cardinality

(* A step of a lookup is a step of Interner, or none.                          *)
LEMMA StepRefines ==
  ASSUME RInv, NEW l \in Lookups, Step(l)
  PROVE  [Abstract!INext]_(Abstract!ivars)
<1>0. IInv /\ Cardinality(Interned) = size /\ size \in Nat /\ MaxEntries \in Nat
  BY Numbers, MaxAssumption DEF RInv, InternedCounted
<1>1. UNCHANGED <<key, deny, allowed>>
  BY <1>0, StepGrows DEF Untouched
<1>2. Mapped = Told /\ Mapped' = Told'
  BY MappedIsTold
<1>3. CASE DenyStep(l)
  <2>1. Abstract!Deny(l)
    BY <1>2, <1>3 DEF DenyStep, Abstract!Deny, Abstract!Tell, Mapped, Interned
  <2> QED BY <1>1, <2>1 DEF Abstract!INext
<1>4. CASE InternStep(l)
  <2>0. key[l] \in Interned \/ Abstract!Cardinality(Interned) < MaxEntries
    BY <1>0, <1>4, SameCardinality DEF InternStep
  <2>0a. /\ ~Abstract!Rejected(key[l]) /\ Interned' = Interned \cup {key[l]}
         /\ Mapped[l] = "none" /\ Mapped' = [Mapped EXCEPT ![l] = "entry"]
    BY <1>2, <1>4 DEF InternStep
  <2>1. Abstract!Intern(l)
    BY <2>0, <2>0a DEF Abstract!Intern, Abstract!Tell, Mapped, Interned
  <2> QED BY <1>1, <2>1 DEF Abstract!INext
<1>5. CASE ShareStep(l)
  <2>0. /\ ~Abstract!Rejected(key[l]) /\ Interned' = Interned /\ key[l] \notin Interned
        /\ Abstract!Cardinality(Interned) = MaxEntries
        /\ Mapped[l] = "none" /\ Mapped' = [Mapped EXCEPT ![l] = "overflow"]
    BY <1>0, <1>2, <1>5, SameCardinality DEF ShareStep
  <2>1. Abstract!Share(l)
    BY <2>0 DEF Abstract!Share, Abstract!Tell, Mapped, Interned
  <2> QED BY <1>1, <2>1 DEF Abstract!INext
<1>6. CASE NoStep
  BY <1>1, <1>2, <1>6 DEF NoStep, Abstract!ivars, Mapped, Interned
<1> QED BY <1>0, <1>3, <1>4, <1>5, <1>6, StepTells

(* AttrCache answers as Interner does: every lookup at one instant, as if it   *)
(* ran alone (lookup, entry, reserveSlot, metric.go:88-111, 274-289, 361-379). *)
THEOREM AnswersAsInterner == Spec => ImplementsInterner
<1>1. Init => RInv /\ Abstract!IInit
  <2> SUFFICES ASSUME Init PROVE RInv /\ Abstract!IInit
    OBVIOUS
  <2>1. Reserved = {} /\ cached = {} /\ size = 0
    BY DEF Init, Reserved
  <2>2. Interned = {}
    BY <2>1 DEF Interned
  <2>3. InternedCounted
    BY <2>1, <2>2, FS_EmptySet DEF InternedCounted
  <2>4. Mapped = [l \in Lookups |-> "none"]
    BY <2>1 DEF Init, Mapped
  <2>5. Abstract!IInit
    BY <2>2, <2>4 DEF Abstract!IInit, Interned, Mapped
  <2> QED BY <2>3, <2>5, IInvInit DEF RInv
<1>2. RInv /\ [Next]_vars => RInv'
  BY IInvStep, InternedStep DEF RInv
<1>3. RInv /\ [Next]_vars => [Abstract!INext]_(Abstract!ivars)
  <2> SUFFICES ASSUME RInv, [Next]_vars PROVE [Abstract!INext]_(Abstract!ivars)
    OBVIOUS
  <2>1. ASSUME NEW l \in Lookups, Step(l) PROVE [Abstract!INext]_(Abstract!ivars)
    BY <2>1, StepRefines
  <2>2. CASE (\E r \in Readers : Snapshot(r)) \/ Report \/ UNCHANGED vars
    <3>1. NoStep /\ UNCHANGED <<key, deny, allowed>> /\ Mapped = Told /\ Mapped' = Told'
      BY <2>2, OthersTell, MappedIsTold
    <3> QED BY <3>1 DEF NoStep, Abstract!ivars, Mapped, Interned
  <2> QED BY <2>1, <2>2 DEF Next, Step
<1> QED
  BY <1>1, <1>2, <1>3, PTL DEF Spec, ImplementsInterner, Abstract!ISpec
=============================================================================
