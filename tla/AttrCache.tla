------------------------------ MODULE AttrCache ------------------------------
(* The interning cache of label sets (metric.go) and the counters of its       *)
(* cardinality detector (cardinality.go), as concurrent calls of AddWith*,     *)
(* RecordWith* and Snapshot see them.  Every element of Lookups is one call of *)
(* lookup, lookup2 or lookup3, every element of Readers one Snapshot.          *)
(*                                                                             *)
(* A key is a sequence of one to three labels, which is also what keeps the    *)
(* three maps of a shard apart; the hash is the constant ShardOf.  A cached    *)
(* entry is determined by its key and never changes, so the maps are one set.  *)
EXTENDS Integers, Sequences, FiniteSets

CONSTANTS Lookups, Readers,
          Labels, Empty,   \* label values, "" among them
          Keys,            \* the keys looked up, sequences of labels
          Calls,           \* [l] the keys the lookups are called with, any of these
          ShardOf,         \* [k] shardIndex, shardIndex2, shardIndex3
          NShards,         \* attrCacheShards
          Show,            \* [k] the key as one string: its labels joined by "|"
          MaxEntries,
          Settings,        \* the caches explored: denyUnknown, allowed, the
                           \* detector and its WarnUtilizationPct as configured
          Nobody           \* the holder of a free shard lock

ASSUME LookupsAssumption == IsFiniteSet(Lookups)
ASSUME KeysAssumption == Keys \subseteq (UNION {[1..n -> Labels] : n \in 1..3})
ASSUME CallsAssumption == Calls \subseteq [Lookups -> Keys]
ASSUME ShardAssumption == /\ NShards \in Nat \ {0}
                          /\ ShardOf \in [Keys -> 1..NShards]
ASSUME MaxAssumption == MaxEntries \in Nat \ {0}
ASSUME NobodyAssumption == Nobody \notin Lookups
ASSUME SettingsAssumption ==
  Settings \subseteq [deny: BOOLEAN, allowed: SUBSET Labels, counting: BOOLEAN, warnPct: Int]

VARIABLES
  deny,       \* denyUnknown
  allowed,    \* the set behind the pointer allowed
  counting,   \* the cache has a detector
  warnPct,    \* its WarnUtilizationPct
  cached,     \* the keys in the maps of all shards
  size,       \* the atomic size
  lock,       \* [shard] the lookup that holds its write lock
  noted,      \* denyOnce: the strings already reported
  counters,   \* the detector's records, overflows and denied
  logged,     \* the warnings its reports have logged
  pc, key, seen, answer,   \* [l] a lookup: where it is, its key, the size it read
  view        \* [r] what a Snapshot has read so far

config == <<deny, allowed, counting, warnPct>>
detector == <<counters, logged>>
lookup == <<pc, key, seen, answer>>
vars == <<config, cached, size, lock, noted, detector, lookup, view>>

LookupPC == {"idle", "denied", "observeDenied", "read", "lock", "check", "load",
             "cas", "miss", "insert", "missFull", "overflow", "done"}
NoView == [at |-> 0, len |-> 0, subjects |-> {}, records |-> 0, overflows |-> 0,
           denied |-> 0]

TypeOK ==
  /\ deny \in BOOLEAN /\ counting \in BOOLEAN /\ warnPct \in 0..100
  /\ logged \subseteq {"high", "limit"}
  /\ allowed \subseteq Labels
  /\ cached \subseteq Keys
  /\ size \in 0..MaxEntries
  /\ lock \in [1..NShards -> Lookups \cup {Nobody}]
  /\ noted \subseteq {Show[k] : k \in Keys}
  /\ counters \in [records: Nat, overflows: Nat, denied: Nat]
  /\ pc \in [Lookups -> LookupPC]
  /\ key \in [Lookups -> Keys]
  /\ seen \in [Lookups -> 0..MaxEntries]
  /\ answer \in [Lookups -> {"none", "denied", "entry", "overflow"}]
  /\ view \in [Readers -> [at: 0..(NShards + 4), len: 0..MaxEntries,
                           subjects: SUBSET Keys, records: Nat, overflows: Nat,
                           denied: Nat]]

(* A slip the properties below exclude: the percentage as it was configured.   *)
Unclamped(pct) == pct

(* newCardinalityDetector: a percentage outside 0..100 is brought inside.      *)
Clamp(pct) == IF pct < 0 THEN 0 ELSE IF pct > 100 THEN 100 ELSE pct

(* The utilization of n entries in percent, as integer division has it.        *)
Utilization(n) == (n * 100) \div MaxEntries

(* newAttrCache, SetDenyUnknown, Allow and SetDetector before the cache is     *)
(* published (a list without deny is inert, so it is left out); a lookup is    *)
(* given its key by its caller.                                                *)
Init ==
  /\ \E s \in Settings : /\ deny = s.deny /\ allowed = s.allowed
                          /\ counting = s.counting /\ warnPct = Clamp(s.warnPct)
  /\ cached = {} /\ size = 0 /\ noted = {}
  /\ lock = [i \in 1..NShards |-> Nobody]
  /\ counters = [records |-> 0, overflows |-> 0, denied |-> 0] /\ logged = {}
  /\ pc = [l \in Lookups |-> "idle"]
  /\ key \in Calls
  /\ seen = [l \in Lookups |-> 0]
  /\ answer = [l \in Lookups |-> "none"]
  /\ view = [r \in Readers |-> NoView]

-----------------------------------------------------------------------------
Goto(l, from, to) == pc[l] = from /\ pc' = [pc EXCEPT ![l] = to]
Return(l, from, a) == Goto(l, from, "done") /\ answer' = [answer EXCEPT ![l] = a]

Shard(l) == ShardOf[key[l]]
Free(i) == lock[i] = Nobody
Unlock(l) == lock' = [lock EXCEPT ![Shard(l)] = Nobody]
Bump(field) == counters' = [counters EXCEPT ![field] = IF counting THEN @ + 1 ELSE @]

(* A slip the properties below exclude: the empty label checked like any other.*)
AllowedStrict(k) == ~deny \/ \A i \in DOMAIN k : k[i] \in allowed

(* isAllowed: the empty label passes, and no list at all allows nothing.       *)
Allowed(k) == ~deny \/ /\ allowed # {}
                       /\ \A i \in DOMAIN k : k[i] # Empty => k[i] \in allowed
-----------------------------------------------------------------------------
(* Slips the properties below exclude.                                         *)

(* An insertion without the second look under the write lock.                  *)
NoRecheck(l) ==
  /\ Goto(l, "check", "load")
  /\ UNCHANGED <<config, cached, size, lock, noted, detector, key, seen, answer, view>>

(* A slot taken by adding one to the size instead of by compare-and-swap.      *)
AddSlot(l) ==
  /\ Goto(l, "cas", "miss")
  /\ size' = size + 1
  /\ UNCHANGED <<config, cached, lock, noted, detector, key, seen, answer, view>>

(* An overflow answered without giving the lock back.                          *)
OverflowLocked(l) ==
  /\ Return(l, "overflow", "overflow")
  /\ Bump("overflows")
  /\ UNCHANGED <<config, logged, cached, size, lock, noted, key, seen, view>>

(* A denied lookup counted every time.                                         *)
NoteEvery(l) ==
  /\ Goto(l, "denied", "observeDenied")
  /\ noted' = noted \cup {Show[key[l]]}
  /\ UNCHANGED <<config, cached, size, lock, detector, key, seen, answer, view>>

(* Only overflows counted as misses.                                           *)
ObserveOverflowOnly(l) ==
  /\ \/ Goto(l, "miss", "insert") /\ UNCHANGED counters
     \/ Goto(l, "missFull", "overflow") /\ Bump("records")
  /\ UNCHANGED <<config, logged, cached, size, lock, noted, key, seen, answer, view>>

(* A capacity that is one too small.                                           *)
LoadSizeShort(l) ==
  /\ Goto(l, "load", IF size + 1 >= MaxEntries THEN "missFull" ELSE "cas")
  /\ seen' = [seen EXCEPT ![l] = size]
  /\ UNCHANGED <<config, cached, size, lock, noted, detector, key, answer, view>>
-----------------------------------------------------------------------------
(* lookup*: allowed or denied.                                                 *)
Begin(l) ==
  /\ Goto(l, "idle", IF Allowed(key[l]) THEN "read" ELSE "denied")
  /\ UNCHANGED <<config, cached, size, lock, noted, detector, key, seen, answer, view>>

(* noteDenied: LoadOrStore lets only the first denial of a string through.     *)
NoteDenied(l) ==
  /\ IF Show[key[l]] \in noted THEN Return(l, "denied", "denied")
                               ELSE Goto(l, "denied", "observeDenied") /\ UNCHANGED answer
  /\ noted' = noted \cup {Show[key[l]]}
  /\ UNCHANGED <<config, cached, size, lock, detector, key, seen, view>>

ObserveDenied(l) ==
  /\ Return(l, "observeDenied", "denied")
  /\ Bump("denied")
  /\ UNCHANGED <<config, logged, cached, size, lock, noted, key, seen, view>>

(* entry*: the map read under RLock, which a writer of the shard excludes.     *)
FastRead(l) ==
  /\ Free(Shard(l))
  /\ IF key[l] \in cached THEN Return(l, "read", "entry")
                          ELSE Goto(l, "read", "lock") /\ UNCHANGED answer
  /\ UNCHANGED <<config, cached, size, lock, noted, detector, key, seen, view>>

Acquire(l) ==
  /\ Goto(l, "lock", "check")
  /\ Free(Shard(l))
  /\ lock' = [lock EXCEPT ![Shard(l)] = l]
  /\ UNCHANGED <<config, cached, size, noted, detector, key, seen, answer, view>>

(* The second look, under the write lock.                                      *)
Recheck(l) ==
  /\ IF key[l] \in cached THEN Return(l, "check", "entry") /\ Unlock(l)
                          ELSE Goto(l, "check", "load") /\ UNCHANGED <<answer, lock>>
  /\ UNCHANGED <<config, cached, size, noted, detector, key, seen, view>>

(* reserveSlot: the size is read, and taken by compare-and-swap or read again. *)
LoadSize(l) ==
  /\ Goto(l, "load", IF size >= MaxEntries THEN "missFull" ELSE "cas")
  /\ seen' = [seen EXCEPT ![l] = size]
  /\ UNCHANGED <<config, cached, size, lock, noted, detector, key, answer, view>>

Reserve(l) ==
  /\ Goto(l, "cas", IF size = seen[l] THEN "miss" ELSE "load")
  /\ size' = IF size = seen[l] THEN size + 1 ELSE size
  /\ UNCHANGED <<config, cached, lock, noted, detector, key, seen, answer, view>>

(* ObserveMiss: records first, then overflows.                                 *)
ObserveMiss(l) ==
  /\ Goto(l, "miss", "insert") \/ Goto(l, "missFull", "overflow")
  /\ Bump("records")
  /\ UNCHANGED <<config, logged, cached, size, lock, noted, key, seen, answer, view>>

Insert(l) ==
  /\ Return(l, "insert", "entry")
  /\ cached' = cached \cup {key[l]}
  /\ Unlock(l)
  /\ UNCHANGED <<config, size, noted, detector, key, seen, view>>

Overflow(l) ==
  /\ Return(l, "overflow", "overflow")
  /\ Bump("overflows")
  /\ Unlock(l)
  /\ UNCHANGED <<config, logged, cached, size, noted, key, seen, view>>

-----------------------------------------------------------------------------
(* Snapshot: Len, then the shards one after another under RLock, then the      *)
(* counters, each a load of its own.                                           *)
At(r, n) == view[r].at = n

ReadLen(r) ==
  /\ At(r, 0)
  /\ view' = [view EXCEPT ![r].at = 1, ![r].len = size]

ReadShard(r) ==
  /\ view[r].at \in 1..NShards
  /\ Free(view[r].at)
  /\ view' = [view EXCEPT ![r].at = @ + 1,
                          ![r].subjects = @ \cup {k \in cached : ShardOf[k] = view[r].at}]

ReadRecords(r) ==
  /\ At(r, NShards + 1)
  /\ view' = [view EXCEPT ![r].at = @ + 1, ![r].records = counters.records]

ReadOverflows(r) ==
  /\ At(r, NShards + 2)
  /\ view' = [view EXCEPT ![r].at = @ + 1, ![r].overflows = counters.overflows]

ReadDenied(r) ==
  /\ At(r, NShards + 3)
  /\ view' = [view EXCEPT ![r].at = @ + 1, ![r].denied = counters.denied]

Snapshot(r) ==
  /\ \/ ReadLen(r) \/ ReadShard(r)
     \/ ReadRecords(r) \/ ReadOverflows(r) \/ ReadDenied(r)
  /\ UNCHANGED <<config, cached, size, lock, noted, detector, lookup>>

-----------------------------------------------------------------------------
(* report, at a tick of the detector's goroutine: one size for both warnings.  *)
Report ==
  /\ counting
  /\ logged' = logged \cup
       {w \in {"high"} : warnPct > 0 /\ Utilization(size) >= warnPct} \cup
       {w \in {"limit"} : size >= MaxEntries}
  /\ UNCHANGED <<config, cached, size, lock, noted, counters, lookup, view>>

-----------------------------------------------------------------------------
LookupStep(l) ==
  \/ NoteDenied(l) \/ ObserveDenied(l) \/ FastRead(l) \/ Acquire(l) \/ Recheck(l)
  \/ LoadSize(l) \/ Reserve(l) \/ ObserveMiss(l) \/ Insert(l) \/ Overflow(l)

Next == \/ \E l \in Lookups : Begin(l) \/ LookupStep(l)
        \/ \E r \in Readers : Snapshot(r)
        \/ Report

Spec == Init /\ [][Next]_vars

(* A lookup that has begun keeps running, and so does a Snapshot; a Go mutex   *)
(* is handed on, so no goroutine waits for ever for one that is released.      *)
FairSpec == Spec /\ (\A l \in Lookups : WF_vars(LookupStep(l)))
                 /\ (\A r \in Readers : WF_vars(Snapshot(r)))

-----------------------------------------------------------------------------
Reserved == {l \in Lookups : pc[l] \in {"miss", "insert"}}
Answered(a) == {l \in Lookups : answer[l] = a}
InFlight(points) == {l \in Lookups : pc[l] \in points}

(* The atomic size counts the cached keys and the slots on their way into a    *)
(* map, each for a key of its own, whatever the shards: no two lookups insert  *)
(* the same key, and no slot is lost (metric.go:274-289, 361-379).             *)
SizeIsExact ==
  /\ size = Cardinality(cached) + Cardinality(Reserved)
  /\ \A l \in Reserved : key[l] \notin cached
  /\ \A l, m \in Reserved : key[l] = key[m] => l = m

(* The overflow entry is answered only when the cache is full, and then for    *)
(* good: the key never gets an entry afterwards, so one label set is never     *)
(* recorded under both (metric.go:281-283, 364-370).                           *)
OverflowIsFinal ==
  \A l \in Answered("overflow") : size = MaxEntries /\ key[l] \notin cached

(* The detector's counters say what happened once the calls in flight are      *)
(* counted in: every insertion and overflow is one miss, every overflow one    *)
(* overflow, every denied string one denial (cardinality.go:86-107).           *)
CountersAgree ==
  counting =>
    /\ counters.overflows = Cardinality(Answered("overflow"))
    /\ counters.records = Cardinality(cached) + Cardinality(InFlight({"insert", "overflow"}))
                             + counters.overflows
    /\ counters.denied + Cardinality(InFlight({"observeDenied"})) = Cardinality(noted)

(* A Snapshot never lists more subjects than the cache may hold nor, because a *)
(* miss is counted before its key is inserted and read after the shards, more  *)
(* than the misses it reports (cardinality.go:198-216).                        *)
SnapshotCounted ==
  \A r \in Readers :
    /\ view[r].subjects \subseteq cached
    /\ Cardinality(view[r].subjects) <= MaxEntries
    /\ counting /\ view[r].at > NShards + 1
         => Cardinality(view[r].subjects) <= view[r].records

(* What a report has warned of stays true, and is warned of in full: whoever   *)
(* was told that the limit is reached was told of a high utilization too, for  *)
(* every percentage that is configured, and the cache is at least that full    *)
(* (cardinality.go:45-51, 131-158).                                            *)
WarningsHold ==
  /\ "limit" \in logged => size = MaxEntries /\ (warnPct > 0 => "high" \in logged)
  /\ "high" \in logged => size * 100 >= warnPct * MaxEntries

(* Lookups return: the compare-and-swap loop ends and every shard lock is      *)
(* released, so a Snapshot ends too (metric.go:274-289, 361-379, 400-413).     *)
CacheCallsReturn ==
  /\ \A l \in Lookups : pc[l] # "idle" ~> pc[l] = "done"
  /\ \A r \in Readers : view[r].at > 0 ~> view[r].at = NShards + 4

(* The answers are those of a cache without concurrency: a key is interned at  *)
(* its compare-and-swap, and every call is answered at one instant between its *)
(* beginning and its end.                                                      *)
Abstract == INSTANCE Interner WITH
  interned <- cached \cup {key[l] : l \in Reserved},
  told <- [l \in Lookups |-> IF pc[l] \in {"denied", "observeDenied"} THEN "denied"
                             ELSE IF l \in Reserved THEN "entry"
                             ELSE IF pc[l] \in {"missFull", "overflow"} THEN "overflow"
                             ELSE answer[l]]

ImplementsInterner == Abstract!ISpec
=============================================================================
