-------------------------- MODULE RateSamplerProofs --------------------------
(* When the windows of a RateSampler end and how much they let past, for any   *)
(* number of loggers, messages and limits.                                     *)
EXTENDS RateSampler, FiniteSetTheorems, WellFoundedInduction, TLAPS

(* Why: a logger never holds a time the clock has not reached, and what a      *)
(* clock loses when it is set back is in back.                                 *)
NoFuture ==
  /\ clock \in Nat /\ back \in Nat
  /\ now \in [Loggers -> Nat] /\ \A l \in Loggers : now[l] <= clock + back
  /\ resetAt \in [Counters -> Nat]
  /\ WindowsEnd

(* NoFuture is kept by every step: only TimePasses and SetBack move the clock, *)
(* only ReadClock a logger's time, and only SwapReset opens a window (inc).    *)
LEMMA NoFutureStep == NoFuture /\ [Next]_vars => NoFuture'
<1> SUFFICES ASSUME NoFuture, [Next]_vars PROVE NoFuture'
  OBVIOUS
<1>0. Tick \in Nat
  BY TimeAssumption
<1>1. CASE UNCHANGED vars
  BY <1>1 DEF NoFuture, WindowsEnd, vars, wall, counters, loggers
<1>2. CASE TimePasses
  <2>1. /\ clock' = clock + 1 /\ back' = back /\ now' = now /\ resetAt' = resetAt
    BY <1>2 DEF TimePasses, counters, loggers
  <2> QED
    BY <1>0, <2>1 DEF NoFuture, WindowsEnd
<1>2a. CASE SetBack
  <2>1. PICK d \in 1..clock : clock' = clock - d /\ back' = back + d
    BY <1>2a DEF SetBack
  <2>2. now' = now /\ resetAt' = resetAt
    BY <1>2a DEF SetBack, counters, loggers
  <2>3. clock' \in Nat /\ back' \in Nat /\ clock' + back' = clock + back
    BY <2>1 DEF NoFuture
  <2> QED
    BY <1>0, <2>2, <2>3 DEF NoFuture, WindowsEnd
<1>3. ASSUME NEW l \in Loggers, ReadClock(l) PROVE NoFuture'
  <2>1. /\ clock' = clock /\ back' = back /\ resetAt' = resetAt
        /\ now' = [now EXCEPT ![l] = clock]
    BY <1>3 DEF ReadClock, wall, counters
  <2> QED
    BY <2>1 DEF NoFuture, WindowsEnd
<1>4. ASSUME NEW l \in Loggers, SwapReset(l) PROVE NoFuture'
  <2>1. /\ clock' = clock /\ back' = back /\ now' = now
    BY <1>4 DEF SwapReset, wall
  <2>2. \/ resetAt' = resetAt
        \/ resetAt' = [resetAt EXCEPT ![at[l]] = now[l] + Tick]
    BY <1>4 DEF SwapReset, wall
  <2>3. now[l] \in Nat /\ now[l] <= clock + back
    BY DEF NoFuture
  <2> QED
    BY <1>0, <2>1, <2>2, <2>3 DEF NoFuture, WindowsEnd
<1>5. ASSUME NEW l \in Loggers,
             Sample(l) \/ LoadReset(l) \/ ResetCount(l) \/ AddOne(l)
      PROVE  NoFuture'
  <2>1. clock' = clock /\ back' = back /\ now' = now /\ resetAt' = resetAt
    BY <1>5 DEF Sample, LoadReset, ResetCount, AddOne, wall, counters
  <2> QED
    BY <2>1 DEF NoFuture, WindowsEnd
<1> QED
  BY <1>1, <1>2, <1>3, <1>4, <1>5, <1>2a DEF Next, Passing

(* No window ends more than a tick, and what the clock was set back, from now: *)
(* a sampler that has closed opens again (inc, log_sampler.go:87-100).         *)
THEOREM WindowsEndSoon == Spec => []WindowsEnd
<1>1. Init => NoFuture
  BY TimeAssumption DEF Init, NoFuture, WindowsEnd
<1>2. NoFuture => WindowsEnd
  BY DEF NoFuture
<1> QED
  BY <1>1, <1>2, NoFutureStep, PTL DEF Spec

-----------------------------------------------------------------------------
(* How much a window lets past.  Its budget is the limit, and one less for     *)
(* every time its count is put back to one.  Who can still do that is read off *)
(* the loggers: those about to do it from a look at an earlier window (Stale), *)
(* and those that did it because they found this one over and have not swapped *)
(* yet (Stuck).  No logger becomes Stale while the window is open, and none    *)
(* that is Stuck goes on before it is closed.                                  *)
N == Cardinality(Loggers)

Stale(k) == {l \in Loggers : at[l] = k /\ pc[l] = "reset" /\ seen[l] # resetAt[k]}
Stuck(k) == {l \in Loggers : at[l] = k /\ pc[l] = "swap" /\ seen[l] = resetAt[k]}

(* The loggers that will still add to the window without another look at the   *)
(* clock.                                                                      *)
Late(k) == {l \in Loggers :
              /\ at[l] = k
              /\ \/ pc[l] = "load" /\ now[l] < resetAt[k]
                 \/ pc[l] = "add"
                 \/ pc[l] \in {"reset", "swap"} /\ seen[l] # resetAt[k]}

Counted(k) == IF count[k] <= Limit[k] THEN count[k] ELSE Limit[k]

Typed ==
  /\ pc \in [Loggers -> {"idle", "clock", "load", "reset", "swap", "add"}]
  /\ at \in [Loggers -> Levels \cup {Global}]
  /\ seen \in [Loggers -> Nat]
  /\ count \in [Counters -> Nat] /\ admitted \in [Counters -> Nat]
  /\ \A l \in Loggers : pc[l] # "idle" => at[l] \in Counters

(* What a logger knows of a window is not newer than the window, and a window  *)
(* is opened with a count.                                                     *)
Looked(l) ==
  /\ pc[l] \in {"reset", "swap"} => seen[l] <= now[l] /\ seen[l] <= resetAt[at[l]]
  /\ pc[l] = "swap" => count[at[l]] >= 1

Budget(k) ==
  /\ admitted[k] <= Counted(k) + (Limit[k] - 1) * (N - 1 - Cardinality(Stale(k)))
                                + (Limit[k] - 1) * Cardinality(Stuck(k))
  /\ admitted[k] <= Limit[k] + 2 * (N - 1) * (Limit[k] - 1)

(* With a clock that only advances, a window that was found over stays over.   *)
Expired(k) ==
  back = 0 /\ Stuck(k) # {} => /\ resetAt[k] <= clock
                              /\ admitted[k] + Cardinality(Late(k)) <= N * Limit[k]

WInv == /\ NoFuture /\ Typed
        /\ \A l \in Loggers : Looked(l)
        /\ \A k \in Counters : Budget(k) /\ Expired(k)

-----------------------------------------------------------------------------
(* A set of positions in a list has a last one.                                *)
LEMMA LastPosition ==
  ASSUME NEW n \in Nat, NEW S \in SUBSET (1..n), S # {}
  PROVE  \E i \in S : \A j \in S : j <= i
<1> DEFINE T == {m \in Nat : n - m \in S}
<1>1. T \subseteq Nat /\ T # {}
  <2>1. PICK i \in S : TRUE
    OBVIOUS
  <2>2. n - i \in Nat /\ n - (n - i) = i
    OBVIOUS
  <2> QED BY <2>1, <2>2
<1>2. PICK m \in T : \A y \in T : ~(<<y, m>> \in OpToRel(<, Nat))
  BY <1>1, NatLessThanWellFounded, WFMin
<1>3. ASSUME NEW y \in T PROVE m <= y
  <2>1. y \in Nat /\ m \in Nat
    BY <1>1
  <2>2. y < m => <<y, m>> \in OpToRel(<, Nat)
    BY <2>1, Zenon DEF OpToRel
  <2>3. ~(y < m)
    BY <1>2, <2>2, Zenon
  <2> QED BY <2>1, <2>3
<1>4. \A j \in S : n - j \in T
  OBVIOUS
<1> QED BY <1>3, <1>4

(* parseLevelMessageLimits and NewRateSampler: a counter has a limit, of one   *)
(* message at least.                                                           *)
LEMMA LimitIsPositive == \A k \in Counters : Limit[k] \in Nat \ {0}
<1> SUFFICES ASSUME NEW k \in Counters PROVE Limit[k] \in Nat
  BY DEF Counters
<1>1. k \in Levels \cup {Global}
  BY DEF Counters
<1>2. CASE k = Global
  BY <1>1, <1>2, LimitAssumption DEF Limit
<1>3. CASE k # Global
  <2> DEFINE spec == MaxLevelMessagesPerSecond
             ok == {i \in DOMAIN spec : spec[i].level = k /\ spec[i].limit # Invalid}
  <2>1. Limit[k] = LevelLimit(k)
    BY <1>1, <1>3 DEF Limit
  <2>2. CASE ok = {}
    BY <2>1, <2>2 DEF LevelLimit
  <2>3. CASE ok # {}
    <3>1. Len(spec) \in Nat /\ ok \subseteq 1..Len(spec)
      BY LimitAssumption
    <3>2. \E i \in ok : \A j \in ok : j <= i
      <4> HIDE DEF ok, spec
      <4> QED BY <2>3, <3>1, LastPosition
    <3>3. PICK i \in ok : Limit[k] = spec[i].limit
      BY <2>1, <2>3, <3>2 DEF LevelLimit
    <3>4. spec[i] \in PartType /\ spec[i].limit # Invalid
      BY <3>3, LimitAssumption
    <3> QED BY <3>3, <3>4 DEF PartType
  <2> QED BY <2>2, <2>3
<1> QED BY <1>2, <1>3

(* The loggers at a point are finitely many.                                   *)
LEMMA LoggersCounted ==
  /\ N \in Nat \ {0}
  /\ \A S \in SUBSET Loggers :
       /\ IsFiniteSet(S) /\ Cardinality(S) \in Nat /\ Cardinality(S) <= N
       /\ \A l \in Loggers \ S : /\ Cardinality(S) <= N - 1
                                 /\ Cardinality(S \cup {l}) = Cardinality(S) + 1
       /\ \A l \in S : Cardinality(S \ {l}) = Cardinality(S) - 1
<1>1. N \in Nat \ {0}
  BY LoggersAssumption, FS_CardinalityType, FS_EmptySet DEF N
<1>2. \A S \in SUBSET Loggers : IsFiniteSet(S) /\ Cardinality(S) \in Nat /\ Cardinality(S) <= N
  BY LoggersAssumption, FS_Subset, FS_CardinalityType DEF N
<1>3. ASSUME NEW S \in SUBSET Loggers, NEW l \in Loggers \ S
      PROVE  Cardinality(S) <= N - 1 /\ Cardinality(S \cup {l}) = Cardinality(S) + 1
  <2>1. Cardinality(S \cup {l}) = Cardinality(S) + 1
    BY <1>2, FS_AddElement
  <2>2. Cardinality(S \cup {l}) <= N
    BY <1>2
  <2> QED BY <1>1, <1>2, <2>1, <2>2
<1>4. ASSUME NEW S \in SUBSET Loggers, NEW l \in S
      PROVE  Cardinality(S \ {l}) = Cardinality(S) - 1
  BY <1>2, FS_RemoveElement
<1> QED BY <1>1, <1>2, <1>3, <1>4

(* Two sets of loggers that differ in one at most.                             *)
LEMMA OneMoreOrLess ==
  ASSUME NEW S \in SUBSET Loggers, NEW T \in SUBSET Loggers, NEW l \in Loggers,
         S \ {l} = T \ {l}
  PROVE  /\ (l \in S <=> l \in T) => S = T
         /\ l \in S /\ l \notin T => Cardinality(T) = Cardinality(S) - 1
         /\ l \notin S /\ l \in T => Cardinality(T) = Cardinality(S) + 1
<1>1. (l \in S <=> l \in T) => S = T
  OBVIOUS
<1>2. l \in S /\ l \notin T => T = S \ {l}
  OBVIOUS
<1>3. l \notin S /\ l \in T => T = S \cup {l}
  OBVIOUS
<1> QED BY <1>1, <1>2, <1>3, LoggersCounted

(* What one logger does leaves the others where they are with regard to a      *)
(* window that stays open.                                                     *)
LEMMA OthersStay ==
  ASSUME NEW l \in Loggers, NEW k \in Counters, resetAt'[k] = resetAt[k],
         \A m \in Loggers \ {l} : /\ pc'[m] = pc[m] /\ at'[m] = at[m]
                                  /\ now'[m] = now[m] /\ seen'[m] = seen[m]
  PROVE  /\ Stale(k) \ {l} = Stale(k)' \ {l}
         /\ Stuck(k) \ {l} = Stuck(k)' \ {l}
         /\ Late(k) \ {l} = Late(k)' \ {l}
  BY DEF Stale, Stuck, Late

(* The sums.  L is a limit, n the number of loggers, a and c what a window has *)
(* let past and counted, s and t how many loggers are Stale and Stuck.         *)
LEMMA Sums ==
  ASSUME NEW L \in Nat \ {0}, NEW n \in Nat \ {0}, NEW a \in Nat,
         NEW c \in 0..L, NEW s \in 0..n, NEW t \in 0..n,
         a <= c + (L - 1) * (n - 1 - s) + (L - 1) * t
  PROVE  /\ t <= n - 1 => a <= L + 2 * (n - 1) * (L - 1)
         /\ t = 0 => a + (n - 1) <= n * L
         /\ s >= 1 => a <= 1 + (L - 1) * (n - 1 - (s - 1)) + (L - 1) * t
         /\ a <= 1 + (L - 1) * (n - 1 - s) + (L - 1) * (t + 1)
<1> DEFINE p == (L - 1) * (n - 1)
           x == (L - 1) * s
           y == (L - 1) * t
<1>1. p \in Nat /\ x \in Nat /\ y \in Nat
  OBVIOUS
<1>2. (L - 1) * (n - 1 - s) = p - x
  OBVIOUS
<1>3. (L - 1) * (n - 1 - (s - 1)) = p - x + (L - 1)
  OBVIOUS
<1>4. (L - 1) * (t + 1) = y + (L - 1)
  OBVIOUS
<1>5. n * L = p + (n - 1) + L
  OBVIOUS
<1>6. 2 * (n - 1) * (L - 1) = p + p
  OBVIOUS
<1>7. t <= n - 1 => y <= p
  OBVIOUS
<1>8. t = 0 => y = 0
  OBVIOUS
<1> HIDE DEF p, x, y
<1>9. a <= c + (p - x) + (L - 1) * t
  BY <1>2
<1>10. a <= c + (p - x) + y
  BY <1>9 DEF y
<1>11. y = (L - 1) * t
  BY DEF y
<1>a. t <= n - 1 => a <= L + 2 * (n - 1) * (L - 1)
  BY <1>1, <1>6, <1>7, <1>10
<1>b. t = 0 => a + (n - 1) <= n * L
  BY <1>1, <1>5, <1>8, <1>10
<1>c. s >= 1 => a <= 1 + (L - 1) * (n - 1 - (s - 1)) + (L - 1) * t
  BY <1>1, <1>3, <1>10, <1>11
<1>d. a <= 1 + (L - 1) * (n - 1 - s) + (L - 1) * (t + 1)
  BY <1>1, <1>2, <1>4, <1>10
<1> QED BY <1>a, <1>b, <1>c, <1>d

-----------------------------------------------------------------------------
(* A logger that goes on from a counter is idle, or about to read the clock    *)
(* for the global one (Admit, Drop, Enter).                                    *)
LEMMA GoingOn ==
  ASSUME Typed, NEW l \in Loggers, Admit(l) \/ Drop(l)
  PROVE  /\ pc' \in [Loggers -> {"idle", "clock", "load", "reset", "swap", "add"}]
         /\ at' \in [Loggers -> Levels \cup {Global}]
         /\ pc'[l] \in {"idle", "clock"}
         /\ pc'[l] = "clock" => at'[l] \in Counters
         /\ \A m \in Loggers \ {l} : pc'[m] = pc[m] /\ at'[m] = at[m]
  BY DEF Typed, Admit, Drop, Enter

(* Typed is kept by every step.                                                *)
LEMMA TypedStep == WInv /\ [Next]_vars => Typed'
<1> SUFFICES ASSUME WInv, [Next]_vars PROVE Typed'
  OBVIOUS
<1>0. Typed /\ NoFuture
  BY DEF WInv
<1>1. CASE UNCHANGED vars
  BY <1>0, <1>1 DEF Typed, vars, counters, loggers
<1>2. CASE TimePasses \/ SetBack
  BY <1>0, <1>2 DEF Typed, TimePasses, SetBack, counters, loggers
<1>3. ASSUME NEW l \in Loggers, Sample(l) PROVE Typed'
  <2>1. seen' = seen /\ count' = count /\ admitted' = admitted
    BY <1>3 DEF Sample, counters
  <2>2. PICK v \in Levels : IF v \in Exempt
                              THEN UNCHANGED <<pc, at>>
                              ELSE Enter(l, IF v \in Counters THEN v ELSE Global)
    BY <1>3 DEF Sample
  <2> QED
    BY <1>0, <2>1, <2>2 DEF Typed, Enter
<1>4. ASSUME NEW l \in Loggers, ReadClock(l) PROVE Typed'
  BY <1>0, <1>4 DEF Typed, ReadClock, Goto, counters
<1>5. ASSUME NEW l \in Loggers, LoadReset(l) PROVE Typed'
  <2>1. at[l] \in Counters /\ resetAt[at[l]] \in Nat
    BY <1>0, <1>5 DEF Typed, NoFuture, LoadReset, Goto
  <2> QED
    BY <1>0, <1>5, <2>1 DEF Typed, LoadReset, Goto, counters
<1>6. ASSUME NEW l \in Loggers, ResetCount(l) PROVE Typed'
  BY <1>0, <1>6 DEF Typed, ResetCount, Goto, counters
<1>7. ASSUME NEW l \in Loggers, SwapReset(l) PROVE Typed'
  <2>1. seen' = seen /\ count' = count
    BY <1>7 DEF SwapReset
  <2>2. CASE resetAt[at[l]] = seen[l]
    <3>1. Admit(l) /\ admitted' = [admitted EXCEPT ![at[l]] = 1]
      BY <1>7, <2>2 DEF SwapReset
    <3>2. admitted' \in [Counters -> Nat]
      BY <1>0, <3>1 DEF Typed
    <3> QED BY <1>0, <2>1, <3>1, <3>2, GoingOn DEF Typed
  <2>3. CASE resetAt[at[l]] # seen[l]
    BY <1>0, <1>7, <2>1, <2>3 DEF Typed, SwapReset
  <2> QED BY <2>2, <2>3
<1>8. ASSUME NEW l \in Loggers, AddOne(l) PROVE Typed'
  <2>1. seen' = seen /\ count' = [count EXCEPT ![at[l]] = @ + 1]
    BY <1>8 DEF AddOne
  <2>2. Admit(l) \/ Drop(l)
    BY <1>8 DEF AddOne
  <2>3. admitted' = admitted \/ admitted' = [admitted EXCEPT ![at[l]] = @ + 1]
    BY <1>8 DEF AddOne
  <2>4. at[l] \in Counters /\ count[at[l]] \in Nat /\ admitted[at[l]] \in Nat
    BY <1>0, <1>8 DEF Typed, AddOne
  <2>5. count' \in [Counters -> Nat]
    BY <1>0, <2>1, <2>4 DEF Typed
  <2>6. admitted' \in [Counters -> Nat]
    BY <1>0, <2>3, <2>4 DEF Typed
  <2> QED BY <1>0, <2>1, <2>2, <2>5, <2>6, GoingOn DEF Typed
<1> QED
  BY <1>1, <1>2, <1>3, <1>4, <1>5, <1>6, <1>7, <1>8 DEF Next, Passing

(* So is what the loggers know of the windows: a window is only replaced by a  *)
(* later one (SwapReset, log_sampler.go:91-94).                                *)
LEMMA LookedStep ==
  ASSUME WInv, [Next]_vars PROVE \A l \in Loggers : Looked(l)'
<1>0. Typed /\ NoFuture /\ \A m \in Loggers : Looked(m)
  BY DEF WInv
<1>00. Tick \in Nat \ {0}
  BY TimeAssumption
<1> SUFFICES ASSUME NEW m \in Loggers, pc'[m] \in {"reset", "swap"}
             PROVE  /\ seen'[m] <= now'[m] /\ seen'[m] <= resetAt'[at'[m]]
                    /\ pc'[m] = "swap" => count'[at'[m]] >= 1
  BY DEF Looked
<1>01. /\ pc[m] \in {"reset", "swap"} =>
             seen[m] <= now[m] /\ seen[m] <= resetAt[at[m]]
       /\ pc[m] = "swap" => count[at[m]] >= 1
       /\ pc[m] \in {"reset", "swap"} => at[m] \in Counters
       /\ seen[m] \in Nat /\ now[m] \in Nat
  BY <1>0 DEF Typed, NoFuture, Looked
<1>02. /\ \A k \in Counters : resetAt[k] \in Nat /\ count[k] \in Nat
  BY <1>0 DEF Typed, NoFuture
<1>1. CASE UNCHANGED vars
  BY <1>01, <1>1 DEF vars, counters, loggers
<1>2. CASE TimePasses \/ SetBack
  BY <1>01, <1>2 DEF TimePasses, SetBack, counters, loggers
<1>3. ASSUME NEW l \in Loggers, Sample(l)
      PROVE  /\ seen'[m] <= now'[m] /\ seen'[m] <= resetAt'[at'[m]]
             /\ pc'[m] = "swap" => count'[at'[m]] >= 1
  <2>1. seen' = seen /\ count' = count /\ now' = now /\ resetAt' = resetAt
    BY <1>3 DEF Sample, counters
  <2>2. PICK v \in Levels : IF v \in Exempt
                              THEN UNCHANGED <<pc, at>>
                              ELSE Enter(l, IF v \in Counters THEN v ELSE Global)
    BY <1>3 DEF Sample
  <2>3. pc'[m] = pc[m] /\ at'[m] = at[m]
    BY <1>0, <2>2 DEF Enter, Typed
  <2> QED BY <1>01, <2>1, <2>3
<1>4. ASSUME NEW l \in Loggers, ReadClock(l)
      PROVE  /\ seen'[m] <= now'[m] /\ seen'[m] <= resetAt'[at'[m]]
             /\ pc'[m] = "swap" => count'[at'[m]] >= 1
  <2>1. m # l /\ pc'[m] = pc[m] /\ now'[m] = now[m]
    BY <1>0, <1>4 DEF ReadClock, Goto, Typed, NoFuture
  <2> QED BY <1>01, <1>4, <2>1 DEF ReadClock, counters
<1>5. ASSUME NEW l \in Loggers, LoadReset(l)
      PROVE  /\ seen'[m] <= now'[m] /\ seen'[m] <= resetAt'[at'[m]]
             /\ pc'[m] = "swap" => count'[at'[m]] >= 1
  <2>1. /\ at' = at /\ now' = now /\ resetAt' = resetAt /\ count' = count
        /\ seen' = [seen EXCEPT ![l] = resetAt[at[l]]]
        /\ pc[l] = "load"
        /\ pc' = [pc EXCEPT ![l] = IF resetAt[at[l]] > now[l] THEN "add" ELSE "reset"]
    BY <1>5 DEF LoadReset, Goto, counters
  <2>2. CASE m = l
    <3>1. at[l] \in Counters
      BY <1>0, <2>1 DEF Typed
    <3>2. pc'[l] = "reset" /\ ~(resetAt[at[l]] > now[l]) /\ seen'[l] = resetAt[at[l]]
      BY <1>0, <2>1, <2>2 DEF Typed
    <3> QED BY <1>01, <1>02, <2>1, <2>2, <3>1, <3>2
  <2>3. CASE m # l
    <3>1. pc'[m] = pc[m] /\ seen'[m] = seen[m]
      BY <1>0, <2>1, <2>3 DEF Typed
    <3> QED BY <1>01, <2>1, <3>1
  <2> QED BY <2>2, <2>3
<1>6. ASSUME NEW l \in Loggers, ResetCount(l)
      PROVE  /\ seen'[m] <= now'[m] /\ seen'[m] <= resetAt'[at'[m]]
             /\ pc'[m] = "swap" => count'[at'[m]] >= 1
  <2>1. /\ at' = at /\ now' = now /\ resetAt' = resetAt /\ seen' = seen
        /\ count' = [count EXCEPT ![at[l]] = 1]
        /\ pc[l] = "reset" /\ pc' = [pc EXCEPT ![l] = "swap"]
    BY <1>6 DEF ResetCount, Goto
  <2>2. pc[m] \in {"reset", "swap"} /\ (m # l => pc'[m] = pc[m])
    BY <1>0, <2>1 DEF Typed
  <2>3. count'[at[m]] = 1 \/ (m # l /\ count'[at[m]] = count[at[m]])
    BY <1>0, <1>01, <2>1, <2>2 DEF Typed
  <2> QED BY <1>01, <1>02, <2>1, <2>2, <2>3
<1>7. ASSUME NEW l \in Loggers, SwapReset(l)
      PROVE  /\ seen'[m] <= now'[m] /\ seen'[m] <= resetAt'[at'[m]]
             /\ pc'[m] = "swap" => count'[at'[m]] >= 1
  <2>1. seen' = seen /\ count' = count /\ now' = now /\ pc[l] = "swap"
    BY <1>7 DEF SwapReset
  <2>2. CASE resetAt[at[l]] = seen[l]
    <3>1. Admit(l) /\ resetAt' = [resetAt EXCEPT ![at[l]] = now[l] + Tick]
      BY <1>7, <2>2 DEF SwapReset
    <3>2. m # l /\ pc'[m] = pc[m] /\ at'[m] = at[m]
      BY <1>0, <3>1, GoingOn
    <3>3. seen[l] <= now[l] /\ now[l] \in Nat /\ at[l] \in Counters
      BY <1>0, <2>1 DEF Looked, Typed, NoFuture
    <3>4. \/ resetAt'[at[m]] = resetAt[at[m]]
          \/ at[m] = at[l] /\ resetAt'[at[m]] = now[l] + Tick
      BY <1>0, <1>01, <3>1, <3>2 DEF NoFuture
    <3>5. seen[m] <= resetAt'[at[m]]
      BY <1>00, <1>01, <1>02, <2>2, <3>2, <3>3, <3>4
    <3> QED BY <1>01, <2>1, <3>2, <3>5
  <2>3. CASE resetAt[at[l]] # seen[l]
    <3>1. pc' = [pc EXCEPT ![l] = "add"] /\ resetAt' = resetAt /\ at' = at
      BY <1>7, <2>3 DEF SwapReset
    <3>2. m # l /\ pc'[m] = pc[m]
      BY <1>0, <3>1 DEF Typed
    <3> QED BY <1>01, <2>1, <3>1, <3>2
  <2> QED BY <2>2, <2>3
<1>8. ASSUME NEW l \in Loggers, AddOne(l)
      PROVE  /\ seen'[m] <= now'[m] /\ seen'[m] <= resetAt'[at'[m]]
             /\ pc'[m] = "swap" => count'[at'[m]] >= 1
  <2>1. /\ seen' = seen /\ now' = now /\ resetAt' = resetAt
        /\ count' = [count EXCEPT ![at[l]] = @ + 1]
    BY <1>8 DEF AddOne
  <2>2. Admit(l) \/ Drop(l)
    BY <1>8 DEF AddOne
  <2>3. m # l /\ pc'[m] = pc[m] /\ at'[m] = at[m]
    BY <1>0, <2>2, GoingOn
  <2>4. count'[at[m]] >= count[at[m]]
    BY <1>0, <1>01, <1>02, <2>1, <2>3 DEF Typed
  <2>5. pc[m] = "swap" => count'[at[m]] >= 1
    <3>1. at[m] \in Counters /\ count'[at[m]] \in Nat
      BY <1>0, <1>01, <1>02, <2>1, <2>3 DEF Typed
    <3> QED BY <1>01, <1>02, <2>4, <3>1
  <2> QED BY <1>01, <2>1, <2>3, <2>5
<1> QED
  BY <1>1, <1>2, <1>3, <1>4, <1>5, <1>6, <1>7, <1>8 DEF Next, Passing

-----------------------------------------------------------------------------
(* The numbers of a window.                                                    *)
LEMMA WindowNumbers ==
  ASSUME Typed, NEW k \in Counters
  PROVE  /\ Limit[k] \in Nat \ {0} /\ N \in Nat \ {0}
         /\ count[k] \in Nat /\ admitted[k] \in Nat /\ Counted(k) \in 0..Limit[k]
         /\ Stale(k) \in SUBSET Loggers /\ Stuck(k) \in SUBSET Loggers
         /\ Late(k) \in SUBSET Loggers
         /\ Cardinality(Stale(k)) \in 0..N /\ Cardinality(Stuck(k)) \in 0..N
         /\ Cardinality(Late(k)) \in 0..N
<1>1. Limit[k] \in Nat \ {0} /\ N \in Nat \ {0}
  BY LimitIsPositive, LoggersCounted
<1>2. count[k] \in Nat /\ admitted[k] \in Nat
  BY DEF Typed
<1>3. Counted(k) \in 0..Limit[k]
  BY <1>1, <1>2 DEF Counted
<1>4. /\ Stale(k) \in SUBSET Loggers /\ Stuck(k) \in SUBSET Loggers
      /\ Late(k) \in SUBSET Loggers
  BY DEF Stale, Stuck, Late
<1>5. \A S \in SUBSET Loggers : Cardinality(S) \in 0..N
  BY <1>1, LoggersCounted
<1> QED BY <1>1, <1>2, <1>3, <1>4, <1>5

(* A step that does not touch the window of a counter.                         *)
LEMMA WindowLeftAlone ==
  ASSUME NEW k \in Counters, Typed, NoFuture, NoFuture', Budget(k), Expired(k),
         Stale(k)' = Stale(k), Stuck(k)' = Stuck(k), Late(k)' = Late(k),
         resetAt'[k] = resetAt[k], count'[k] = count[k], admitted'[k] = admitted[k],
         back' = 0 => back = 0 /\ clock' >= clock
  PROVE  Budget(k)' /\ Expired(k)'
<1>1. Counted(k)' = Counted(k)
  BY DEF Counted
<1>2. Budget(k)'
  BY <1>1 DEF Budget
<1>3. Expired(k)'
  BY DEF Expired, NoFuture
<1> QED BY <1>2, <1>3

(* A logger at another counter, or at none, is in none of the three sets, nor  *)
(* is one that is about to read the clock.                                     *)
LEMMA Elsewhere ==
  ASSUME NEW l, NEW k
  PROVE  at[l] # k \/ pc[l] \in {"idle", "clock"} =>
           l \notin Stale(k) /\ l \notin Stuck(k) /\ l \notin Late(k)
  BY DEF Stale, Stuck, Late

(* A step of a logger that is in none of them, before and after.               *)
LEMMA StepElsewhere ==
  ASSUME NEW l \in Loggers, NEW k \in Counters, Typed, NoFuture, NoFuture', Budget(k), Expired(k),
         at[l] # k \/ pc[l] \in {"idle", "clock"},
         at'[l] # k \/ pc'[l] \in {"idle", "clock"},
         resetAt'[k] = resetAt[k], count'[k] = count[k], admitted'[k] = admitted[k],
         clock' = clock, back' = back,
         \A m \in Loggers \ {l} : /\ pc'[m] = pc[m] /\ at'[m] = at[m]
                                  /\ now'[m] = now[m] /\ seen'[m] = seen[m]
  PROVE  Budget(k)' /\ Expired(k)'
<1>1. l \notin Stale(k) /\ l \notin Stuck(k) /\ l \notin Late(k)
  BY Elsewhere
<1>2. l \notin Stale(k)' /\ l \notin Stuck(k)' /\ l \notin Late(k)'
  BY DEF Stale, Stuck, Late
<1>3. /\ Stale(k) \ {l} = Stale(k)' \ {l}
      /\ Stuck(k) \ {l} = Stuck(k)' \ {l}
      /\ Late(k) \ {l} = Late(k)' \ {l}
  BY OthersStay
<1>4. \A S, T : l \notin S /\ l \notin T /\ S \ {l} = T \ {l} => T = S
  OBVIOUS
<1>5. Stale(k)' = Stale(k) /\ Stuck(k)' = Stuck(k) /\ Late(k)' = Late(k)
  BY <1>1, <1>2, <1>3, <1>4
<1> QED BY <1>5, WindowLeftAlone DEF NoFuture

(* The steps one by one.  Time passes, or the clock is set back, which ends    *)
(* what Expired promises.                                                      *)
LEMMA WindowTime ==
  ASSUME NEW k \in Counters, WInv, NoFuture', TimePasses \/ SetBack \/ UNCHANGED vars
  PROVE  Budget(k)' /\ Expired(k)'
<1>1. Typed /\ NoFuture /\ Budget(k) /\ Expired(k)
  BY DEF WInv
<1>2. /\ pc' = pc /\ at' = at /\ now' = now /\ seen' = seen
      /\ resetAt' = resetAt /\ count' = count /\ admitted' = admitted
  BY DEF TimePasses, SetBack, vars, counters, loggers
<1>3. Stale(k)' = Stale(k) /\ Stuck(k)' = Stuck(k) /\ Late(k)' = Late(k)
  BY <1>2 DEF Stale, Stuck, Late
<1>4. back' = 0 => back = 0 /\ clock' >= clock
  <2>1. CASE TimePasses
    BY <1>1, <2>1 DEF TimePasses, NoFuture
  <2>2. CASE SetBack
    <3>1. PICK d \in 1..clock : back' = back + d
      BY <2>2 DEF SetBack
    <3> QED BY <1>1, <3>1 DEF NoFuture
  <2>3. CASE UNCHANGED vars
    BY <1>1, <2>3 DEF vars, wall, NoFuture
  <2> QED BY <2>1, <2>2, <2>3
<1> QED BY <1>1, <1>2, <1>3, <1>4, WindowLeftAlone

(* A message arrives.                                                          *)
LEMMA WindowSample ==
  ASSUME NEW k \in Counters, NEW l \in Loggers, WInv, NoFuture', Sample(l)
  PROVE  Budget(k)' /\ Expired(k)'
<1>1. Typed /\ NoFuture /\ Budget(k) /\ Expired(k)
  BY DEF WInv
<1>2. /\ now' = now /\ seen' = seen /\ clock' = clock /\ back' = back
      /\ resetAt' = resetAt /\ count' = count /\ admitted' = admitted
      /\ pc[l] = "idle"
  BY DEF Sample, counters, wall
<1>3. PICK v \in Levels : IF v \in Exempt
                            THEN UNCHANGED <<pc, at>>
                            ELSE Enter(l, IF v \in Counters THEN v ELSE Global)
  BY DEF Sample
<1>4. /\ pc'[l] \in {"idle", "clock"}
      /\ \A m \in Loggers \ {l} : pc'[m] = pc[m] /\ at'[m] = at[m]
  BY <1>1, <1>2, <1>3 DEF Enter, Typed
<1> QED BY <1>1, <1>2, <1>4, StepElsewhere

(* A look at the clock: a window that was found over is over for this logger   *)
(* too, unless the clock was set back.                                         *)
LEMMA WindowReadClock ==
  ASSUME NEW k \in Counters, NEW l \in Loggers, WInv, NoFuture', ReadClock(l)
  PROVE  Budget(k)' /\ Expired(k)'
<1>1. Typed /\ NoFuture /\ Budget(k) /\ Expired(k)
  BY DEF WInv
<1>2. /\ seen' = seen /\ at' = at /\ clock' = clock /\ back' = back
      /\ resetAt' = resetAt /\ count' = count /\ admitted' = admitted
      /\ pc[l] = "clock" /\ pc' = [pc EXCEPT ![l] = "load"]
      /\ now' = [now EXCEPT ![l] = clock]
  BY DEF ReadClock, Goto, counters, wall
<1>3. /\ pc'[l] = "load" /\ now'[l] = clock
      /\ \A m \in Loggers \ {l} : pc'[m] = pc[m] /\ now'[m] = now[m]
  BY <1>1, <1>2 DEF Typed, NoFuture
<1>4. l \notin Stale(k) /\ l \notin Stuck(k) /\ l \notin Late(k)
  BY <1>2, Elsewhere
<1>5. l \notin Stale(k)' /\ l \notin Stuck(k)'
  BY <1>3 DEF Stale, Stuck
<1>6. /\ Stale(k) \ {l} = Stale(k)' \ {l} /\ Stuck(k) \ {l} = Stuck(k)' \ {l}
      /\ Late(k) \ {l} = Late(k)' \ {l}
  BY <1>2, <1>3, OthersStay
<1>7. \A S, T : l \notin S /\ l \notin T /\ S \ {l} = T \ {l} => T = S
  OBVIOUS
<1>8. Stale(k)' = Stale(k) /\ Stuck(k)' = Stuck(k)
  BY <1>4, <1>5, <1>6, <1>7
<1>9. Budget(k)'
  <2>1. Counted(k)' = Counted(k)
    BY <1>2 DEF Counted
  <2> QED BY <1>1, <1>2, <1>8, <2>1 DEF Budget
<1>10. Expired(k)'
  <2> SUFFICES ASSUME back' = 0, Stuck(k)' # {}
               PROVE  /\ resetAt'[k] <= clock'
                      /\ admitted'[k] + Cardinality(Late(k)') <= N * Limit[k]
    BY DEF Expired, N
  <2>1. /\ resetAt[k] <= clock /\ admitted[k] + Cardinality(Late(k)) <= N * Limit[k]
        /\ resetAt[k] \in Nat /\ clock \in Nat
    BY <1>1, <1>2, <1>8 DEF Expired, NoFuture
  <2>2. ~(clock < resetAt[k])
    BY <2>1
  <2>3. l \notin Late(k)'
    BY <1>2, <1>3, <2>2 DEF Late
  <2>4. Late(k)' = Late(k)
    BY <1>4, <1>6, <1>7, <2>3
  <2> QED BY <1>2, <2>1, <2>4
<1> QED BY <1>9, <1>10

(* The load of resetAt: who finds the window open is Late before and after,    *)
(* who finds it over is in none of the sets.                                   *)
LEMMA WindowLoadReset ==
  ASSUME NEW k \in Counters, NEW l \in Loggers, WInv, NoFuture', LoadReset(l)
  PROVE  Budget(k)' /\ Expired(k)'
<1>1. Typed /\ NoFuture /\ Budget(k) /\ Expired(k)
  BY DEF WInv
<1>2. /\ now' = now /\ at' = at /\ clock' = clock /\ back' = back
      /\ resetAt' = resetAt /\ count' = count /\ admitted' = admitted
      /\ pc[l] = "load"
      /\ pc' = [pc EXCEPT ![l] = IF resetAt[at[l]] > now[l] THEN "add" ELSE "reset"]
      /\ seen' = [seen EXCEPT ![l] = resetAt[at[l]]]
  BY DEF LoadReset, Goto, counters, wall
<1>3. /\ pc'[l] = IF resetAt[at[l]] > now[l] THEN "add" ELSE "reset"
      /\ seen'[l] = resetAt[at[l]] /\ at[l] \in Counters
      /\ resetAt[at[l]] \in Nat /\ now[l] \in Nat
      /\ \A m \in Loggers \ {l} : pc'[m] = pc[m] /\ seen'[m] = seen[m]
  BY <1>1, <1>2 DEF Typed, NoFuture
<1>4. l \notin Stale(k) /\ l \notin Stuck(k)
  BY <1>2 DEF Stale, Stuck
<1>5. l \notin Stale(k)' /\ l \notin Stuck(k)'
  BY <1>2, <1>3 DEF Stale, Stuck
<1>6. l \in Late(k) <=> l \in Late(k)'
  BY <1>2, <1>3 DEF Late
<1>7. /\ Stale(k) \ {l} = Stale(k)' \ {l} /\ Stuck(k) \ {l} = Stuck(k)' \ {l}
      /\ Late(k) \ {l} = Late(k)' \ {l}
  BY <1>2, <1>3, OthersStay
<1>8. \A S, T : (l \in S <=> l \in T) /\ S \ {l} = T \ {l} => T = S
  OBVIOUS
<1>9. Stale(k)' = Stale(k) /\ Stuck(k)' = Stuck(k) /\ Late(k)' = Late(k)
  BY <1>4, <1>5, <1>6, <1>7, <1>8
<1> QED BY <1>1, <1>2, <1>9, WindowLeftAlone DEF NoFuture

(* The count is put back to one: by a Stale logger, which there is then one    *)
(* less of, or by one that found this window over and becomes Stuck.           *)
LEMMA WindowResetCount ==
  ASSUME NEW k \in Counters, NEW l \in Loggers, WInv, NoFuture', ResetCount(l)
  PROVE  Budget(k)' /\ Expired(k)'
<1>1. Typed /\ NoFuture /\ Budget(k) /\ Expired(k) /\ Looked(l)
  BY DEF WInv
<1>2. /\ now' = now /\ at' = at /\ clock' = clock /\ back' = back
      /\ resetAt' = resetAt /\ seen' = seen /\ admitted' = admitted
      /\ pc[l] = "reset" /\ pc' = [pc EXCEPT ![l] = "swap"]
      /\ count' = [count EXCEPT ![at[l]] = 1]
  BY DEF ResetCount, Goto, wall
<1>3. /\ pc'[l] = "swap" /\ at[l] \in Counters
      /\ \A m \in Loggers \ {l} : pc'[m] = pc[m]
  BY <1>1, <1>2 DEF Typed
<1>4. CASE at[l] # k
  <2>1. count'[k] = count[k]
    BY <1>1, <1>2, <1>4 DEF Typed
  <2> QED BY <1>1, <1>2, <1>3, <1>4, <2>1, StepElsewhere
<1>5. CASE at[l] = k
  <2>1. count'[k] = 1
    BY <1>1, <1>2, <1>3, <1>5 DEF Typed
  <2>2. /\ Limit[k] \in Nat \ {0} /\ N \in Nat \ {0}
        /\ admitted[k] \in Nat /\ Counted(k) \in 0..Limit[k]
        /\ Stale(k) \in SUBSET Loggers /\ Stuck(k) \in SUBSET Loggers
        /\ Late(k) \in SUBSET Loggers
        /\ Cardinality(Stale(k)) \in 0..N /\ Cardinality(Stuck(k)) \in 0..N
    BY <1>1, WindowNumbers
  <2>3. Counted(k)' = 1
    BY <2>1, <2>2 DEF Counted
  <2>4. /\ Stale(k) \ {l} = Stale(k)' \ {l} /\ Stuck(k) \ {l} = Stuck(k)' \ {l}
        /\ Late(k) \ {l} = Late(k)' \ {l}
    BY <1>2, <1>3, OthersStay
  <2>5. /\ Stale(k)' \in SUBSET Loggers /\ Stuck(k)' \in SUBSET Loggers
        /\ Late(k)' \in SUBSET Loggers
    BY DEF Stale, Stuck, Late
  <2>6. l \notin Stuck(k) /\ l \notin Stale(k)'
    BY <1>2, <1>3 DEF Stale, Stuck
  <2>7. l \in Late(k) <=> l \in Late(k)'
    BY <1>2, <1>3 DEF Late
  <2>8. Late(k)' = Late(k)
    BY <2>2, <2>4, <2>5, <2>7, OneMoreOrLess
  <2>9. \A s, t \in 0..N :
          /\ admitted[k] <= Counted(k) + (Limit[k] - 1) * (N - 1 - s) + (Limit[k] - 1) * t
          => /\ t = 0 => admitted[k] + (N - 1) <= N * Limit[k]
             /\ s >= 1 => admitted[k] <= 1 + (Limit[k] - 1) * (N - 1 - (s - 1))
                                           + (Limit[k] - 1) * t
             /\ admitted[k] <= 1 + (Limit[k] - 1) * (N - 1 - s) + (Limit[k] - 1) * (t + 1)
    BY <2>2, Sums
  <2>10. /\ admitted[k] <= Counted(k) + (Limit[k] - 1) * (N - 1 - Cardinality(Stale(k)))
                             + (Limit[k] - 1) * Cardinality(Stuck(k))
         /\ admitted[k] <= Limit[k] + 2 * (N - 1) * (Limit[k] - 1)
    BY <1>1 DEF Budget
  <2>11. CASE seen[l] # resetAt[k]
    <3>1. l \in Stale(k) /\ l \notin Stuck(k)'
      BY <1>2, <1>5, <2>11 DEF Stale, Stuck
    <3>2. Stuck(k)' = Stuck(k) /\ Cardinality(Stale(k)') = Cardinality(Stale(k)) - 1
      <4>1. Stuck(k)' = Stuck(k)
        BY <2>2, <2>4, <2>5, <2>6, <3>1, OneMoreOrLess
      <4>2. Cardinality(Stale(k)') = Cardinality(Stale(k)) - 1
        BY <2>2, <2>4, <2>5, <2>6, <3>1, OneMoreOrLess
      <4> QED BY <4>1, <4>2
    <3>3. Cardinality(Stale(k)) >= 1
      <4>1. Cardinality(Stale(k)') \in 0..N
        BY <2>2, <2>5, LoggersCounted
      <4> QED BY <2>2, <3>2, <4>1
    <3>4. Budget(k)'
      BY <1>2, <2>2, <2>3, <2>9, <2>10, <3>2, <3>3 DEF Budget, N
    <3>5. Expired(k)'
      BY <1>1, <1>2, <2>8, <3>2 DEF Expired, N
    <3> QED BY <3>4, <3>5
  <2>12. CASE seen[l] = resetAt[k]
    <3>1. l \notin Stale(k) /\ l \in Stuck(k)' /\ l \notin Late(k)
      BY <1>2, <1>3, <1>5, <2>12 DEF Stale, Stuck, Late
    <3>2. Stale(k)' = Stale(k) /\ Cardinality(Stuck(k)') = Cardinality(Stuck(k)) + 1
      <4>1. Stale(k)' = Stale(k)
        BY <2>2, <2>4, <2>5, <2>6, <3>1, OneMoreOrLess
      <4>2. Cardinality(Stuck(k)') = Cardinality(Stuck(k)) + 1
        BY <2>2, <2>4, <2>5, <2>6, <3>1, OneMoreOrLess
      <4> QED BY <4>1, <4>2
    <3>3. Budget(k)'
      BY <1>2, <2>2, <2>3, <2>9, <2>10, <3>2 DEF Budget, N
    <3>4. Expired(k)'
      <4> SUFFICES ASSUME back = 0
                   PROVE  /\ resetAt[k] <= clock
                          /\ admitted[k] + Cardinality(Late(k)) <= N * Limit[k]
        BY <1>2, <2>8 DEF Expired, N
      <4>1. resetAt[k] <= clock
        BY <1>1, <1>2, <1>5, <2>12 DEF Looked, NoFuture
      <4>2. CASE Stuck(k) # {}
        BY <1>1, <4>2 DEF Expired
      <4>3. CASE Stuck(k) = {}
        <5>1. Cardinality(Stuck(k)) = 0
          BY <4>3, FS_EmptySet
        <5>2. admitted[k] + (N - 1) <= N * Limit[k]
          BY <2>2, <2>9, <2>10, <5>1
        <5>3. Cardinality(Late(k)) <= N - 1 /\ Cardinality(Late(k)) \in Nat
          BY <2>2, <3>1, LoggersCounted
        <5>4. N * Limit[k] \in Nat
          BY <2>2
        <5> QED BY <2>2, <4>1, <5>2, <5>3, <5>4
      <4> QED BY <4>1, <4>2, <4>3
    <3> QED BY <3>3, <3>4
  <2> QED BY <2>11, <2>12
<1> QED BY <1>4, <1>5

(* The swap: a new window, with one message past it, no logger Stuck and the   *)
(* opener not Stale; or a logger that goes on Late.                            *)
LEMMA WindowSwapReset ==
  ASSUME NEW k \in Counters, NEW l \in Loggers, WInv, Typed', NoFuture', SwapReset(l)
  PROVE  Budget(k)' /\ Expired(k)'
<1>1. Typed /\ NoFuture /\ Budget(k) /\ Expired(k) /\ \A m \in Loggers : Looked(m)
  BY DEF WInv
<1>0. Tick \in Nat \ {0}
  BY TimeAssumption
<1>2. /\ now' = now /\ seen' = seen /\ count' = count
      /\ clock' = clock /\ back' = back /\ pc[l] = "swap"
  BY DEF SwapReset, wall
<1>3. at[l] \in Counters
  BY <1>1, <1>2 DEF Typed
<1>4. CASE resetAt[at[l]] = seen[l]
  <2>1. /\ Admit(l) /\ admitted' = [admitted EXCEPT ![at[l]] = 1]
        /\ resetAt' = [resetAt EXCEPT ![at[l]] = now[l] + Tick]
    BY <1>4 DEF SwapReset
  <2>2. /\ pc'[l] \in {"idle", "clock"}
        /\ \A m \in Loggers \ {l} : pc'[m] = pc[m] /\ at'[m] = at[m]
    BY <1>1, <2>1, GoingOn
  <2>3. CASE at[l] # k
    <3>1. admitted'[k] = admitted[k] /\ resetAt'[k] = resetAt[k]
      BY <1>1, <2>1, <2>3 DEF Typed, NoFuture
    <3> QED BY <1>1, <1>2, <2>2, <2>3, <3>1, StepElsewhere
  <2>4. CASE at[l] = k
    <3>1. admitted'[k] = 1 /\ resetAt'[k] = now[l] + Tick
      BY <1>1, <1>3, <2>1, <2>4 DEF Typed, NoFuture
    <3>2. /\ seen[l] <= now[l] /\ now[l] \in Nat /\ seen[l] \in Nat /\ resetAt[k] = seen[l]
          /\ count[k] >= 1 /\ count[k] \in Nat
      BY <1>1, <1>2, <1>4, <2>4 DEF Looked, Typed, NoFuture
    <3>3. resetAt[k] < resetAt'[k] /\ resetAt[k] \in Nat /\ resetAt'[k] \in Nat
      BY <1>0, <3>1, <3>2
    <3>4. Stuck(k)' = {}
      <4> SUFFICES ASSUME NEW m \in Loggers, at'[m] = k, pc'[m] = "swap",
                          seen[m] = resetAt'[k]
                   PROVE  FALSE
        BY <1>2 DEF Stuck
      <4>1. m # l /\ at[m] = k /\ pc[m] = "swap"
        BY <2>2
      <4>2. seen[m] <= resetAt[k]
        BY <1>1, <4>1 DEF Looked
      <4> QED BY <3>3, <4>2
    <3>5. l \notin Stale(k)'
      BY <2>2 DEF Stale
    <3>6. Stale(k)' \in SUBSET Loggers
      BY DEF Stale
    <3>7. Cardinality(Stale(k)') \in 0..(N - 1) /\ N \in Nat \ {0}
      <4>1. N \in Nat \ {0} /\ Cardinality(Stale(k)') \in Nat
        BY <3>6, LoggersCounted
      <4>2. Cardinality(Stale(k)') <= N - 1
        BY <3>5, <3>6, LoggersCounted
      <4> QED BY <4>1, <4>2
    <3>8. Limit[k] \in Nat \ {0}
      BY LimitIsPositive
    <3>9. Counted(k)' \in Nat \ {0}
      BY <1>2, <3>2, <3>8 DEF Counted
    <3>10. \A s \in 0..(N - 1) : (Limit[k] - 1) * (N - 1 - s) \in Nat
      BY <3>7, <3>8
    <3>11. 2 * (N - 1) * (Limit[k] - 1) \in Nat
      BY <3>7, <3>8
    <3>12. (Limit[k] - 1) * Cardinality(Stuck(k)') = 0
      <4>1. Cardinality(Stuck(k)') = 0
        BY <3>4, FS_EmptySet
      <4> QED BY <3>8, <4>1
    <3>13. (Limit[k] - 1) * (N - 1 - Cardinality(Stale(k)')) \in Nat
      BY <3>7, <3>10
    <3>14. 1 <= Counted(k)' + (Limit[k] - 1) * (N - 1 - Cardinality(Stale(k)')) + 0
      BY <3>9, <3>13
    <3>15. 1 <= Limit[k] + 2 * (N - 1) * (Limit[k] - 1)
      BY <3>8, <3>11
    <3>16. Budget(k)'
      BY <3>1, <3>12, <3>14, <3>15 DEF Budget, N
    <3>17. Expired(k)'
      BY <3>4 DEF Expired
    <3> QED BY <3>16, <3>17
  <2> QED BY <2>3, <2>4
<1>5. CASE resetAt[at[l]] # seen[l]
  <2>1. /\ pc' = [pc EXCEPT ![l] = "add"] /\ resetAt' = resetAt /\ at' = at
        /\ admitted' = admitted
    BY <1>5 DEF SwapReset
  <2>2. pc'[l] = "add" /\ \A m \in Loggers \ {l} : pc'[m] = pc[m]
    BY <1>1, <2>1 DEF Typed
  <2>3. /\ l \notin Stale(k) /\ l \notin Stuck(k)
        /\ l \notin Stale(k)' /\ l \notin Stuck(k)'
    BY <1>2, <1>5, <2>2 DEF Stale, Stuck
  <2>4. l \in Late(k) <=> l \in Late(k)'
    BY <1>2, <1>5, <2>1, <2>2 DEF Late
  <2>5. /\ Stale(k) \ {l} = Stale(k)' \ {l} /\ Stuck(k) \ {l} = Stuck(k)' \ {l}
        /\ Late(k) \ {l} = Late(k)' \ {l}
    BY <1>2, <2>1, <2>2, OthersStay
  <2>6. \A S, T : (l \in S <=> l \in T) /\ S \ {l} = T \ {l} => T = S
    OBVIOUS
  <2>7. Stale(k)' = Stale(k) /\ Stuck(k)' = Stuck(k) /\ Late(k)' = Late(k)
    BY <2>3, <2>4, <2>5, <2>6
  <2> QED BY <1>1, <1>2, <2>1, <2>7, WindowLeftAlone DEF NoFuture
<1> QED BY <1>4, <1>5

(* One more in the count, and past the counter if the count allows it; the     *)
(* logger was Late, and not Stuck.                                             *)
LEMMA WindowAddOne ==
  ASSUME NEW k \in Counters, NEW l \in Loggers, WInv, Typed', NoFuture', AddOne(l)
  PROVE  Budget(k)' /\ Expired(k)'
<1>1. Typed /\ NoFuture /\ Budget(k) /\ Expired(k)
  BY DEF WInv
<1>2. /\ now' = now /\ seen' = seen /\ resetAt' = resetAt
      /\ clock' = clock /\ back' = back /\ pc[l] = "add"
      /\ count' = [count EXCEPT ![at[l]] = @ + 1]
      /\ Admit(l) \/ Drop(l)
  BY DEF AddOne, wall
<1>3. at[l] \in Counters
  BY <1>1, <1>2 DEF Typed
<1>4. /\ pc'[l] \in {"idle", "clock"}
      /\ \A m \in Loggers \ {l} : pc'[m] = pc[m] /\ at'[m] = at[m]
  BY <1>1, <1>2, GoingOn
<1>5. \/ admitted' = admitted
      \/ /\ admitted' = [admitted EXCEPT ![at[l]] = @ + 1]
         /\ ~(count'[at[l]] > Limit[at[l]])
  BY DEF AddOne
<1>6. CASE at[l] # k
  <2>1. count'[k] = count[k] /\ admitted'[k] = admitted[k]
    BY <1>1, <1>2, <1>5, <1>6 DEF Typed
  <2> QED BY <1>1, <1>2, <1>4, <1>6, <2>1, StepElsewhere
<1>7. CASE at[l] = k
  <2>1. /\ Limit[k] \in Nat \ {0} /\ N \in Nat \ {0}
        /\ count[k] \in Nat /\ admitted[k] \in Nat
        /\ Stale(k) \in SUBSET Loggers /\ Stuck(k) \in SUBSET Loggers
        /\ Late(k) \in SUBSET Loggers
        /\ Cardinality(Stale(k)) \in 0..N /\ Cardinality(Stuck(k)) \in 0..N
        /\ Cardinality(Late(k)) \in 0..N
    BY <1>1, WindowNumbers
  <2>2. /\ count'[k] = count[k] + 1
        /\ \/ admitted'[k] = admitted[k]
           \/ admitted'[k] = admitted[k] + 1 /\ ~(count'[k] > Limit[k])
    BY <1>1, <1>2, <1>3, <1>5, <1>7 DEF Typed
  <2>3. /\ Counted(k)' \in 0..Limit[k] /\ Counted(k) \in 0..Limit[k]
        /\ admitted'[k] - admitted[k] <= Counted(k)' - Counted(k)
        /\ admitted'[k] \in Nat
    BY <2>1, <2>2 DEF Counted
  <2>4. /\ l \notin Stale(k) /\ l \notin Stuck(k) /\ l \in Late(k)
        /\ l \notin Stale(k)' /\ l \notin Stuck(k)' /\ l \notin Late(k)'
    BY <1>2, <1>4, <1>7 DEF Stale, Stuck, Late
  <2>5. /\ Stale(k) \ {l} = Stale(k)' \ {l} /\ Stuck(k) \ {l} = Stuck(k)' \ {l}
        /\ Late(k) \ {l} = Late(k)' \ {l}
    BY <1>2, <1>4, OthersStay
  <2>6. /\ Stale(k)' \in SUBSET Loggers /\ Stuck(k)' \in SUBSET Loggers
        /\ Late(k)' \in SUBSET Loggers
    BY DEF Stale, Stuck, Late
  <2>7. /\ Stale(k)' = Stale(k) /\ Stuck(k)' = Stuck(k)
        /\ Cardinality(Late(k)') = Cardinality(Late(k)) - 1
    <3>1. Stale(k)' = Stale(k)
      BY <2>1, <2>4, <2>5, <2>6, OneMoreOrLess
    <3>2. Stuck(k)' = Stuck(k)
      BY <2>1, <2>4, <2>5, <2>6, OneMoreOrLess
    <3>3. Cardinality(Late(k)') = Cardinality(Late(k)) - 1
      BY <2>1, <2>4, <2>5, <2>6, OneMoreOrLess
    <3> QED BY <3>1, <3>2, <3>3
  <2>8. Cardinality(Stuck(k)) <= N - 1
    BY <2>1, <2>4, LoggersCounted
  <2>9. admitted[k] <= Counted(k) + (Limit[k] - 1) * (N - 1 - Cardinality(Stale(k)))
                         + (Limit[k] - 1) * Cardinality(Stuck(k))
    BY <1>1 DEF Budget
  <2>10. /\ (Limit[k] - 1) * (N - 1 - Cardinality(Stale(k))) \in Int
         /\ (Limit[k] - 1) * Cardinality(Stuck(k)) \in Int
    BY <2>1
  <2>11. admitted'[k] <= Counted(k)' + (Limit[k] - 1) * (N - 1 - Cardinality(Stale(k)))
                           + (Limit[k] - 1) * Cardinality(Stuck(k))
    BY <2>1, <2>3, <2>9, <2>10
  <2>12. admitted'[k] <= Limit[k] + 2 * (N - 1) * (Limit[k] - 1)
    BY <2>1, <2>3, <2>8, <2>11, Sums
  <2>13. Budget(k)'
    BY <2>7, <2>11, <2>12 DEF Budget, N
  <2>14. Expired(k)'
    <3> SUFFICES ASSUME back = 0, Stuck(k) # {}
                 PROVE  /\ resetAt[k] <= clock
                        /\ admitted'[k] + (Cardinality(Late(k)) - 1) <= N * Limit[k]
      BY <1>2, <2>7 DEF Expired, N
    <3>1. resetAt[k] <= clock /\ admitted[k] + Cardinality(Late(k)) <= N * Limit[k]
      BY <1>1 DEF Expired
    <3>2. N * Limit[k] \in Nat
      BY <2>1
    <3> QED BY <2>1, <2>2, <3>1, <3>2
  <2> QED BY <2>13, <2>14
<1> QED BY <1>6, <1>7

-----------------------------------------------------------------------------
(* The invariant holds at the start, before any window is open.                 *)
LEMMA WInvInit == Init => WInv
<1> SUFFICES ASSUME Init PROVE WInv
  OBVIOUS
<1>1. NoFuture /\ Typed
  BY TimeAssumption DEF Init, NoFuture, WindowsEnd, Typed
<1>2. ASSUME NEW l \in Loggers PROVE Looked(l)
  BY DEF Init, Looked
<1>3. ASSUME NEW k \in Counters PROVE Budget(k) /\ Expired(k)
  <2>1. Stale(k) = {} /\ Stuck(k) = {} /\ admitted[k] = 0 /\ Counted(k) \in Nat
    <3>1. Limit[k] \in Nat
      BY LimitIsPositive
    <3> QED BY <3>1 DEF Init, Stale, Stuck, Counted
  <2>2. Cardinality(Stale(k)) = 0 /\ Cardinality(Stuck(k)) = 0
    BY <2>1, FS_EmptySet
  <2>3. Limit[k] \in Nat \ {0} /\ N \in Nat \ {0}
    BY LimitIsPositive, LoggersCounted
  <2>4. /\ (Limit[k] - 1) * (N - 1 - 0) \in Nat /\ (Limit[k] - 1) * 0 = 0
        /\ 2 * (N - 1) * (Limit[k] - 1) \in Nat
    BY <2>3
  <2>5. Budget(k)
    BY <2>1, <2>2, <2>3, <2>4 DEF Budget
  <2> QED BY <2>1, <2>5 DEF Expired
<1> QED BY <1>1, <1>2, <1>3 DEF WInv

(* Every step keeps it.                                                        *)
LEMMA WInvStep == WInv /\ [Next]_vars => WInv'
<1> SUFFICES ASSUME WInv, [Next]_vars PROVE WInv'
  OBVIOUS
<1>1. NoFuture' /\ Typed' /\ \A l \in Loggers : Looked(l)'
  BY NoFutureStep, TypedStep, LookedStep DEF WInv
<1>2. ASSUME NEW k \in Counters PROVE Budget(k)' /\ Expired(k)'
  <2>1. CASE TimePasses \/ SetBack \/ UNCHANGED vars
    BY <1>1, <2>1, WindowTime
  <2>2. ASSUME NEW l \in Loggers, Sample(l) PROVE Budget(k)' /\ Expired(k)'
    BY <1>1, <2>2, WindowSample
  <2>3. ASSUME NEW l \in Loggers, ReadClock(l) PROVE Budget(k)' /\ Expired(k)'
    BY <1>1, <2>3, WindowReadClock
  <2>4. ASSUME NEW l \in Loggers, LoadReset(l) PROVE Budget(k)' /\ Expired(k)'
    BY <1>1, <2>4, WindowLoadReset
  <2>5. ASSUME NEW l \in Loggers, ResetCount(l) PROVE Budget(k)' /\ Expired(k)'
    BY <1>1, <2>5, WindowResetCount
  <2>6. ASSUME NEW l \in Loggers, SwapReset(l) PROVE Budget(k)' /\ Expired(k)'
    BY <1>1, <2>6, WindowSwapReset
  <2>7. ASSUME NEW l \in Loggers, AddOne(l) PROVE Budget(k)' /\ Expired(k)'
    BY <1>1, <2>7, WindowAddOne
  <2> QED
    BY <2>1, <2>2, <2>3, <2>4, <2>5, <2>6, <2>7 DEF Next, Passing
<1>3. \A k \in Counters : Budget(k)' /\ Expired(k)'
  BY <1>2
<1> QED BY <1>1, <1>3 DEF WInv

(* No window lets past more than its limit and what the races of inc can add   *)
(* to it, however many loggers share the counter, whatever the limit and       *)
(* however far the clock is set back (inc, log_sampler.go:87-100).             *)
THEOREM WindowsBounded == Spec => []WindowBounded
<1>1. WInv => WindowBounded
  <2> SUFFICES ASSUME WInv, NEW k \in Counters
               PROVE  /\ admitted[k] <= Limit[k] + 2 * (N - 1) * (Limit[k] - 1)
                      /\ back = 0 => admitted[k] <= N * Limit[k]
    BY DEF WindowBounded, N
  <2>1. Typed /\ Budget(k) /\ Expired(k)
    BY DEF WInv
  <2>2. /\ Limit[k] \in Nat \ {0} /\ N \in Nat \ {0} /\ admitted[k] \in Nat
        /\ Counted(k) \in 0..Limit[k] /\ Cardinality(Stale(k)) \in 0..N
        /\ Cardinality(Stuck(k)) \in 0..N /\ Cardinality(Late(k)) \in 0..N
        /\ N * Limit[k] \in Nat
    BY <2>1, WindowNumbers
  <2>3. CASE Stuck(k) # {} /\ back = 0
    <3>1. admitted[k] + Cardinality(Late(k)) <= N * Limit[k]
      BY <2>1, <2>3 DEF Expired
    <3> QED BY <2>1, <2>2, <3>1 DEF Budget
  <2>4. CASE Stuck(k) = {}
    <3>1. Cardinality(Stuck(k)) = 0
      BY <2>4, FS_EmptySet
    <3>2. admitted[k] <= Counted(k) + (Limit[k] - 1) * (N - 1 - Cardinality(Stale(k)))
                           + (Limit[k] - 1) * Cardinality(Stuck(k))
      BY <2>1 DEF Budget
    <3>3. \A s, t \in 0..N :
            /\ admitted[k] <= Counted(k) + (Limit[k] - 1) * (N - 1 - s) + (Limit[k] - 1) * t
            /\ t = 0
            => admitted[k] + (N - 1) <= N * Limit[k]
      BY <2>2, Sums
    <3>4. admitted[k] + (N - 1) <= N * Limit[k]
      BY <2>2, <3>1, <3>2, <3>3
    <3> QED BY <2>1, <2>2, <3>4 DEF Budget
  <2> QED BY <2>1, <2>3, <2>4 DEF Budget
<1> QED
  BY <1>1, WInvInit, WInvStep, PTL DEF Spec

(* A sampler that one goroutine logs through, and one whose limits are one,    *)
(* caps what log_sampler.go:18 says it caps, however its clock is set: the     *)
(* overshoot is that of a race for a count above one.                          *)
THEOREM CappedWithoutRace ==
  ASSUME Cardinality(Loggers) = 1 \/ \A k \in Counters : Limit[k] = 1
  PROVE  Spec => []WindowCapped
<1>1. WInv /\ WindowBounded => WindowCapped
  <2> SUFFICES ASSUME WInv, WindowBounded, NEW k \in Counters PROVE admitted[k] <= Limit[k]
    BY DEF WindowCapped
  <2>1. Limit[k] \in Nat /\ N \in Nat /\ admitted[k] \in Nat
    BY WindowNumbers DEF WInv
  <2>2. admitted[k] <= Limit[k] + 2 * (N - 1) * (Limit[k] - 1)
    BY DEF WindowBounded, N
  <2>3. N = 1 \/ Limit[k] = 1
    BY DEF N
  <2>4. 2 * (N - 1) * (Limit[k] - 1) = 0
    BY <2>1, <2>3
  <2> QED BY <2>1, <2>2, <2>4
<1> QED BY <1>1, WindowsBounded, WInvInit, WInvStep, PTL DEF Spec

(* Every step keeps the types: no window ends after the clock's last instant   *)
(* and a tick, and no logger holds a time or a count outside its range.        *)
LEMMA TypeStep == WInv /\ TypeOK /\ [Next]_vars => TypeOK'
<1> SUFFICES ASSUME WInv, TypeOK, [Next]_vars PROVE TypeOK'
  OBVIOUS
<1>0. Typed /\ Typed' /\ NoFuture
  BY TypedStep DEF WInv
<1>1. /\ Tick \in Nat /\ MaxTime \in Nat /\ MaxBack \in Nat /\ Messages \in Nat
  BY TimeAssumption
<1> SUFFICES /\ clock' \in 0..MaxTime /\ back' \in 0..MaxBack
             /\ resetAt' \in [Counters -> Times]
             /\ left' \in [Loggers -> 0..Messages]
             /\ now' \in [Loggers -> 0..MaxTime]
             /\ seen' \in [Loggers -> Times]
  BY <1>0 DEF TypeOK, Typed
<1>2. /\ clock \in 0..MaxTime /\ back \in 0..MaxBack
      /\ resetAt \in [Counters -> Times]
      /\ left \in [Loggers -> 0..Messages]
      /\ now \in [Loggers -> 0..MaxTime]
      /\ seen \in [Loggers -> Times]
  BY DEF TypeOK
<1>3. CASE UNCHANGED vars
  BY <1>2, <1>3 DEF vars, wall, counters, loggers
<1>4. CASE TimePasses
  BY <1>1, <1>2, <1>4 DEF TimePasses, counters, loggers
<1>5. CASE SetBack
  <2>1. PICK d \in 1..clock : back + d <= MaxBack /\ clock' = clock - d /\ back' = back + d
    BY <1>5 DEF SetBack
  <2>2. clock' \in 0..MaxTime /\ back' \in 0..MaxBack
    BY <1>1, <1>2, <2>1
  <2> QED BY <1>2, <1>5, <2>2 DEF SetBack, counters, loggers
<1>6. ASSUME NEW l \in Loggers, Sample(l)
      PROVE  /\ clock' \in 0..MaxTime /\ back' \in 0..MaxBack
             /\ resetAt' \in [Counters -> Times]
             /\ left' \in [Loggers -> 0..Messages]
             /\ now' \in [Loggers -> 0..MaxTime]
             /\ seen' \in [Loggers -> Times]
  <2>1. left' = [left EXCEPT ![l] = @ - 1] /\ left[l] > 0
    BY <1>6 DEF Sample
  <2>2. left' \in [Loggers -> 0..Messages]
    BY <1>1, <1>2, <2>1
  <2> QED BY <1>2, <1>6, <2>2 DEF Sample, wall, counters
<1>7. ASSUME NEW l \in Loggers, ReadClock(l)
      PROVE  /\ clock' \in 0..MaxTime /\ back' \in 0..MaxBack
             /\ resetAt' \in [Counters -> Times]
             /\ left' \in [Loggers -> 0..Messages]
             /\ now' \in [Loggers -> 0..MaxTime]
             /\ seen' \in [Loggers -> Times]
  BY <1>2, <1>7 DEF ReadClock, wall, counters
<1>8. ASSUME NEW l \in Loggers, LoadReset(l)
      PROVE  /\ clock' \in 0..MaxTime /\ back' \in 0..MaxBack
             /\ resetAt' \in [Counters -> Times]
             /\ left' \in [Loggers -> 0..Messages]
             /\ now' \in [Loggers -> 0..MaxTime]
             /\ seen' \in [Loggers -> Times]
  <2>1. at[l] \in Counters
    BY <1>0, <1>8 DEF LoadReset, Goto, Typed
  <2> QED BY <1>2, <1>8, <2>1 DEF LoadReset, wall, counters
<1>9. ASSUME NEW l \in Loggers, SwapReset(l)
      PROVE  /\ clock' \in 0..MaxTime /\ back' \in 0..MaxBack
             /\ resetAt' \in [Counters -> Times]
             /\ left' \in [Loggers -> 0..Messages]
             /\ now' \in [Loggers -> 0..MaxTime]
             /\ seen' \in [Loggers -> Times]
  <2>1. resetAt' = resetAt \/ resetAt' = [resetAt EXCEPT ![at[l]] = now[l] + Tick]
    BY <1>9 DEF SwapReset
  <2>2. now[l] + Tick \in Times
    BY <1>1, <1>2 DEF Times
  <2>3. resetAt' \in [Counters -> Times]
    BY <1>2, <2>1, <2>2
  <2> QED BY <1>2, <1>9, <2>3 DEF SwapReset, wall
<1>10. ASSUME NEW l \in Loggers, ResetCount(l) \/ AddOne(l)
      PROVE  /\ clock' \in 0..MaxTime /\ back' \in 0..MaxBack
             /\ resetAt' \in [Counters -> Times]
             /\ left' \in [Loggers -> 0..Messages]
             /\ now' \in [Loggers -> 0..MaxTime]
             /\ seen' \in [Loggers -> Times]
  BY <1>2, <1>10 DEF ResetCount, AddOne, wall
<1> QED
  BY <1>3, <1>4, <1>5, <1>6, <1>7, <1>8, <1>9, <1>10 DEF Next, Passing

(* The types of the sampler's state hold for any clock, limits and loggers.    *)
THEOREM TypeCorrect == Spec => []TypeOK
<1>1. Init => TypeOK
  BY TimeAssumption DEF Init, TypeOK, Times
<1> QED
  BY <1>1, TypeStep, WInvInit, WInvStep, PTL DEF Spec
=============================================================================
