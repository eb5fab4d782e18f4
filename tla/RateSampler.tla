----------------------------- MODULE RateSampler -----------------------------
(* The RateSampler of log_sampler.go, one atomic operation a step.  A message  *)
(* passes the counter of its level, if that is limited, and then the global    *)
(* one, if there is one.  Every element of Loggers is a goroutine that logs    *)
(* Messages messages, one after another.  The clock is the wall clock, which   *)
(* the machine's owner may set back.                                           *)
EXTENDS Integers, FiniteSets, Sequences

CONSTANTS Loggers,
          Levels,     \* the levels of the messages
          Exempt,     \* those below debug and from fatal up
          Global,     \* the name of the global counter
          MaxMessagesPerSecond,        \* Config.MaxMessagesPerSecond
          MaxLevelMessagesPerSecond,   \* its per-level list, a sequence of parts
          Invalid,    \* a level or a number that does not parse
          Tick,       \* logSamplerTick
          MaxTime,    \* bound: the clock stops there
          MaxBack,    \* bound: how far the clock is set back in all
          Messages    \* bound: the messages of a logger

(* One "level=number" of the list; a part without "=" has neither.             *)
PartType == [level: Levels \cup {Invalid}, limit: Nat \cup {Invalid}]

ASSUME LoggersAssumption == IsFiniteSet(Loggers) /\ Loggers # {}
ASSUME LevelAssumption == Exempt \subseteq Levels /\ Global \notin Levels
ASSUME LimitAssumption ==
  /\ MaxMessagesPerSecond \in Int
  /\ MaxLevelMessagesPerSecond \in Seq(PartType)
  /\ Invalid \notin Levels \cup Nat
ASSUME TimeAssumption == Tick \in Nat \ {0} /\ MaxTime \in Nat /\ MaxBack \in Nat
                         /\ Messages \in Nat

-----------------------------------------------------------------------------
(* parseLevelMessageLimits: a part that does not parse is skipped, the last    *)
(* one of a level wins, and 0 is no limit.                                     *)
LevelLimit(v) ==
  LET spec == MaxLevelMessagesPerSecond
      ok == {i \in DOMAIN spec : spec[i].level = v /\ spec[i].limit # Invalid}
  IN  IF ok = {} THEN 0 ELSE spec[CHOOSE i \in ok : \A j \in ok : j <= i].limit

(* NewRateSampler: a negative global limit is none.                            *)
Limit == [k \in Levels \cup {Global} |->
            IF k # Global THEN LevelLimit(k)
            ELSE IF MaxMessagesPerSecond > 0 THEN MaxMessagesPerSecond ELSE 0]

(* Sample skips the exempt levels, logSamplerIndex those it has no counter for. *)
Counters == {k \in (Levels \ Exempt) \cup {Global} : Limit[k] > 0}

VARIABLES
  clock,        \* time.Now().UnixNano()
  back,         \* how far the clock has been set back so far
  resetAt,      \* [k] the end of the counter's window
  count,        \* [k]
  pc, left,          \* [l] where a logger is, the messages it has left
  at, now, seen,     \* [l] the counter it increments, the time and resetAt it read
  admitted      \* history: [k] the messages let past since its window opened

counters == <<resetAt, count>>
loggers == <<pc, left, at, now, seen>>
wall == <<clock, back>>
vars == <<wall, counters, loggers, admitted>>

Times == 0..(MaxTime + Tick)

TypeOK ==
  /\ clock \in 0..MaxTime /\ back \in 0..MaxBack
  /\ resetAt \in [Counters -> Times]
  /\ count \in [Counters -> Nat]
  /\ pc \in [Loggers -> {"idle", "clock", "load", "reset", "swap", "add"}]
  /\ left \in [Loggers -> 0..Messages]
  /\ at \in [Loggers -> Levels \cup {Global}]
  /\ now \in [Loggers -> 0..MaxTime]
  /\ seen \in [Loggers -> Times]
  /\ admitted \in [Counters -> Nat]

Init ==
  /\ clock = 0 /\ back = 0
  /\ resetAt = [k \in Counters |-> 0]
  /\ count = [k \in Counters |-> 0]
  /\ pc = [l \in Loggers |-> "idle"]
  /\ left = [l \in Loggers |-> Messages]
  /\ at = [l \in Loggers |-> Global]
  /\ now = [l \in Loggers |-> 0]
  /\ seen = [l \in Loggers |-> 0]
  /\ admitted = [k \in Counters |-> 0]

-----------------------------------------------------------------------------
Goto(l, from, to) == pc[l] = from /\ pc' = [pc EXCEPT ![l] = to]

(* On to the counter k, if there is one, or past the sampler.                  *)
Enter(l, k) ==
  /\ pc' = [pc EXCEPT ![l] = IF k \in Counters THEN "clock" ELSE "idle"]
  /\ at' = [at EXCEPT ![l] = k]

(* Past the counter it is at: from a level to the global one.                  *)
Admit(l) ==
  /\ IF at[l] = Global THEN pc' = [pc EXCEPT ![l] = "idle"] /\ UNCHANGED at
                       ELSE Enter(l, Global)

Drop(l) == pc' = [pc EXCEPT ![l] = "idle"] /\ UNCHANGED at

-----------------------------------------------------------------------------
(* Slips the properties below exclude.                                         *)

(* A new window's count that leaves out the message that opens it.             *)
ResetToZero(l) ==
  /\ Goto(l, "reset", "swap")
  /\ count' = [count EXCEPT ![at[l]] = 0]
  /\ UNCHANGED <<wall, resetAt, left, at, now, seen, admitted>>

(* The window pushed on by a tick instead of by compare-and-swap.              *)
PushReset(l) ==
  /\ pc[l] = "swap"
  /\ resetAt' = [resetAt EXCEPT ![at[l]] = @ + Tick]
  /\ admitted' = [admitted EXCEPT ![at[l]] = 1]
  /\ Admit(l)
  /\ UNCHANGED <<wall, count, left, now, seen>>

(* A message judged by the count before it.                                    *)
AddOld(l) ==
  /\ pc[l] = "add"
  /\ count' = [count EXCEPT ![at[l]] = @ + 1]
  /\ IF count[at[l]] > Limit[at[l]]
       THEN Drop(l) /\ UNCHANGED admitted
       ELSE Admit(l) /\ admitted' = [admitted EXCEPT ![at[l]] = @ + 1]
  /\ UNCHANGED <<wall, resetAt, left, now, seen>>
-----------------------------------------------------------------------------
(* Sample: an exempt message passes at once, one of an unlimited level goes    *)
(* straight to the global counter.                                             *)
Sample(l) ==
  /\ pc[l] = "idle" /\ left[l] > 0
  /\ left' = [left EXCEPT ![l] = @ - 1]
  /\ \E v \in Levels : IF v \in Exempt
                        THEN UNCHANGED <<pc, at>>
                        ELSE Enter(l, IF v \in Counters THEN v ELSE Global)
  /\ UNCHANGED <<wall, counters, now, seen, admitted>>

(* inc                                                                         *)
ReadClock(l) ==
  /\ Goto(l, "clock", "load")
  /\ now' = [now EXCEPT ![l] = clock]
  /\ UNCHANGED <<wall, counters, left, at, seen, admitted>>

LoadReset(l) ==
  /\ Goto(l, "load", IF resetAt[at[l]] > now[l] THEN "add" ELSE "reset")
  /\ seen' = [seen EXCEPT ![l] = resetAt[at[l]]]
  /\ UNCHANGED <<wall, counters, left, at, now, admitted>>

ResetCount(l) ==
  /\ Goto(l, "reset", "swap")
  /\ count' = [count EXCEPT ![at[l]] = 1]
  /\ UNCHANGED <<wall, resetAt, left, at, now, seen, admitted>>

(* The swap opens a window with this message, or someone else has opened it.   *)
SwapReset(l) ==
  /\ pc[l] = "swap"
  /\ IF resetAt[at[l]] = seen[l]
       THEN /\ resetAt' = [resetAt EXCEPT ![at[l]] = now[l] + Tick]
            /\ admitted' = [admitted EXCEPT ![at[l]] = 1]
            /\ Admit(l)
       ELSE pc' = [pc EXCEPT ![l] = "add"] /\ UNCHANGED <<resetAt, at, admitted>>
  /\ UNCHANGED <<wall, count, left, now, seen>>

AddOne(l) ==
  /\ pc[l] = "add"
  /\ count' = [count EXCEPT ![at[l]] = @ + 1]
  /\ IF count'[at[l]] > Limit[at[l]]
       THEN Drop(l) /\ UNCHANGED admitted
       ELSE Admit(l) /\ admitted' = [admitted EXCEPT ![at[l]] = @ + 1]
  /\ UNCHANGED <<wall, resetAt, left, now, seen>>

Passing(l) == ReadClock(l) \/ LoadReset(l) \/ ResetCount(l) \/ SwapReset(l) \/ AddOne(l)

TimePasses ==
  /\ clock < MaxTime
  /\ clock' = clock + 1
  /\ UNCHANGED <<back, counters, loggers, admitted>>

(* The clock is set back, by hand or by the time service.                      *)
SetBack ==
  /\ \E d \in 1..clock :
       /\ back + d <= MaxBack
       /\ clock' = clock - d /\ back' = back + d
  /\ UNCHANGED <<counters, loggers, admitted>>

Next == TimePasses \/ SetBack \/ \E l \in Loggers : Sample(l) \/ Passing(l)

Spec == Init /\ [][Next]_vars

-----------------------------------------------------------------------------
(* log_sampler.go:18 "RateSampler caps log volume per second (global and       *)
(* optional per-level)": no more messages than the limit pass a counter in one *)
(* of its windows.                                                             *)
WindowCapped == \A k \in Counters : admitted[k] <= Limit[k]

(* What the races of inc can add to that: every logger but the one that opened *)
(* a window may put its count back to one from a look at the window before it, *)
(* and once more because it found the window over; as long as the clock is not *)
(* set back, only messages already on their way are let past after that, one a *)
(* logger (log_sampler.go:87-100).                                             *)
WindowBounded ==
  \A k \in Counters :
    /\ admitted[k] <= Limit[k] + 2 * (Cardinality(Loggers) - 1) * (Limit[k] - 1)
    /\ back = 0 => admitted[k] <= Cardinality(Loggers) * Limit[k]

(* A window ends at most a tick and the time the clock was set back from now,  *)
(* whoever opened it and however late: a sampler that drops everything lets    *)
(* messages past again, and a clock that was set back silences it for no       *)
(* longer than that (log_sampler.go:87-100).                                   *)
WindowsEnd == \A k \in Counters : resetAt[k] <= clock + back + Tick
=============================================================================
