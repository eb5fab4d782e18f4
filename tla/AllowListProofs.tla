--------------------------- MODULE AllowListProofs ---------------------------
(* Proofs about AllowList, for every number of calls, Starts and labels.       *)
EXTENDS AllowList, TLAPS

(* A list that is replaced, and the one that runs, are of a Start that is over *)
(* with its commit, so neither is ever in the hands of a Start.                *)
Settled ==
  /\ running # None => startPC[running] = "done"
  /\ \A c \in Callers : callerPC[c] \in {"load", "store"} =>
       target[c] \in Starts /\ startPC[target[c]] = "done"

(* What was registered is kept for the Starts to come.                         *)
Kept ==
  /\ \A c \in Callers : callerPC[c] # "idle" => wanted[c] \subseteq allowedLabels
  /\ \A c \in alone : callerPC[c] # "idle"

(* A call that is alone replaces its list with no other one beside it.         *)
Solo ==
  \A c \in alone, e \in Callers :
    callerPC[c] \in {"load", "store"} /\ callerPC[e] \in {"load", "store"} => e = c

(* Its labels are in every list that was copied since, ...                     *)
Copied == \A c \in alone, s \in Starts : startPC[s] = "commit" => Passes(wanted[c], s)

(* ... in the one that runs, unless that is the one it has yet to replace, ... *)
InRunning ==
  \A c \in alone :
    running # None /\ (Done(c) \/ running # target[c]) => Passes(wanted[c], running)

(* ... and in every copy that is about to replace the running one.             *)
Loaded ==
  \A c \in alone, e \in Callers :
    Done(c) /\ callerPC[e] = "store" /\ target[e] = running
      => wanted[c] \ {Empty} \subseteq prev[e]

(* The inductive invariant.                                                    *)
IInv == TypeOK /\ Settled /\ Kept /\ Solo /\ Copied /\ InRunning /\ Loaded

-----------------------------------------------------------------------------
(* No list has been stored and nobody calls.                                   *)
LEMMA InitInv == Init => IInv
BY NoneAssumption
   DEF Init, IInv, TypeOK, Settled, Kept, Solo, Copied, InRunning, Loaded

(* A Start that begins, fails, or is shut down: no list changes.               *)
LEMMA BeginStartStep ==
  ASSUME IInv, NEW s \in Starts, BeginStart(s) \/ StartFails(s)
  PROVE  IInv'
<1>1. /\ startPC[s] # "done" /\ startPC'[s] \in {"copy", "done"}
      /\ \A x \in Starts \ {s} : startPC'[x] = startPC[x]
      /\ startPC' \in [Starts -> {"idle", "copy", "commit", "done"}]
      /\ UNCHANGED <<allowedLabels, running, list, callers, alone>>
  BY DEF IInv, TypeOK, BeginStart, StartFails, StartGoto
<1>. USE DEF IInv, callers
<1>2. TypeOK'     BY <1>1 DEF TypeOK
<1>3. Settled'    BY <1>1, NoneAssumption DEF Settled, TypeOK
<1>4. Kept'       BY <1>1 DEF Kept
<1>5. Solo'       BY <1>1 DEF Solo
<1>6. Copied'     BY <1>1 DEF Copied, Passes
<1>7. InRunning'  BY <1>1 DEF InRunning, Passes, Done
<1>8. Loaded'     BY <1>1 DEF Loaded, Done
<1>. QED BY <1>2, <1>3, <1>4, <1>5, <1>6, <1>7, <1>8

(* The copy holds all that was registered so far.                              *)
LEMMA CopyLabelsStep ==
  ASSUME IInv, NEW s \in Starts, CopyLabels(s)
  PROVE  IInv'
<1>1. /\ startPC[s] = "copy" /\ startPC'[s] = "commit"
      /\ \A x \in Starts \ {s} : startPC'[x] = startPC[x] /\ list'[x] = list[x]
      /\ list'[s] = allowedLabels \ {Empty}
      /\ startPC' \in [Starts -> {"idle", "copy", "commit", "done"}]
      /\ list' \in [Starts -> SUBSET (Labels \ {Empty})]
      /\ UNCHANGED <<allowedLabels, running, callers, alone>>
  BY DEF IInv, TypeOK, CopyLabels, StartGoto
<1>. USE DEF IInv, callers
<1>2. TypeOK'     BY <1>1 DEF TypeOK
<1>3. Settled'    BY <1>1, NoneAssumption DEF Settled, TypeOK
<1>4. Kept'       BY <1>1 DEF Kept
<1>5. Solo'       BY <1>1 DEF Solo
<1>6. Copied'
  <2>1. \A c \in alone : wanted[c] \subseteq allowedLabels
    BY DEF Kept, TypeOK
  <2>. QED BY <1>1, <2>1 DEF Copied, Passes
<1>7. InRunning'
  <2>1. running # None => list'[running] = list[running]
    BY <1>1 DEF Settled, TypeOK
  <2>. QED BY <1>1, <2>1 DEF InRunning, Passes, Done
<1>8. Loaded'     BY <1>1 DEF Loaded, Done
<1>. QED BY <1>2, <1>3, <1>4, <1>5, <1>6, <1>7, <1>8

(* The cache that begins to run has the labels of the calls that were alone;   *)
(* no call is replacing its list.                                              *)
LEMMA CommitStep ==
  ASSUME IInv, NEW s \in Starts, Commit(s)
  PROVE  IInv'
<1>1. /\ startPC[s] = "commit" /\ startPC'[s] = "done"
      /\ \A x \in Starts \ {s} : startPC'[x] = startPC[x]
      /\ startPC' \in [Starts -> {"idle", "copy", "commit", "done"}]
      /\ running' = IF running = None THEN s ELSE running
      /\ UNCHANGED <<allowedLabels, list, callers, alone>>
  BY DEF IInv, TypeOK, Commit, StartGoto
<1>. USE DEF IInv, callers
<1>2. TypeOK'     BY <1>1 DEF TypeOK
<1>3. Settled'    BY <1>1, NoneAssumption DEF Settled, TypeOK
<1>4. Kept'       BY <1>1 DEF Kept
<1>5. Solo'       BY <1>1 DEF Solo
<1>6. Copied'     BY <1>1 DEF Copied, Passes
<1>7. InRunning'  BY <1>1 DEF InRunning, Copied, Passes, Done
<1>8. Loaded'
  <2>1. \A e \in Callers : callerPC[e] = "store" => target[e] # s
    BY <1>1 DEF Settled
  <2>. QED BY <1>1, <2>1 DEF Loaded, Done
<1>. QED BY <1>2, <1>3, <1>4, <1>5, <1>6, <1>7, <1>8

(* Shutdown takes the running generation away; the lists stay.                 *)
LEMMA ShutdownStep ==
  ASSUME IInv, Shutdown
  PROVE  IInv'
<1>1. running' = None /\ UNCHANGED <<allowedLabels, list, startPC, callers, alone>>
  BY DEF Shutdown, starts
<1>. USE DEF IInv, callers
<1>2. TypeOK'     BY <1>1 DEF TypeOK
<1>3. Settled'    BY <1>1 DEF Settled
<1>4. Kept'       BY <1>1 DEF Kept
<1>5. Solo'       BY <1>1 DEF Solo
<1>6. Copied'     BY <1>1 DEF Copied, Passes
<1>7. InRunning'  BY <1>1 DEF InRunning
<1>8. Loaded'
  <2>1. \A e \in Callers : callerPC[e] = "store" => target[e] # None
    BY NoneAssumption DEF Settled
  <2>. QED BY <1>1, <2>1 DEF Loaded, Done
<1>. QED BY <1>2, <1>3, <1>4, <1>5, <1>6, <1>7, <1>8

(* A call that finds another one replacing a list, or a Start before its       *)
(* commit, is not alone, nor is that other one any more.                       *)
LEMMA RegisterStep ==
  ASSUME IInv, NEW c \in Callers, Register(c)
  PROVE  IInv'
<1>1. /\ callerPC[c] = "idle"
      /\ callerPC'[c] = IF running = None THEN "done" ELSE "load"
      /\ target'[c] = running
      /\ \A e \in Callers \ {c} : callerPC'[e] = callerPC[e] /\ target'[e] = target[e]
      /\ callerPC' \in [Callers -> {"idle", "load", "store", "done"}]
      /\ target' \in [Callers -> Starts \cup {None}]
      /\ allowedLabels' = allowedLabels \cup wanted[c]
      /\ UNCHANGED <<running, list, startPC, wanted, prev>>
  BY DEF IInv, TypeOK, Register, Goto, starts
<1>2. \/ /\ alone' = alone \cup {c}
         /\ \A e \in Callers : callerPC[e] \notin {"load", "store"}
         /\ \A s \in Starts : startPC[s] # "commit"
      \/ /\ alone' \subseteq alone
         /\ \A e \in alone' : callerPC[e] \notin {"load", "store"}
  BY DEF Register, Interferes, Replacing, IInv, TypeOK
<1>3. c \notin alone /\ alone \subseteq Callers /\ alone' \subseteq Callers
  BY <1>1, <1>2 DEF IInv, Kept, TypeOK
<1>. USE DEF IInv
<1>4. TypeOK'     BY <1>1, <1>3 DEF TypeOK
<1>5. Settled'    BY <1>1, NoneAssumption DEF Settled, TypeOK
<1>6. Kept'       BY <1>1, <1>2, <1>3 DEF Kept
<1>7. Solo'       BY <1>1, <1>2, <1>3 DEF Solo
<1>8. Copied'     BY <1>1, <1>2, <1>3 DEF Copied, Passes
<1>9. InRunning'  BY <1>1, <1>2, <1>3 DEF InRunning, Passes, Done
<1>10. Loaded'    BY <1>1, <1>2, <1>3 DEF Loaded, Done
<1>. QED BY <1>4, <1>5, <1>6, <1>7, <1>8, <1>9, <1>10

(* AllowSubjects loads the list it is going to replace.                        *)
LEMMA LoadListStep ==
  ASSUME IInv, NEW c \in Callers, LoadList(c)
  PROVE  IInv'
<1>1. /\ callerPC[c] = "load" /\ callerPC'[c] = "store"
      /\ prev'[c] = list[target[c]] /\ target[c] \in Starts
      /\ \A e \in Callers \ {c} : callerPC'[e] = callerPC[e] /\ prev'[e] = prev[e]
      /\ callerPC' \in [Callers -> {"idle", "load", "store", "done"}]
      /\ UNCHANGED <<allowedLabels, running, list, startPC, wanted, target, alone>>
  BY DEF IInv, TypeOK, Settled, LoadList, Goto, starts
<1>2. prev' \in [Callers -> SUBSET (Labels \ {Empty})]
  BY <1>1 DEF LoadList, IInv, TypeOK
<1>. USE DEF IInv
<1>3. TypeOK'     BY <1>1, <1>2 DEF TypeOK
<1>4. Settled'    BY <1>1 DEF Settled
<1>5. Kept'       BY <1>1 DEF Kept, TypeOK
<1>6. Solo'       BY <1>1 DEF Solo, TypeOK
<1>7. Copied'     BY <1>1 DEF Copied, Passes
<1>8. InRunning'  BY <1>1 DEF InRunning, Passes, Done, TypeOK
<1>9. Loaded'
  <2>1. \A e \in alone : e \in Callers /\ (callerPC'[e] = "done" <=> callerPC[e] = "done")
    BY <1>1 DEF TypeOK
  <2>2. ASSUME NEW e \in alone, Done(e), target[c] = running
        PROVE  wanted[e] \ {Empty} \subseteq prev'[c]
    BY <1>1, <2>2, NoneAssumption DEF InRunning, Passes
  <2>. QED BY <1>1, <2>1, <2>2 DEF Loaded, Done
<1>. QED BY <1>3, <1>4, <1>5, <1>6, <1>7, <1>8, <1>9

(* The copy that replaces the running list has the labels of the calls that    *)
(* were alone; a call that is alone puts its own in.                           *)
LEMMA StoreListStep ==
  ASSUME IInv, NEW c \in Callers, StoreList(c)
  PROVE  IInv'
<1>1. /\ callerPC[c] = "store" /\ callerPC'[c] = "done"
      /\ target[c] \in Starts /\ startPC[target[c]] = "done"
      /\ list'[target[c]] = prev[c] \cup (wanted[c] \ {Empty})
      /\ \A x \in Starts \ {target[c]} : list'[x] = list[x]
      /\ \A e \in Callers \ {c} : callerPC'[e] = callerPC[e]
      /\ callerPC' \in [Callers -> {"idle", "load", "store", "done"}]
      /\ UNCHANGED <<allowedLabels, running, startPC, wanted, target, prev, alone>>
  BY DEF IInv, TypeOK, Settled, StoreList, Goto
<1>2. list' \in [Starts -> SUBSET (Labels \ {Empty})]
  <2>1. prev[c] \cup (wanted[c] \ {Empty}) \in SUBSET (Labels \ {Empty})
    BY DEF IInv, TypeOK
  <2>. QED BY <2>1 DEF StoreList, IInv, TypeOK
<1>. USE DEF IInv
<1>3. TypeOK'     BY <1>1, <1>2 DEF TypeOK
<1>4. Settled'    BY <1>1 DEF Settled
<1>5. Kept'       BY <1>1 DEF Kept, TypeOK
<1>6. Solo'       BY <1>1 DEF Solo, TypeOK
<1>7. Copied'     BY <1>1 DEF Copied, Passes
<1>8. InRunning'
  <2>. SUFFICES ASSUME NEW e \in alone, running # None,
                       callerPC'[e] = "done" \/ running # target[e]
                PROVE  wanted[e] \ {Empty} \subseteq list'[running]
    BY <1>1 DEF InRunning, Passes, Done
  <2>1. running \in Starts /\ e \in Callers
    BY DEF TypeOK
  <2>2. CASE running # target[c]
    BY <1>1, <2>1, <2>2 DEF InRunning, Passes, Done
  <2>3. CASE running = target[c] /\ e = c
    BY <1>1, <2>3
  <2>4. CASE running = target[c] /\ e # c
    <3>1. callerPC[e] \notin {"load", "store"}
      BY <1>1, <2>1, <2>4 DEF Solo
    <3>2. callerPC[e] = "done"
      BY <2>1, <3>1 DEF Kept, TypeOK
    <3>. QED BY <1>1, <2>4, <3>2 DEF Loaded, Done
  <2>. QED BY <2>2, <2>3, <2>4
<1>9. Loaded'
  <2>. SUFFICES ASSUME NEW e \in alone, NEW f \in Callers, callerPC'[e] = "done",
                       callerPC'[f] = "store", target[f] = running
                PROVE  wanted[e] \ {Empty} \subseteq prev[f]
    BY <1>1 DEF Loaded, Done
  <2>1. callerPC[f] = "store" /\ f # c /\ e \in Callers
    BY <1>1 DEF TypeOK
  <2>2. e # c
    BY <1>1, <2>1 DEF Solo
  <2>. QED BY <1>1, <2>1, <2>2 DEF Loaded, Done
<1>. QED BY <1>3, <1>4, <1>5, <1>6, <1>7, <1>8, <1>9

(* The inductive step.                                                         *)
LEMMA StepInv == IInv /\ [Next]_vars => IInv'
<1>1. ASSUME IInv, UNCHANGED vars PROVE IInv'
  BY <1>1 DEF vars, starts, callers, IInv, TypeOK, Settled, Kept, Solo, Copied, InRunning,
              Loaded, Passes, Done
<1>. QED
  BY <1>1, BeginStartStep, CopyLabelsStep, CommitStep, ShutdownStep, RegisterStep,
     LoadListStep, StoreListStep
  DEF Next

(* Every state the calls and the Starts can reach satisfies the inductive      *)
(* invariant.                                                                  *)
THEOREM Invariance == Spec => []IInv
BY InitInv, StepInv, PTL DEF Spec

(* No list ever holds "", and no call replaces the list of a Telemetry that    *)
(* has never run (tel.go:420-435, metric.go:88-111).                           *)
THEOREM TypeCorrect == Spec => []TypeOK
<1>1. IInv => TypeOK
  BY DEF IInv
<1>. QED BY <1>1, Invariance, PTL

(* However many calls of AllowSubjects race with each other and with Starts    *)
(* and Shutdowns, the labels of one that met none of them pass every cache     *)
(* that runs after it (tel.go:195-200, 420-435, metric.go:88-111).             *)
THEOREM QuietCallsKeep == Spec => []QuietCallsHold
<1>1. IInv => QuietCallsHold
  BY DEF IInv, InRunning, QuietCallsHold
<1>. QED BY <1>1, Invariance, PTL
=============================================================================
