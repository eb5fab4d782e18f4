------------------------- MODULE ProcessLoggerProofs -------------------------
(* LoggersAgree, for any number of calls.                                      *)
EXTENDS ProcessLogger, TLAPS

(* A logger that is c's own: its service fields are c's or missing, and with   *)
(* them goes c's level.                                                        *)
Own(l, c) ==
  /\ l.base = c
  /\ l.service \in {<<>>, <<c>>}
  /\ l.service # <<>> => level = c

(* What a call that nobody disturbs has done by each of its points.            *)
Progress(c) ==
  /\ at[c] \in {"store", "default", "load"} => level = c
  /\ at[c] \in {"default", "load"} => proc = New(c)
  /\ at[c] \in {"storeFull", "defaultFull"} => Own(built[c], c)
  /\ at[c] = "defaultFull" => proc = built[c]

Fresh == \A c \in Configurers : at[c] = "idle" => built[c] = New(c)

Alone == ~overlap => \A c \in Configurers : Active(c) => newest = c /\ Progress(c)

(* The half of LoggersAgree about a last call that was not disturbed.          *)
LastCallStays ==
  Quiet => /\ proc = dflt
           /\ proc.base = newest
           /\ proc.service \in {<<>>, <<newest>>}
           /\ proc.service # <<>> => level = newest

IInv == LTypeOK /\ Fresh /\ Alone /\ LastCallStays

-----------------------------------------------------------------------------
(* newLogger: a logger without service fields.                                 *)
LEMMA NewIsLogger == \A c \in Owners : New(c) \in Loggers /\ Own(New(c), c)
BY DEF New, Loggers, Own

(* withServiceFields adds to whatever fields the logger has.                   *)
LEMMA ServiceAttached ==
  ASSUME NEW l \in Loggers, NEW c \in Owners
  PROVE  /\ [l EXCEPT !.service = Append(@, c)] \in Loggers
         /\ l = New(c) => /\ [l EXCEPT !.service = Append(@, c)].base = c
                          /\ [l EXCEPT !.service = Append(@, c)].service = <<c>>
<1>1. Append(l.service, c) \in Seq(Owners)
  BY DEF Loggers
<1>2. [l EXCEPT !.service = Append(@, c)] \in Loggers
  BY <1>1 DEF Loggers
<1>3. ASSUME l = New(c) PROVE [l EXCEPT !.service = Append(@, c)].base = c
                              /\ [l EXCEPT !.service = Append(@, c)].service = <<c>>
  <2>1. Append(<<>>, c) = <<c>>
    OBVIOUS
  <2> QED BY <1>3, <2>1 DEF New
<1> QED BY <1>2, <1>3

(* The package's logger is in place before any call (zlog.go:26-34).           *)
LEMMA InitAgrees == LInit => IInv
<1> SUFFICES ASSUME LInit PROVE IInv
  OBVIOUS
<1> USE DEF LInit
<1>1. Package \in Owners /\ Configurers \subseteq Owners
  BY DEF Owners
<1>2. LTypeOK
  BY <1>1, NewIsLogger DEF LTypeOK, PC
<1>3. Fresh
  BY DEF Fresh
<1>4. \A c \in Configurers : ~Active(c)
  BY DEF Active
<1>5. LastCallStays
  BY <1>1, NewIsLogger DEF LastCallStays, Own, New
<1> QED BY <1>2, <1>3, <1>4, <1>5 DEF IInv, Alone

-----------------------------------------------------------------------------
(* A call that begins while nobody disturbs it is the only one under way.      *)
LEMMA EnterAlone ==
  ASSUME IInv, NEW c \in Configurers, NEW to \in PC \ {"idle", "done"}, Enter(c, to)
  PROVE  /\ at[c] = "idle" /\ at' = [at EXCEPT ![c] = to]
         /\ newest' = c /\ newest' \in Owners /\ overlap' \in BOOLEAN
         /\ ~Quiet'
         /\ ~overlap' => \A d \in Configurers : Active(d)' => d = c
<1>1. at \in [Configurers -> PC]
  BY DEF IInv, LTypeOK
<1>2. at[c] = "idle" /\ at' = [at EXCEPT ![c] = to] /\ newest' = c
  BY DEF Enter, To
<1>3. newest' \in Owners
  BY <1>2 DEF Owners
<1>4. overlap' = (\E d \in Configurers : Active(d))
  BY DEF Enter
<1>5. overlap' \in BOOLEAN
  BY <1>4, Zenon
<1>6. Active(c)'
  BY <1>1, <1>2 DEF Active
<1>7. ASSUME ~overlap', NEW d \in Configurers, Active(d)' PROVE d = c
  <2>1. ~Active(d)
    BY <1>4, <1>7, Zenon
  <2> QED BY <1>1, <1>2, <1>7, <2>1 DEF Active
<1> QED BY <1>2, <1>3, <1>5, <1>6, <1>7 DEF Quiet, AtRest

(* The steps after a call's first leave the others where they are.             *)
LEMMA StepAlone ==
  ASSUME IInv, NEW c \in Configurers, NEW from \in PC \ {"idle", "done"},
         NEW to \in PC \ {"idle"}, To(c, from, to), UNCHANGED <<newest, overlap>>
  PROVE  /\ at[c] = from /\ at' = [at EXCEPT ![c] = to]
         /\ \A d \in Configurers : d # c => at'[d] = at[d]
         /\ at' \in [Configurers -> PC] /\ at'[c] = to
         /\ ~overlap' => /\ newest = c /\ Progress(c)
                         /\ \A d \in Configurers : Active(d)' => d = c
         /\ to # "done" => ~Quiet'
<1>1. at \in [Configurers -> PC]
  BY DEF IInv, LTypeOK
<1>2. at[c] = from /\ at' = [at EXCEPT ![c] = to]
  BY DEF To
<1>3. at' \in [Configurers -> PC] /\ at'[c] = to
      /\ \A d \in Configurers : d # c => at'[d] = at[d]
  BY <1>1, <1>2
<1>4. Active(c)
  BY <1>2 DEF Active
<1>5. ASSUME ~overlap' PROVE newest = c /\ Progress(c)
                             /\ \A d \in Configurers : Active(d)' => d = c
  <2>1. \A d \in Configurers : Active(d) => newest = d /\ Progress(d)
    BY <1>5 DEF IInv, Alone
  <2> QED BY <1>3, <1>4, <2>1 DEF Active
<1>6. ASSUME to # "done" PROVE ~Quiet'
  BY <1>3, <1>6 DEF Quiet, AtRest, Active
<1> QED BY <1>2, <1>3, <1>5, <1>6

(* A call begins: with a logger of its own, or with the level that goes with   *)
(* the one it is about to store.                                               *)
LEMMA EnterStep ==
  ASSUME IInv, NEW c \in Configurers, SetLogger(c) \/ InitLogger(c)
  PROVE  IInv'
<1>1. \E t \in PC \ {"idle", "done"} :
        /\ Enter(c, t) /\ t \in {"store", "storeFull"}
        /\ t = "store" => level' = c
        /\ level' \in {level, c} /\ UNCHANGED <<proc, dflt, built>>
  BY DEF SetLogger, InitLogger, PC, pointers
<1>2. PICK t \in PC \ {"idle", "done"} :
        /\ Enter(c, t) /\ t \in {"store", "storeFull"}
        /\ t = "store" => level' = c
        /\ level' \in {level, c} /\ UNCHANGED <<proc, dflt, built>>
  BY <1>1
<1>3. /\ at[c] = "idle" /\ at' = [at EXCEPT ![c] = t]
      /\ newest' = c /\ newest' \in Owners /\ overlap' \in BOOLEAN
      /\ ~Quiet'
      /\ ~overlap' => \A d \in Configurers : Active(d)' => d = c
  BY <1>2, EnterAlone
<1>4. LTypeOK /\ Fresh
  BY DEF IInv
<1>5. c \in Owners
  BY DEF Owners
<1>6. at' \in [Configurers -> PC] /\ at'[c] = t
      /\ \A d \in Configurers : d # c => at'[d] = at[d]
  BY <1>2, <1>3, <1>4 DEF LTypeOK
<1>7. LTypeOK'
  BY <1>2, <1>3, <1>4, <1>5, <1>6 DEF LTypeOK
<1>8. Fresh'
  BY <1>2, <1>3, <1>4, <1>6 DEF Fresh
<1>9. Progress(c)'
  <2>1. built'[c] = New(c)
    BY <1>2, <1>3, <1>4 DEF Fresh
  <2>2. Own(built[c], c)'
    BY <2>1 DEF Own, New
  <2> QED BY <1>2, <1>6, <2>2 DEF Progress
<1>10. Alone'
  BY <1>3, <1>9 DEF Alone
<1> QED BY <1>3, <1>7, <1>8, <1>10 DEF IInv, LastCallStays

(* SetLogger's two stores of InitLogger's logger (zlog.go:365, 366).           *)
LEMMA BaseStep ==
  ASSUME IInv, NEW c \in Configurers, StoreBase(c) \/ DefaultBase(c)
  PROVE  IInv'
<1>1. \E from \in {"store", "default"}, to \in {"default", "load"} :
        /\ To(c, from, to)
        /\ proc' = New(c) \/ (from = "default" /\ proc' = proc)
        /\ dflt' \in {dflt, New(c)}
        /\ UNCHANGED <<level, built, newest, overlap>>
  BY DEF StoreBase, DefaultBase
<1>2. PICK from \in {"store", "default"}, to \in {"default", "load"} :
        /\ To(c, from, to)
        /\ proc' = New(c) \/ (from = "default" /\ proc' = proc)
        /\ dflt' \in {dflt, New(c)}
        /\ UNCHANGED <<level, built, newest, overlap>>
  BY <1>1
<1>3. from \in PC \ {"idle", "done"} /\ to \in PC \ {"idle"}
  BY <1>2 DEF PC
<1>4. /\ at[c] = from
      /\ \A d \in Configurers : d # c => at'[d] = at[d]
      /\ at' \in [Configurers -> PC] /\ at'[c] = to
      /\ ~overlap' => /\ newest = c /\ Progress(c)
                      /\ \A d \in Configurers : Active(d)' => d = c
      /\ to # "done" => ~Quiet'
  BY <1>2, <1>3, StepAlone
<1>5. LTypeOK /\ Fresh /\ New(c) \in Loggers
  BY NewIsLogger DEF IInv, Owners
<1>6. LTypeOK'
  BY <1>2, <1>4, <1>5 DEF LTypeOK
<1>7. Fresh'
  BY <1>2, <1>3, <1>4, <1>5 DEF Fresh
<1>8. ASSUME ~overlap' PROVE Progress(c)'
  BY <1>2, <1>4, <1>8 DEF Progress, New
<1>9. Alone'
  BY <1>2, <1>4, <1>8 DEF Alone
<1> QED BY <1>2, <1>4, <1>6, <1>7, <1>9 DEF IInv, LastCallStays

(* The process logger is loaded again and given service fields (zlog.go:301).  *)
LEMMA AttachStep ==
  ASSUME IInv, NEW c \in Configurers, WithServiceFields(c)
  PROVE  IInv'
<1>0. built' = [built EXCEPT ![c] = [proc EXCEPT !.service = Append(@, c)]]
  BY DEF WithServiceFields
<1>1. To(c, "load", "storeFull") /\ UNCHANGED <<proc, dflt, level, newest, overlap>>
  BY DEF WithServiceFields, pointers
<1>2. /\ at[c] = "load"
      /\ \A d \in Configurers : d # c => at'[d] = at[d]
      /\ at' \in [Configurers -> PC] /\ at'[c] = "storeFull"
      /\ ~overlap' => /\ newest = c /\ Progress(c)
                      /\ \A d \in Configurers : Active(d)' => d = c
      /\ ~Quiet'
  <2>1. "load" \in PC \ {"idle", "done"} /\ "storeFull" \in PC \ {"idle"}
    BY DEF PC
  <2> QED BY <1>1, <2>1, StepAlone
<1>3. LTypeOK /\ Fresh /\ c \in Owners /\ proc \in Loggers
  BY DEF IInv, Owners, LTypeOK
<1>4. PICK l : l = [proc EXCEPT !.service = Append(@, c)]
  OBVIOUS
<1>5. l \in Loggers /\ (proc = New(c) => l.base = c /\ l.service = <<c>>)
  BY <1>3, <1>4, ServiceAttached
<1>6. built' = [built EXCEPT ![c] = l]
  BY <1>0, <1>4
<1>7. built' \in [Configurers -> Loggers] /\ built'[c] = l
      /\ \A d \in Configurers : d # c => built'[d] = built[d]
  BY <1>3, <1>5, <1>6 DEF LTypeOK
<1>8. LTypeOK'
  BY <1>1, <1>2, <1>3, <1>7 DEF LTypeOK
<1>9. Fresh'
  BY <1>2, <1>3, <1>7 DEF Fresh
<1>10. ASSUME ~overlap' PROVE Progress(c)'
  <2>1. proc = New(c) /\ level' = c
    BY <1>1, <1>2, <1>10 DEF Progress
  <2>2. Own(built[c], c)'
    BY <1>5, <1>7, <2>1 DEF Own
  <2> QED BY <1>2, <2>2 DEF Progress
<1>11. Alone'
  BY <1>1, <1>2, <1>10 DEF Alone
<1> QED BY <1>2, <1>8, <1>9, <1>11 DEF IInv, LastCallStays

(* SetLogger's two stores of the complete logger (zlog.go:306).                *)
LEMMA FullStep ==
  ASSUME IInv, NEW c \in Configurers, StoreFull(c) \/ DefaultFull(c)
  PROVE  IInv'
<1>1. LTypeOK /\ Fresh /\ built[c] \in Loggers
  BY DEF IInv, LTypeOK
<1>2. CASE StoreFull(c)
  <2>1. /\ To(c, "storeFull", "defaultFull") /\ proc' = built[c]
        /\ UNCHANGED <<dflt, level, built, newest, overlap>>
    BY <1>2 DEF StoreFull
  <2>2. /\ at[c] = "storeFull"
        /\ \A d \in Configurers : d # c => at'[d] = at[d]
        /\ at' \in [Configurers -> PC] /\ at'[c] = "defaultFull"
        /\ ~overlap' => /\ newest = c /\ Progress(c)
                        /\ \A d \in Configurers : Active(d)' => d = c
        /\ ~Quiet'
    BY <2>1, StepAlone DEF PC
  <2>3. LTypeOK'
    BY <1>1, <2>1, <2>2 DEF LTypeOK
  <2>4. Fresh'
    BY <1>1, <2>1, <2>2 DEF Fresh
  <2>5. ASSUME ~overlap' PROVE Progress(c)'
    <3>1. Own(built[c], c)
      BY <2>2, <2>5 DEF Progress
    <3>2. Own(built[c], c)'
      BY <2>1, <3>1 DEF Own
    <3> QED BY <2>1, <2>2, <3>2 DEF Progress
  <2>6. Alone'
    BY <2>1, <2>2, <2>5 DEF Alone
  <2> QED BY <2>2, <2>3, <2>4, <2>6 DEF IInv, LastCallStays
<1>3. CASE DefaultFull(c)
  <2>1. /\ To(c, "defaultFull", "done") /\ dflt' = built[c]
        /\ UNCHANGED <<proc, level, built, newest, overlap>>
    BY <1>3 DEF DefaultFull
  <2>2. /\ at[c] = "defaultFull"
        /\ \A d \in Configurers : d # c => at'[d] = at[d]
        /\ at' \in [Configurers -> PC] /\ at'[c] = "done"
        /\ ~overlap' => /\ newest = c /\ Progress(c)
                        /\ \A d \in Configurers : Active(d)' => d = c
    BY <2>1, StepAlone DEF PC
  <2>3. LTypeOK'
    BY <1>1, <2>1, <2>2 DEF LTypeOK
  <2>4. Fresh'
    BY <1>1, <2>1, <2>2 DEF Fresh
  <2>5. Alone'
    BY <2>2 DEF Alone, Active
  <2>6. ASSUME ~overlap' PROVE proc' = dflt' /\ newest' = c /\ Own(proc, c)'
    <3>1. Own(built[c], c) /\ proc = built[c] /\ newest = c
      BY <2>2, <2>6 DEF Progress
    <3> QED BY <2>1, <3>1 DEF Own
  <2>7. LastCallStays'
    BY <2>6 DEF LastCallStays, Quiet, AtRest, Own
  <2> QED BY <2>3, <2>4, <2>5, <2>7 DEF IInv
<1> QED BY <1>2, <1>3

(* The inductive step.                                                         *)
LEMMA NextAgrees == IInv /\ [LNext]_loggerVars => IInv'
<1>1. ASSUME IInv, LNext PROVE IInv'
  BY <1>1, EnterStep, BaseStep, AttachStep, FullStep DEF LNext
<1>2. ASSUME IInv, UNCHANGED loggerVars PROVE IInv'
  BY <1>2 DEF loggerVars, pointers, calls, IInv, LTypeOK, Fresh, Alone, LastCallStays,
              Progress, Own, Active, Quiet, AtRest
<1> QED BY <1>1, <1>2

-----------------------------------------------------------------------------
(* What racing calls leave too: the process logger is one that was stored last *)
(* by a call, unless one has its last store ahead of it, and so the default.   *)
Storing == {"store", "default", "load", "storeFull"}

Left(p, d) ==
  IF newest = Package
  THEN p = New(Package) /\ d = New(Package) /\ \A c \in Configurers : at[c] = "idle"
  ELSE /\ \/ \E c \in Configurers : at[c] \in Storing
          \/ \E c \in Configurers : at[c] \in {"defaultFull", "done"} /\ p = built[c]
       /\ \/ \E c \in Configurers : Active(c)
          \/ \E c \in Configurers : at[c] = "done" /\ d = built[c]

LeftInv == at \in [Configurers -> PC] /\ Left(proc, dflt)

(* A call begins.                                                              *)
LEMMA EnterLeaves ==
  ASSUME LeftInv, NEW c \in Configurers, SetLogger(c) \/ InitLogger(c)
  PROVE  LeftInv'
<1>1. PICK to \in {"store", "storeFull"} : at[c] = "idle" /\ at' = [at EXCEPT ![c] = to]
  BY DEF SetLogger, InitLogger, Enter, To
<1>2. newest' = c /\ newest' # Package
  BY PackageAssumption DEF SetLogger, InitLogger, Enter
<1>3. at' \in [Configurers -> PC] /\ at'[c] \in Storing /\ Active(c)'
  BY <1>1 DEF LeftInv, PC, Storing, Active
<1> QED BY <1>2, <1>3 DEF LeftInv, Left

(* A call that has its last store of the process logger ahead of it.           *)
LEMMA StoringLeaves ==
  ASSUME LeftInv, NEW c \in Configurers,
         StoreBase(c) \/ DefaultBase(c) \/ WithServiceFields(c)
  PROVE  LeftInv'
<1>1. PICK from \in Storing, to \in Storing : at[c] = from /\ at' = [at EXCEPT ![c] = to]
  BY DEF StoreBase, DefaultBase, WithServiceFields, To, Storing
<1>2. newest' = newest
  BY DEF StoreBase, DefaultBase, WithServiceFields
<1>3. newest # Package
  BY <1>1 DEF LeftInv, Left, Storing
<1>4. at' \in [Configurers -> PC] /\ at'[c] \in Storing /\ Active(c)'
  BY <1>1 DEF LeftInv, PC, Storing, Active
<1> QED BY <1>2, <1>3, <1>4 DEF LeftInv, Left

(* The last two stores.                                                        *)
LEMMA FullLeaves ==
  ASSUME LeftInv, NEW c \in Configurers, StoreFull(c) \/ DefaultFull(c)
  PROVE  LeftInv'
<1>1. CASE StoreFull(c)
  <2>1. /\ at[c] = "storeFull" /\ at' = [at EXCEPT ![c] = "defaultFull"]
        /\ proc' = built[c] /\ UNCHANGED <<newest, built>>
    BY <1>1 DEF StoreFull, To
  <2>2. newest # Package
    BY <2>1 DEF LeftInv, Left
  <2>3. at' \in [Configurers -> PC] /\ at'[c] = "defaultFull" /\ Active(c)'
    BY <2>1 DEF LeftInv, PC, Active
  <2> QED BY <2>1, <2>2, <2>3 DEF LeftInv, Left
<1>2. CASE DefaultFull(c)
  <2>1. /\ at[c] = "defaultFull" /\ at' = [at EXCEPT ![c] = "done"]
        /\ dflt' = built[c] /\ UNCHANGED <<newest, built, proc>>
    BY <1>2 DEF DefaultFull, To
  <2>2. newest # Package
    BY <2>1 DEF LeftInv, Left
  <2>3. at' \in [Configurers -> PC] /\ at'[c] = "done"
        /\ \A d \in Configurers : d # c => at'[d] = at[d]
    BY <2>1 DEF LeftInv, PC
  <2>4. \/ \E d \in Configurers : at'[d] \in Storing
        \/ \E d \in Configurers : at'[d] \in {"defaultFull", "done"} /\ proc' = built'[d]
    <3>1. CASE \E d \in Configurers : at[d] \in Storing
      BY <2>1, <2>3, <3>1 DEF Storing
    <3>2. CASE \E d \in Configurers : at[d] \in {"defaultFull", "done"} /\ proc = built[d]
      BY <2>1, <2>3, <3>2
    <3> QED BY <2>2, <3>1, <3>2 DEF LeftInv, Left
  <2> QED BY <2>1, <2>2, <2>3, <2>4 DEF LeftInv, Left
<1> QED BY <1>1, <1>2

(* No call leaves a logger that is not complete.                               *)
LEMMA InitLeaves == LInit => LeftInv
BY DEF LInit, LeftInv, Left, PC
(* The inductive step.                                                         *)
LEMMA NextLeaves == LeftInv /\ [LNext]_loggerVars => LeftInv'
<1>1. ASSUME LeftInv, LNext PROVE LeftInv'
  BY <1>1, EnterLeaves, StoringLeaves, FullLeaves DEF LNext
<1>2. ASSUME LeftInv, UNCHANGED loggerVars PROVE LeftInv'
  BY <1>2 DEF loggerVars, pointers, calls, LeftInv, Left, Active
<1> QED BY <1>1, <1>2

-----------------------------------------------------------------------------
(* However many calls of ConfigureLogger and SetLogger there are: once they    *)
(* are over, each logger is a complete one, and when the last did not begin    *)
(* during another, both are the one it built, with its service fields once     *)
(* (zlog.go:289-307, 363-367).                                                 *)
THEOREM Agreement == LSpec => []LoggersAgree
<1>1. LSpec => []IInv
  BY InitAgrees, NextAgrees, PTL DEF LSpec
<1>2. LSpec => []LeftInv
  BY InitLeaves, NextLeaves, PTL DEF LSpec
<1>3. IInv /\ LeftInv => LoggersAgree
  <2>1. ASSUME LeftInv, AtRest PROVE proc \in Complete /\ dflt \in Complete
    <3>1. CASE newest = Package
      BY <2>1, <3>1 DEF LeftInv, Left, Complete
    <3>2. CASE newest # Package
      <4>1. \A c \in Configurers : at[c] \in {"idle", "done"}
        BY <2>1 DEF AtRest, Active
      <4>2. /\ \E c \in Configurers : at[c] = "done" /\ proc = built[c]
            /\ \E c \in Configurers : at[c] = "done" /\ dflt = built[c]
        BY <2>1, <3>2, <4>1 DEF LeftInv, Left, Storing, Active
      <4> QED BY <3>2, <4>2 DEF Complete
    <3> QED BY <3>1, <3>2
  <2>2. IInv => LastCallStays
    BY DEF IInv
  <2> QED BY <2>1, <2>2 DEF LoggersAgree, LastCallStays
<1> QED BY <1>1, <1>2, <1>3, PTL
=============================================================================
