---------------------------- MODULE ProcessLogger ----------------------------
(* The process logger (zlog.go): an atomic pointer for Logger, Info and the    *)
(* like, and zerolog's DefaultContextLogger, a plain variable, for a context   *)
(* that carries neither span nor fields.  Every element of Configurers is one  *)
(* call of ConfigureLogger or SetLogger.                                       *)
(*                                                                             *)
(* A logger is who built it and whose service fields (and rate sampler) have   *)
(* been attached to it, in order; how a line is laid out is left out.          *)
EXTENDS Naturals, Sequences

CONSTANTS Configurers,
          Package           \* who built the logger the package starts with

ASSUME PackageAssumption == Package \notin Configurers

VARIABLES
  proc,      \* logger
  dflt,      \* zerolog.DefaultContextLogger
  level,     \* whose configuration set zerolog's global level
  at,        \* [c] where a call is
  built,     \* [c] the logger it hands to its last SetLogger
  newest,    \* the call that began last
  overlap    \* it did so while another was under way

pointers == <<proc, dflt>>
calls == <<at, built, newest, overlap>>
loggerVars == <<pointers, level, calls>>

Owners == Configurers \cup {Package}
Loggers == [base: Owners, service: Seq(Owners)]
New(c) == [base |-> c, service |-> <<>>]

PC == {"idle", "store", "default", "load", "storeFull", "defaultFull", "done"}

LTypeOK ==
  /\ proc \in Loggers /\ dflt \in Loggers
  /\ level \in Owners
  /\ at \in [Configurers -> PC]
  /\ built \in [Configurers -> Loggers]
  /\ newest \in Owners
  /\ overlap \in BOOLEAN

(* init.                                                                       *)
LInit ==
  /\ proc = New(Package) /\ dflt = New(Package)
  /\ level = Package
  /\ at = [c \in Configurers |-> "idle"]
  /\ built = [c \in Configurers |-> New(c)]
  /\ newest = Package
  /\ overlap = FALSE

-----------------------------------------------------------------------------
Active(c) == at[c] \notin {"idle", "done"}
To(c, from, to) == at[c] = from /\ at' = [at EXCEPT ![c] = to]

(* A call begins; the last one to begin is the one whose logger should stay.   *)
Enter(c, to) ==
  /\ To(c, "idle", to)
  /\ newest' = c
  /\ overlap' = (\E d \in Configurers : Active(d))

(* A slip the properties below exclude: the service fields attached to the     *)
(* logger in place, without a new one under them.                              *)
AttachInPlace(c) ==
  /\ Enter(c, "load")
  /\ level' = c
  /\ UNCHANGED <<pointers, built>>

(* SetLogger of a logger the application built.                                *)
SetLogger(c) ==
  /\ Enter(c, "storeFull")
  /\ UNCHANGED <<pointers, level, built>>

(* ConfigureLogger: InitLogger sets the level and builds a logger without      *)
(* service fields.                                                             *)
InitLogger(c) ==
  /\ Enter(c, "store")
  /\ level' = c
  /\ UNCHANGED <<pointers, built>>

(* The two stores of SetLogger: the bare logger of InitLogger, ...             *)
StoreBase(c) ==
  /\ To(c, "store", "default")
  /\ proc' = New(c)
  /\ UNCHANGED <<dflt, level, built, newest, overlap>>

DefaultBase(c) ==
  /\ To(c, "default", "load")
  /\ dflt' = New(c)
  /\ UNCHANGED <<proc, level, built, newest, overlap>>

(* ... which applyLoggerFromConfig loads again and gives the service fields,   *)
(* whoever it is by then, ...                                                  *)
WithServiceFields(c) ==
  /\ To(c, "load", "storeFull")
  /\ built' = [built EXCEPT ![c] = [proc EXCEPT !.service = Append(@, c)]]
  /\ UNCHANGED <<pointers, level, newest, overlap>>

(* ... and the logger that is complete.                                        *)
StoreFull(c) ==
  /\ To(c, "storeFull", "defaultFull")
  /\ proc' = built[c]
  /\ UNCHANGED <<dflt, level, built, newest, overlap>>

DefaultFull(c) ==
  /\ To(c, "defaultFull", "done")
  /\ dflt' = built[c]
  /\ UNCHANGED <<proc, level, built, newest, overlap>>

LNext == \E c \in Configurers :
  \/ SetLogger(c) \/ InitLogger(c)
  \/ StoreBase(c) \/ DefaultBase(c) \/ WithServiceFields(c)
  \/ StoreFull(c) \/ DefaultFull(c)

LSpec == LInit /\ [][LNext]_loggerVars

-----------------------------------------------------------------------------
AtRest == \A c \in Configurers : ~Active(c)
Quiet == ~overlap /\ AtRest

(* The loggers that calls were to leave behind.                                *)
Complete == IF newest = Package THEN {New(Package)}
            ELSE {built[c] : c \in {d \in Configurers : at[d] = "done"}}

(* Once the calls are over, each of the two loggers is a complete one that     *)
(* some call built, also when calls raced: neither the package's nor one       *)
(* without service fields, which ConfigureLogger stores on its way, stays.     *)
(* When the last call did not begin during another, both are the one it built, *)
(* with its own service fields once and those of no earlier call, whatever     *)
(* earlier ones left (zlog.go:289-306, 364-368).                               *)
LoggersAgree ==
  /\ AtRest => proc \in Complete /\ dflt \in Complete
  /\ Quiet => /\ proc = dflt
              /\ proc.base = newest
              /\ proc.service \in {<<>>, <<newest>>}
              /\ proc.service # <<>> => level = newest
=============================================================================
