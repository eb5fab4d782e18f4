-------------------------------- MODULE Spans --------------------------------
(* Span contexts, what StartSpan makes of them under a tracer (trace.go), and  *)
(* the samplers a configuration can name (sampler.go).                         *)
(*                                                                             *)
(* A sampler's specification is its words: the prefix, the rule and the number *)
(* after the colon, in tenths, {} when there is none that can be read.  A      *)
(* trace id is the tenth of the id space it falls into.                        *)
EXTENDS Integers

CONSTANTS Traces, TenthOf,   \* the trace ids, and where each of them falls
          None               \* no trace and no span

ASSUME TraceAssumption == TenthOf \in [Traces -> 0..9] /\ None \notin Traces

Blank == [parentbased |-> FALSE, rule |-> "", number |-> {}]
DefaultTracesSampler ==
  [parentbased |-> TRUE, rule |-> "statustraceidratio", number |-> {1}]

(* parseSamplerFraction: a number outside 0..1 is brought inside.              *)
Fraction(number) ==
  IF number = {} THEN 0
  ELSE LET n == CHOOSE m \in number : TRUE
       IN IF n < 0 THEN 0 ELSE IF n > 10 THEN 10 ELSE n

(* parseTraceSamplerInner.                                                     *)
InnerSampler(spec) ==
  CASE spec.rule = "never" -> [rule |-> "never", fraction |-> 0]
    [] spec.rule = "always" -> [rule |-> "always", fraction |-> 10]
    [] spec.rule \in {"traceidratio", "statustraceidratio"} ->
         [rule |-> spec.rule, fraction |-> Fraction(spec.number)]
    [] OTHER -> [rule |-> "statustraceidratio", fraction |-> 1]

(* A slip the properties below exclude: the prefix cut off and forgotten.      *)
ParseWithoutParent(spec) ==
  [parentbased |-> FALSE, inner |-> InnerSampler(spec)]

(* parseTraceSampler.                                                          *)
ParseTraceSampler(spec) ==
  LET s == IF spec = Blank THEN DefaultTracesSampler ELSE spec
  IN [parentbased |-> s.parentbased, inner |-> InnerSampler(s)]

(* The SDK's own samplers, and statusTraceIDRatioSampler on top of the ratio:  *)
(* an "error" among the attributes a span starts with, or those of its links,  *)
(* records it.                                                                 *)
InnerDecision(inner, trace, error) ==
  CASE inner.rule = "never" -> FALSE
    [] inner.rule = "always" -> TRUE
    [] inner.rule = "traceidratio" -> TenthOf[trace] < inner.fraction
    [] OTHER -> TenthOf[trace] < inner.fraction \/ error

NoSpan == [trace |-> None, span |-> None, sampled |-> FALSE]
Valid(sc) == sc # NoSpan

(* The SDK's ParentBased follows the span it finds, remote or not.             *)
ShouldSample(sampler, sc, trace, error) ==
  IF sampler.parentbased /\ Valid(sc) THEN sc.sampled
  ELSE InnerDecision(sampler.inner, trace, error)

(* A tracer: that of a noop provider, or of the SDK with a sampler.            *)
Noop == [sdk |-> FALSE, spec |-> Blank]
SDK(spec) == [sdk |-> TRUE, spec |-> spec]

(* Tracer.Start in a context with span sc, for the span id; a noop tracer      *)
(* hands on the span context it finds, a new trace is named by fresh.          *)
StartOn(tracer, sc, id, fresh, error) ==
  IF ~tracer.sdk THEN sc
  ELSE LET trace == IF Valid(sc) THEN sc.trace ELSE fresh
       IN [trace |-> trace, span |-> id,
           sampled |-> ShouldSample(ParseTraceSampler(tracer.spec), sc, trace, error)]
=============================================================================
