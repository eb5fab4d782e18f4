------------------------------- MODULE Requests -------------------------------
(* A request through Recover(Server(handler)) (middleware/fasthttp), with the  *)
(* spans it starts (trace.go), TraceFunc (zlog_fields.go) and the lines it     *)
(* logs (zlog.go), while the global Telemetry is started, shut down and        *)
(* replaced and the process logger is reconfigured under it.                   *)
(*                                                                             *)
(* The handler is the application's: it logs, adds fields to its context, calls*)
(* TraceFunc once, or starts and ends a span of its own, answers, or panics.   *)
(* A line is counted when it is handed to its logger.                          *)
EXTENDS ProcessLogger, Spans

CONSTANTS Requests,
          Remote,          \* the trace of the callers that send a traceparent
          Specs            \* the samplers of the Telemetrys that become global

ASSUME RequestAssumption == Requests \cup {Remote} \subseteq Traces

VARIABLES
  tracer,      \* the tracer of the global Telemetry
  conf,        \* the sampler of its configuration
  propagates,  \* installPropagator has run
  logSuccess,  \* WithLogSuccess
  pc,          \* [r] where a request is
  inbound,     \* [r] the sampled flag of its traceparent, if any; a skipped path
  held,        \* [r] the tracer StartSpan has read
  ctx,         \* [r] the context stored on the request
  inner,       \* [r] the context within TraceFunc, and the kind of the call
  spans,       \* [r] the server's span and the inner one
  status,      \* [r] the response, or the panic
  reports,     \* [r] the completion and panic lines of a request
  line         \* the line the last step logged, if it logged one

telemetry == <<tracer, conf, propagates>>
environment == <<loggerVars, telemetry, logSuccess>>
request == <<pc, inbound, held, ctx, inner, spans, status, reports>>
vars == <<environment, request, line>>

NoLogger == [base |-> Package, service |-> <<Package>>]   \* nothing stored
Background == [sc |-> NoSpan, fields |-> FALSE, stored |-> NoLogger]
NotStarted == [state |-> "none", spec |-> Blank, error |-> FALSE]
NoLine == [req |-> None, kind |-> "none", sc |-> NoSpan, logger |-> NoLogger]

InnerPC == {"call", "callSpan", "fn", "fnEnd", "fnFail", "fnLine"}
RequestPC == {"new", "tracer", "span", "handler", "end", "line", "panic", "done"} \cup InnerPC

Ids == {None, Remote} \cup (Requests \X {"server", "inner"})
SpanContexts == [trace: Traces \cup {None}, span: Ids, sampled: BOOLEAN]
Contexts == [sc: SpanContexts, fields: BOOLEAN, stored: Loggers]
SpanRecords == [state: {"none", "noop", "dropped", "open", "ended", "failed"},
                spec: Specs \cup {Blank}, error: BOOLEAN]

RTypeOK ==
  /\ LTypeOK
  /\ tracer \in {Noop} \cup {SDK(s) : s \in Specs}
  /\ conf \in Specs /\ propagates \in BOOLEAN
  /\ logSuccess \in BOOLEAN
  /\ pc \in [Requests -> RequestPC]
  /\ inbound \in [Requests -> [parent: {"none", "sampled", "unsampled"}, skip: BOOLEAN]]
  /\ held \in [Requests -> {Noop} \cup {SDK(s) : s \in Specs}]
  /\ ctx \in [Requests -> Contexts]
  /\ inner \in [Requests -> [ctx: Contexts, mode: {"none", "func", "own"}]]
  /\ spans \in [Requests -> [server: SpanRecords, inner: SpanRecords]]
  /\ status \in [Requests -> {"none", "ok", "fail", "panic"}]
  /\ reports \in [Requests -> 0..1]
  /\ line \in [req: Requests \cup {None}, sc: SpanContexts, logger: Loggers,
               kind: {"none", "handler", "func", "request", "panic"}]

(* SetGlobal has run, Start may have.                                          *)
RInit ==
  /\ LInit
  /\ conf \in Specs
  /\ tracer \in {Noop, SDK(conf)} /\ propagates = tracer.sdk
  /\ logSuccess \in BOOLEAN
  /\ pc = [r \in Requests |-> "new"]
  /\ inbound \in [Requests -> [parent: {"none", "sampled", "unsampled"}, skip: BOOLEAN]]
  /\ held = [r \in Requests |-> Noop]
  /\ ctx = [r \in Requests |-> Background]
  /\ inner = [r \in Requests |-> [ctx |-> Background, mode |-> "none"]]
  /\ spans = [r \in Requests |-> [server |-> NotStarted, inner |-> NotStarted]]
  /\ status = [r \in Requests |-> "none"]
  /\ reports = [r \in Requests |-> 0]
  /\ line = NoLine

-----------------------------------------------------------------------------
Silent == line' = NoLine
Goto(r, from, to) == pc[r] = from /\ pc' = [pc EXCEPT ![r] = to]

(* Start commits (the propagator is installed by then), with the sampler of    *)
(* the configuration, or with a noop provider when traces are off.             *)
Start ==
  /\ tracer' \in {Noop, SDK(conf)}
  /\ propagates' = TRUE
  /\ UNCHANGED <<loggerVars, conf, logSuccess, request>>
  /\ Silent

(* Shutdown puts a noop provider in.                                           *)
Shutdown ==
  /\ tracer' = Noop
  /\ UNCHANGED <<loggerVars, conf, propagates, logSuccess, request>>
  /\ Silent

(* SetGlobal of another Telemetry, before its Start or after it.               *)
SetGlobal ==
  /\ conf' \in Specs
  /\ tracer' \in {Noop, SDK(conf')}
  /\ propagates' = (propagates \/ tracer'.sdk)
  /\ UNCHANGED <<loggerVars, logSuccess, request>>
  /\ Silent

-----------------------------------------------------------------------------
(* A slip the properties below exclude: Ctx handing out the logger that        *)
(* StartSpan stored on the context.                                            *)
CtxStored(c) == IF c.stored # NoLogger THEN c.stored ELSE dflt

(* Ctx: with a span or with fields a child of the process logger of now,       *)
(* otherwise what zerolog.Ctx finds on the context, or its default.            *)
Ctx(c) ==
  IF Valid(c.sc) \/ c.fields THEN proc
  ELSE IF c.stored # NoLogger THEN c.stored ELSE dflt

(* contextWithTraceLogger.                                                     *)
WithTraceLogger(c) ==
  IF Valid(c.sc) \/ c.fields THEN [c EXCEPT !.stored = proc] ELSE c

(* One line through a context: its logger and the ids it carries.              *)
Log(r, kind, c) == line' = [req |-> r, kind |-> kind, sc |-> c.sc, logger |-> Ctx(c)]

(* StartSpan's second half, after the tracer has been read: the span, and the  *)
(* context that carries it.                                                    *)
NewContext(r, c, which, error) ==
  WithTraceLogger([c EXCEPT !.sc = StartOn(held[r], c.sc, <<r, which>>, r, error)])

StartedSpan(r, which, sc, error) ==
  spans' = [spans EXCEPT ![r][which] =
    [state |-> IF ~held[r].sdk THEN "noop" ELSE IF sc.sampled THEN "open" ELSE "dropped",
     spec |-> held[r].spec, error |-> error]]

(* EndSpan: with an error or without; a span that does not record ignores it.  *)
EndSpan(r, which, failed) ==
  spans' = [spans EXCEPT ![r][which].state =
    IF @ = "open" THEN IF failed THEN "failed" ELSE "ended" ELSE @]

(* The call is over: its context is out of scope.                              *)
CallReturns(r) ==
  /\ pc' = [pc EXCEPT ![r] = "handler"]
  /\ inner' = [inner EXCEPT ![r].ctx = Background]

-----------------------------------------------------------------------------
(* Slips the properties below exclude.                                         *)

(* The status read before the handler has set it.                              *)
EndServerEarly(r) ==
  /\ Goto(r, "end", IF status[r] = "fail" \/ logSuccess THEN "line" ELSE "done")
  /\ EndSpan(r, "server", FALSE)
  /\ UNCHANGED <<environment, inbound, held, ctx, inner, status, reports>>
  /\ Silent

(* A panic answered where only the status is looked at afterwards.             *)
RecoverAndComplete(r) ==
  /\ Goto(r, "panic", IF inbound[r].skip THEN "done" ELSE "line")
  /\ status' = [status EXCEPT ![r] = "panic"]
  /\ reports' = [reports EXCEPT ![r] = @ + 1]
  /\ line' = [req |-> r, kind |-> "panic", sc |-> NoSpan, logger |-> proc]
  /\ UNCHANGED <<environment, inbound, held, ctx, inner, spans>>

(* A failed call that returns before its span ends.                            *)
EndInnerUnlessFailed(r) ==
  /\ pc[r] \in {"fnEnd", "fnFail"}
  /\ CallReturns(r)
  /\ IF pc[r] = "fnEnd" THEN EndSpan(r, "inner", FALSE) ELSE UNCHANGED spans
  /\ UNCHANGED <<environment, inbound, held, ctx, status, reports>>
  /\ Silent

(* The line of TraceFunc with the context it was called with.                  *)
FnLineOutside(r) ==
  /\ pc[r] = "fnLine" /\ CallReturns(r)
  /\ Log(r, "func", ctx[r])
  /\ UNCHANGED <<environment, inbound, held, ctx, spans, status, reports>>
-----------------------------------------------------------------------------
(* Server: a skipped path goes to the handler at once, with no context stored; *)
(* otherwise Extract reads the headers, if a propagator is there to do it.     *)
Arrive(r) ==
  /\ Goto(r, "new", IF inbound[r].skip THEN "handler" ELSE "tracer")
  /\ LET read == propagates /\ ~inbound[r].skip /\ inbound[r].parent # "none"
         sc == [trace |-> Remote, span |-> Remote, sampled |-> inbound[r].parent = "sampled"]
     IN /\ ctx' = [ctx EXCEPT ![r].sc = IF read THEN sc ELSE NoSpan]
        /\ inbound' = [inbound EXCEPT ![r].parent = IF read THEN @ ELSE "none"]
  /\ UNCHANGED <<environment, held, inner, spans, status, reports>>
  /\ Silent

(* StartSpan: the tracer of FromCtx's Telemetry, read under its lock, ...      *)
ReadTracer(r) ==
  /\ Goto(r, "tracer", "span") \/ Goto(r, "call", "callSpan")
  /\ held' = [held EXCEPT ![r] = tracer]
  /\ UNCHANGED <<environment, inbound, ctx, inner, spans, status, reports>>
  /\ Silent

(* ... and used afterwards: the server's span, stored with its context.        *)
StartServer(r) ==
  /\ Goto(r, "span", "handler")
  /\ held' = [held EXCEPT ![r] = Noop]
  /\ LET c == NewContext(r, ctx[r], "server", FALSE)
     IN ctx' = [ctx EXCEPT ![r] = c] /\ StartedSpan(r, "server", c.sc, FALSE)
  /\ UNCHANGED <<environment, inbound, inner, status, reports>>
  /\ Silent

(* The handler, or the function it has traced, logs.                           *)
HandlerLogs(r) ==
  /\ \/ pc[r] = "handler" /\ Log(r, "handler", ctx[r])
     \/ pc[r] = "fn" /\ Log(r, "func", inner[r].ctx)
  /\ UNCHANGED <<environment, request>>

(* SetContext(ctx, WithFields(Context(ctx), ...)).                             *)
AddFields(r) ==
  /\ pc[r] = "handler"
  /\ ctx' = [ctx EXCEPT ![r].fields = TRUE]
  /\ UNCHANGED <<environment, pc, inbound, held, inner, spans, status, reports>>
  /\ Silent

(* TraceFunc, or a span the handler starts itself with an "error" among its    *)
(* attributes.                                                                 *)
Call(r) ==
  /\ inner[r].mode = "none"
  /\ Goto(r, "handler", "call")
  /\ \E mode \in {"func", "own"} : inner' = [inner EXCEPT ![r].mode = mode]
  /\ UNCHANGED <<environment, inbound, held, ctx, spans, status, reports>>
  /\ Silent

StartInner(r) ==
  /\ Goto(r, "callSpan", "fn")
  /\ held' = [held EXCEPT ![r] = Noop]
  /\ LET error == inner[r].mode = "own"
         c == NewContext(r, ctx[r], "inner", error)
     IN inner' = [inner EXCEPT ![r].ctx = c] /\ StartedSpan(r, "inner", c.sc, error)
  /\ UNCHANGED <<environment, inbound, ctx, status, reports>>
  /\ Silent

(* fn returns nil or an error, ...                                             *)
FnReturns(r) ==
  /\ Goto(r, "fn", "fnEnd") \/ Goto(r, "fn", "fnFail")
  /\ UNCHANGED <<environment, inbound, held, ctx, inner, spans, status, reports>>
  /\ Silent

(* ... the span ends with it, ...                                              *)
EndInner(r) ==
  /\ pc[r] \in {"fnEnd", "fnFail"}
  /\ EndSpan(r, "inner", pc[r] = "fnFail")
  /\ IF inner[r].mode = "func" THEN pc' = [pc EXCEPT ![r] = "fnLine"] /\ UNCHANGED inner
                              ELSE CallReturns(r)
  /\ UNCHANGED <<environment, inbound, held, ctx, status, reports>>
  /\ Silent

(* ... and TraceFunc logs once, in the context of the span it has ended.       *)
FnLine(r) ==
  /\ Goto(r, "fnLine", "handler")
  /\ Log(r, "func", inner[r].ctx)
  /\ UNCHANGED <<environment, inbound, held, ctx, inner, spans, status,
                 reports>>

(* The handler returns, having set a status below 500 or not.                  *)
HandlerReturns(r) ==
  /\ Goto(r, "handler", IF inbound[r].skip THEN "done" ELSE "end")
  /\ \E s \in {"ok", "fail"} : status' = [status EXCEPT ![r] = s]
  /\ UNCHANGED <<environment, inbound, held, ctx, inner, spans, reports>>
  /\ Silent

(* Server after next: the span ends, with an error from status 500 on; a       *)
(* success is not logged unless WithLogSuccess asks for it.                    *)
EndServer(r) ==
  /\ Goto(r, "end", IF status[r] = "fail" \/ logSuccess THEN "line" ELSE "done")
  /\ EndSpan(r, "server", status[r] = "fail")
  /\ UNCHANGED <<environment, inbound, held, ctx, inner, status, reports>>
  /\ Silent

CompletionLine(r) ==
  /\ Goto(r, "line", "done")
  /\ Log(r, "request", ctx[r])
  /\ reports' = [reports EXCEPT ![r] = @ + 1]
  /\ UNCHANGED <<environment, inbound, held, ctx, inner, spans, status>>

(* The handler, or the function it has traced, panics: nothing between it and  *)
(* Recover runs.                                                               *)
Panic(r) ==
  /\ Goto(r, "handler", "panic") \/ Goto(r, "fn", "panic")
  /\ UNCHANGED <<environment, inbound, held, ctx, inner, spans, status, reports>>
  /\ Silent

(* Recover: one line through the process logger, without ids, and status 500.  *)
Recover(r) ==
  /\ Goto(r, "panic", "done")
  /\ status' = [status EXCEPT ![r] = "panic"]
  /\ reports' = [reports EXCEPT ![r] = @ + 1]
  /\ line' = [req |-> r, kind |-> "panic", sc |-> NoSpan, logger |-> proc]
  /\ UNCHANGED <<environment, inbound, held, ctx, inner, spans>>

-----------------------------------------------------------------------------
ServerStep(r) == \/ Arrive(r) \/ ReadTracer(r) \/ StartServer(r) \/ EndServer(r)
                 \/ CompletionLine(r) \/ Recover(r)
HandlerStep(r) == \/ HandlerLogs(r) \/ AddFields(r) \/ Call(r) \/ HandlerReturns(r) \/ Panic(r)
CallStep(r) == StartInner(r) \/ FnReturns(r) \/ EndInner(r) \/ FnLine(r)

RNext == \/ Start \/ Shutdown \/ SetGlobal
         \/ \E r \in Requests : ServerStep(r) \/ HandlerStep(r) \/ CallStep(r)
         \/ LNext /\ UNCHANGED <<telemetry, logSuccess, request>> /\ Silent

RSpec == RInit /\ [][RNext]_vars

-----------------------------------------------------------------------------
(* A request that has returned leaves a span open only when a panic went past  *)
(* it, an inner span is over before the one around it ends, and the server's   *)
(* span has failed exactly when the response has (server.go:115-138,           *)
(* zlog_fields.go:38-44).                                                      *)
SpansSettled ==
  \A r \in Requests :
    LET server == spans[r].server.state
        child == spans[r].inner.state
    IN /\ pc[r] = "done" /\ status[r] # "panic" => server # "open" /\ child # "open"
       /\ server \in {"ended", "failed"} => child # "open" /\ pc[r] \in {"line", "done"}
       /\ server = "failed" => status[r] = "fail"
       /\ server = "ended" => status[r] = "ok"

(* A request that failed is reported by one line: Server's, or Recover's when  *)
(* it panicked, never both; a success by one at most (server.go:140-160,       *)
(* recover.go:15-32).                                                          *)
FailureReportedOnce ==
  \A r \in Requests :
    /\ reports[r] <= 1
    /\ pc[r] = "done" /\ (status[r] = "panic" \/ (status[r] = "fail" /\ ~inbound[r].skip))
         => reports[r] = 1

(* A line names the innermost span the SDK started around it, though it ended  *)
(* or its provider is gone; without any, the caller's, and without a caller    *)
(* none (zlog_fields.go:38-55, server.go:144, zlog.go:372-388).                *)
SpanOf(r, whiches) ==
  LET started == {w \in whiches : spans[r][w].state \notin {"none", "noop"}}
  IN IF "inner" \in started THEN <<r, "inner">>
     ELSE IF "server" \in started THEN <<r, "server">>
     ELSE IF inbound[r].parent # "none" THEN Remote ELSE None

LinesCorrelate ==
  /\ line.kind \in {"handler", "request"} => line.sc.span = SpanOf(line.req, {"server"})
  /\ line.kind = "func" => line.sc.span = SpanOf(line.req, {"server", "inner"})

(* Traces are kept or dropped whole under a parent-based sampler: the server's *)
(* span follows the caller, and an inner span the one around it, though the    *)
(* sampler changed in between or a noop provider stood in; and so they do      *)
(* under any one sampler, save a span started with an "error" (sampler.go:34-52,*)
(* 73-93).                                                                     *)
ParentBased(spec) == spec.parentbased \/ spec = Blank
Kept(state) == state \in {"open", "ended", "failed"}
SDKSpan(span) == span.state \notin {"none", "noop"}

TracesWhole ==
  \A r \in Requests :
    LET server == spans[r].server
        child == spans[r].inner
    IN /\ SDKSpan(server) /\ inbound[r].parent # "none" /\ ParentBased(server.spec)
            => (Kept(server.state) <=> inbound[r].parent = "sampled")
       /\ SDKSpan(server) /\ SDKSpan(child) /\
            (ParentBased(child.spec) \/ (child.spec = server.spec /\ ~child.error))
            => (Kept(server.state) <=> Kept(child.state))

(* A line goes to the process logger or to the default one of the moment it is *)
(* logged, never to one that both have left, such as the one of the moment the *)
(* request began; and once a call that replaced the process logger is over, to *)
(* the new one (zlog.go:363-388).                                              *)
LinesFollowLogger ==
  [][line' # NoLine => /\ line'.logger \in {proc, dflt}
                       /\ Quiet => line'.logger = proc]_vars
=============================================================================
