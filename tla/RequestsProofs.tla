--------------------------- MODULE RequestsProofs ---------------------------
(* Spans and reports of a request, for any number of requests, calls that      *)
(* configure the logger, and samplers.                                         *)
EXTENDS Requests, ProcessLoggerProofs

IsSpan(x) == x = [state |-> x.state, spec |-> x.spec, error |-> x.error]
IsPair(x) == /\ x = [server |-> x.server, inner |-> x.inner]
             /\ IsSpan(x.server) /\ IsSpan(x.inner)

(* The functions that the steps of requests change.                            *)
Shaped ==
  /\ pc \in [Requests -> RequestPC]
  /\ status \in [Requests -> {"none", "ok", "fail", "panic"}]
  /\ reports \in [Requests -> Nat]
  /\ inbound \in [Requests -> [parent: {"none", "sampled", "unsampled"}, skip: BOOLEAN]]
  /\ spans = [r \in Requests |-> spans[r]]
  /\ \A r \in Requests : IsPair(spans[r])

Panicked(p, s) == p = "panic" \/ (p = "done" /\ s = "panic")

(* Where a request is, its spans, what it has answered, and its reports.       *)
Settling(p, server, child, s, n) ==
  /\ n = 0 \/ (n = 1 /\ p = "done")
  /\ p \notin {"end", "line", "done"} => s = "none"
  /\ p \in {"end", "line"} => s \in {"ok", "fail"}
  /\ server \in {"ended", "failed"} => p \in {"line", "done"}
  /\ server = "ended" => s = "ok"
  /\ server = "failed" => s = "fail"
  /\ child = "open" => Panicked(p, s) \/ p \in {"fn", "fnEnd", "fnFail"}
  /\ server = "open" => Panicked(p, s) \/ p \in {"handler", "end"} \cup InnerPC
  /\ p = "done" /\ s = "panic" => n = 1

(* A skipped path has no span of Server's; any other path that fails has its   *)
(* report.                                                                     *)
Skipping(skip, p, server, s, n) ==
  /\ skip = TRUE => server = "none" /\ p \notin {"tracer", "span", "end", "line"}
  /\ skip = FALSE /\ p = "done" /\ s = "fail" => n = 1

RInv ==
  /\ Shaped
  /\ \A r \in Requests :
       /\ Settling(pc[r], spans[r].server.state, spans[r].inner.state, status[r], reports[r])
       /\ Skipping(inbound[r].skip, pc[r], spans[r].server.state, status[r], reports[r])

-----------------------------------------------------------------------------
(* What a new span in the place of the server's or the inner one leaves alone. *)
LEMMA ServerPut ==
  ASSUME Shaped, NEW r \in Requests, NEW x, IsSpan(x),
         spans' = [spans EXCEPT ![r].server = x]
  PROVE  /\ spans' = [q \in Requests |-> spans'[q]]
         /\ \A q \in Requests : IsPair(spans'[q])
         /\ \A q \in Requests : q # r => spans'[q] = spans[q]
         /\ spans'[r].server = x /\ spans'[r].inner = spans[r].inner
<1>1. spans'[r] = [spans[r] EXCEPT !.server = x]
  BY DEF Shaped
<1>2. spans'[r] = [server |-> x, inner |-> spans[r].inner] /\ IsSpan(spans[r].inner)
  BY <1>1 DEF Shaped, IsPair
<1>3. IsPair(spans'[r])
  BY <1>2 DEF IsPair
<1> QED BY <1>2, <1>3 DEF Shaped

(* The same, of the inner span.                                                *)
LEMMA InnerPut ==
  ASSUME Shaped, NEW r \in Requests, NEW x, IsSpan(x),
         spans' = [spans EXCEPT ![r].inner = x]
  PROVE  /\ spans' = [q \in Requests |-> spans'[q]]
         /\ \A q \in Requests : IsPair(spans'[q])
         /\ \A q \in Requests : q # r => spans'[q] = spans[q]
         /\ spans'[r].inner = x /\ spans'[r].server = spans[r].server
<1>1. spans'[r] = [spans[r] EXCEPT !.inner = x]
  BY DEF Shaped
<1>2. spans'[r] = [server |-> spans[r].server, inner |-> x] /\ IsSpan(spans[r].server)
  BY <1>1 DEF Shaped, IsPair
<1>3. IsPair(spans'[r])
  BY <1>2 DEF IsPair
<1> QED BY <1>2, <1>3 DEF Shaped

(* A span whose state changes.                                                 *)
LEMMA StatePut ==
  ASSUME NEW y, IsSpan(y), NEW st
  PROVE  [y EXCEPT !.state = st] = [state |-> st, spec |-> y.spec, error |-> y.error]
<1>1. PICK a, b, c : y = [state |-> a, spec |-> b, error |-> c]
  BY DEF IsSpan
<1> QED BY <1>1

(* EndSpan, of the server's span and of the inner one.                         *)
LEMMA ServerEnded ==
  ASSUME Shaped, NEW r \in Requests, NEW failed, EndSpan(r, "server", failed)
  PROVE  /\ spans' = [q \in Requests |-> spans'[q]]
         /\ \A q \in Requests : IsPair(spans'[q])
         /\ \A q \in Requests : q # r => spans'[q] = spans[q]
         /\ spans'[r].inner = spans[r].inner
         /\ spans'[r].server.state = IF spans[r].server.state = "open"
              THEN IF failed THEN "failed" ELSE "ended" ELSE spans[r].server.state
         /\ spans'[r].server.spec = spans[r].server.spec
         /\ spans'[r].server.error = spans[r].server.error
<1> DEFINE st == IF spans[r].server.state = "open"
              THEN IF failed THEN "failed" ELSE "ended" ELSE spans[r].server.state
<1>1. PICK x : x = [state |-> st, spec |-> spans[r].server.spec, error |-> spans[r].server.error]
  OBVIOUS
<1>2. spans' = [spans EXCEPT ![r].server = [spans[r].server EXCEPT !.state = st]]
  BY Zenon DEF EndSpan, Shaped
<1> HIDE DEF st
<1>3. [spans[r].server EXCEPT !.state = st] = x
  BY <1>1, StatePut DEF Shaped, IsPair
<1>4. spans' = [spans EXCEPT ![r].server = x] /\ IsSpan(x) /\ x.state = st
  BY <1>1, <1>2, <1>3 DEF IsSpan
<1>5. x.spec = spans[r].server.spec /\ x.error = spans[r].server.error
  BY <1>1
<1> QED BY <1>4, <1>5, ServerPut DEF st

(* The same, of the inner span.                                                *)
LEMMA InnerEnded ==
  ASSUME Shaped, NEW r \in Requests, NEW failed, EndSpan(r, "inner", failed)
  PROVE  /\ spans' = [q \in Requests |-> spans'[q]]
         /\ \A q \in Requests : IsPair(spans'[q])
         /\ \A q \in Requests : q # r => spans'[q] = spans[q]
         /\ spans'[r].server = spans[r].server
         /\ spans'[r].inner.state # "open"
         /\ \/ spans'[r].inner.state = spans[r].inner.state
            \/ /\ spans[r].inner.state = "open"
               /\ spans'[r].inner.state \in {"ended", "failed"}
         /\ spans'[r].inner.spec = spans[r].inner.spec
         /\ spans'[r].inner.error = spans[r].inner.error
<1> DEFINE st == IF spans[r].inner.state = "open"
              THEN IF failed THEN "failed" ELSE "ended" ELSE spans[r].inner.state
<1>1. PICK x : x = [state |-> st, spec |-> spans[r].inner.spec, error |-> spans[r].inner.error]
  OBVIOUS
<1>2. spans' = [spans EXCEPT ![r].inner = [spans[r].inner EXCEPT !.state = st]]
  BY Zenon DEF EndSpan, Shaped
<1>3. /\ st # "open"
      /\ \/ st = spans[r].inner.state
         \/ spans[r].inner.state = "open" /\ st \in {"ended", "failed"}
  OBVIOUS
<1> HIDE DEF st
<1>4. [spans[r].inner EXCEPT !.state = st] = x
  BY <1>1, StatePut DEF Shaped, IsPair
<1>5. spans' = [spans EXCEPT ![r].inner = x] /\ IsSpan(x) /\ x.state = st
  BY <1>1, <1>2, <1>4 DEF IsSpan
<1>6. x.spec = spans[r].inner.spec /\ x.error = spans[r].inner.error
  BY <1>1
<1> QED BY <1>3, <1>5, <1>6, InnerPut

(* StartSpan, likewise.                                                        *)
LEMMA ServerStarted ==
  ASSUME Shaped, NEW r \in Requests, NEW sc, NEW error, StartedSpan(r, "server", sc, error)
  PROVE  /\ spans' = [q \in Requests |-> spans'[q]]
         /\ \A q \in Requests : IsPair(spans'[q])
         /\ \A q \in Requests : q # r => spans'[q] = spans[q]
         /\ spans'[r].inner = spans[r].inner
         /\ spans'[r].server.state \in {"noop", "open", "dropped"}
         /\ spans'[r].server.state = IF ~held[r].sdk THEN "noop"
                                    ELSE IF sc.sampled THEN "open" ELSE "dropped"
         /\ spans'[r].server.spec = held[r].spec
<1> DEFINE st == IF ~held[r].sdk THEN "noop" ELSE IF sc.sampled THEN "open" ELSE "dropped"
<1>1. PICK x : x = [state |-> st, spec |-> held[r].spec, error |-> error]
  OBVIOUS
<1>2. spans' = [spans EXCEPT ![r].server = x]
  BY <1>1, Zenon DEF StartedSpan
<1>3. st \in {"noop", "open", "dropped"}
  OBVIOUS
<1> HIDE DEF st
<1>4. IsSpan(x) /\ x.state = st /\ x.spec = held[r].spec
  BY <1>1 DEF IsSpan
<1> QED BY <1>2, <1>3, <1>4, ServerPut DEF st

(* The same, of the inner span.                                                *)
LEMMA InnerStarted ==
  ASSUME Shaped, NEW r \in Requests, NEW sc, NEW error, StartedSpan(r, "inner", sc, error)
  PROVE  /\ spans' = [q \in Requests |-> spans'[q]]
         /\ \A q \in Requests : IsPair(spans'[q])
         /\ \A q \in Requests : q # r => spans'[q] = spans[q]
         /\ spans'[r].server = spans[r].server
         /\ spans'[r].inner.state = IF ~held[r].sdk THEN "noop"
                                   ELSE IF sc.sampled THEN "open" ELSE "dropped"
         /\ spans'[r].inner.spec = held[r].spec /\ spans'[r].inner.error = error
<1> DEFINE st == IF ~held[r].sdk THEN "noop" ELSE IF sc.sampled THEN "open" ELSE "dropped"
<1>1. PICK x : x = [state |-> st, spec |-> held[r].spec, error |-> error]
  OBVIOUS
<1>2. spans' = [spans EXCEPT ![r].inner = x]
  BY <1>1, Zenon DEF StartedSpan
<1> HIDE DEF st
<1>3. IsSpan(x) /\ x.state = st /\ x.spec = held[r].spec /\ x.error = error
  BY <1>1 DEF IsSpan
<1>4. spans'[r].inner.state = st
  BY <1>2, <1>3, InnerPut
<1>5. spans'[r].inner.state = IF ~held[r].sdk THEN "noop"
                             ELSE IF sc.sampled THEN "open" ELSE "dropped"
  BY <1>4 DEF st
<1> QED BY <1>2, <1>3, <1>5, InnerPut

-----------------------------------------------------------------------------
(* A step of r keeps the invariant for r and leaves the other requests alone.  *)
Advances(r) ==
  /\ Shaped'
  /\ Settling(pc[r], spans[r].server.state, spans[r].inner.state, status[r], reports[r])'
  /\ Skipping(inbound[r].skip, pc[r], spans[r].server.state, status[r], reports[r])'
  /\ \A q \in Requests : q # r =>
       /\ pc'[q] = pc[q] /\ spans'[q] = spans[q] /\ status'[q] = status[q]
       /\ reports'[q] = reports[q] /\ inbound'[q].skip = inbound[q].skip

(* A step of one request keeps the invariant when it does so for that request. *)
LEMMA OneRequest == ASSUME RInv, NEW r \in Requests, Advances(r) PROVE RInv'
BY Zenon DEF RInv, Advances

-----------------------------------------------------------------------------
(* No request has begun.                                                       *)
LEMMA RInvInit == RInit => RInv
<1> SUFFICES ASSUME RInit PROVE RInv
  OBVIOUS
<1>1. \A r \in Requests : /\ pc[r] = "new" /\ status[r] = "none" /\ reports[r] = 0
                         /\ spans[r] = [server |-> NotStarted, inner |-> NotStarted]
  BY DEF RInit
<1>2. \A r \in Requests : /\ IsPair(spans[r])
                         /\ spans[r].server.state = "none" /\ spans[r].inner.state = "none"
  BY <1>1 DEF IsPair, IsSpan, NotStarted
<1>3. Shaped
  <2>1. spans = [r \in Requests |-> spans[r]]
    BY DEF RInit
  <2>2. /\ pc \in [Requests -> RequestPC]
        /\ status \in [Requests -> {"none", "ok", "fail", "panic"}]
        /\ reports \in [Requests -> Nat]
    BY DEF RInit, RequestPC
  <2>3. inbound \in [Requests -> [parent: {"none", "sampled", "unsampled"}, skip: BOOLEAN]]
    BY DEF RInit
  <2> QED BY <1>2, <2>1, <2>2, <2>3 DEF Shaped
<1> QED BY <1>1, <1>2, <1>3 DEF RInv, Settling, Skipping

(* ReadTracer, Call, FnReturns and Panic move a request on and touch neither   *)
(* its spans nor its answer.                                                   *)
LEMMA MoveAdvances ==
  ASSUME RInv, NEW r \in Requests, UNCHANGED <<spans, inbound, status, reports>>,
         \/ Goto(r, "tracer", "span") \/ Goto(r, "call", "callSpan")
         \/ Goto(r, "handler", "call") \/ Goto(r, "fn", "fnEnd") \/ Goto(r, "fn", "fnFail")
         \/ Goto(r, "handler", "panic") \/ Goto(r, "fn", "panic")
         \/ Goto(r, "fnLine", "handler")
  PROVE  Advances(r)
<1>1. PICK to \in RequestPC : pc' = [pc EXCEPT ![r] = to]
  BY DEF Goto, RequestPC, InnerPC
<1>2. /\ pc' \in [Requests -> RequestPC] /\ pc'[r] = to
      /\ \A q \in Requests : q # r => pc'[q] = pc[q]
  BY <1>1 DEF RInv, Shaped
<1>3. Shaped'
  BY <1>2 DEF RInv, Shaped
<1>4. Settling(pc[r], spans[r].server.state, spans[r].inner.state, status[r], reports[r])'
  BY <1>2 DEF RInv, Shaped, Settling, Goto, Panicked, InnerPC
<1>5. Skipping(inbound[r].skip, pc[r], spans[r].server.state, status[r], reports[r])'
  BY <1>2 DEF RInv, Shaped, Skipping, Goto
<1> QED BY <1>2, <1>3, <1>4, <1>5 DEF Advances

(* The steps that begin and end a span.                                        *)
LEMMA StartServerAdvances == ASSUME RInv, NEW r \in Requests, StartServer(r) PROVE Advances(r)
<1>1. PICK to \in RequestPC : pc[r] = "span" /\ to = "handler" /\ pc' = [pc EXCEPT ![r] = to]
  BY DEF StartServer, Goto, CallReturns, RequestPC, InnerPC
<1>2. /\ pc' \in [Requests -> RequestPC] /\ pc'[r] = to
      /\ \A q \in Requests : q # r => pc'[q] = pc[q]
  BY <1>1 DEF RInv, Shaped
<1>3. Shaped
  BY DEF RInv
<1>4. /\ spans' = [q \in Requests |-> spans'[q]] /\ (\A q \in Requests : IsPair(spans'[q]))
      /\ \A q \in Requests : q # r => spans'[q] = spans[q]
      /\ spans'[r].inner = spans[r].inner
      /\ spans'[r].server.state \in {"noop", "open", "dropped"}
  <2>1. PICK c : StartedSpan(r, "server", c.sc, FALSE)
    BY DEF StartServer
  <2> QED BY <1>3, <2>1, ServerStarted
<1>5. /\ status' = status /\ reports' = reports /\ inbound' = inbound
  BY DEF StartServer
<1>6. Shaped'
  BY <1>2, <1>3, <1>4, <1>5 DEF Shaped
<1>7. Settling(pc[r], spans[r].server.state, spans[r].inner.state, status[r], reports[r])'
  BY <1>1, <1>2, <1>4, <1>5 DEF RInv, Settling, Panicked, InnerPC
<1>8. Skipping(inbound[r].skip, pc[r], spans[r].server.state, status[r], reports[r])'
  BY <1>1, <1>2, <1>3, <1>4, <1>5 DEF RInv, Skipping
<1> QED BY <1>2, <1>4, <1>5, <1>6, <1>7, <1>8 DEF Advances

(* The span of a call.                                                         *)
LEMMA StartInnerAdvances == ASSUME RInv, NEW r \in Requests, StartInner(r) PROVE Advances(r)
<1>1. PICK to \in RequestPC : pc[r] = "callSpan" /\ to = "fn" /\ pc' = [pc EXCEPT ![r] = to]
  BY DEF StartInner, Goto, CallReturns, RequestPC, InnerPC
<1>2. /\ pc' \in [Requests -> RequestPC] /\ pc'[r] = to
      /\ \A q \in Requests : q # r => pc'[q] = pc[q]
  BY <1>1 DEF RInv, Shaped
<1>3. Shaped
  BY DEF RInv
<1>4. /\ spans' = [q \in Requests |-> spans'[q]] /\ (\A q \in Requests : IsPair(spans'[q]))
      /\ \A q \in Requests : q # r => spans'[q] = spans[q]
      /\ spans'[r].server = spans[r].server
  <2>1. PICK c, error : StartedSpan(r, "inner", c.sc, error)
    BY DEF StartInner
  <2> QED BY <1>3, <2>1, InnerStarted
<1>5. /\ status' = status /\ reports' = reports /\ inbound' = inbound
  BY DEF StartInner
<1>6. Shaped'
  BY <1>2, <1>3, <1>4, <1>5 DEF Shaped
<1>7. Settling(pc[r], spans[r].server.state, spans[r].inner.state, status[r], reports[r])'
  BY <1>1, <1>2, <1>4, <1>5 DEF RInv, Settling, Panicked, InnerPC
<1>8. Skipping(inbound[r].skip, pc[r], spans[r].server.state, status[r], reports[r])'
  BY <1>1, <1>2, <1>3, <1>4, <1>5 DEF RInv, Skipping
<1> QED BY <1>2, <1>4, <1>5, <1>6, <1>7, <1>8 DEF Advances

(* Its end, with the call's error or without.                                  *)
LEMMA EndInnerAdvances == ASSUME RInv, NEW r \in Requests, EndInner(r) PROVE Advances(r)
<1>1. PICK to \in RequestPC : /\ pc[r] \in {"fnEnd", "fnFail"} /\ to \in {"fnLine", "handler"}
                             /\ pc' = [pc EXCEPT ![r] = to]
  BY DEF EndInner, Goto, CallReturns, RequestPC, InnerPC
<1>2. /\ pc' \in [Requests -> RequestPC] /\ pc'[r] = to
      /\ \A q \in Requests : q # r => pc'[q] = pc[q]
  BY <1>1 DEF RInv, Shaped
<1>3. Shaped
  BY DEF RInv
<1>4. /\ spans' = [q \in Requests |-> spans'[q]] /\ (\A q \in Requests : IsPair(spans'[q]))
      /\ \A q \in Requests : q # r => spans'[q] = spans[q]
      /\ spans'[r].server = spans[r].server /\ spans'[r].inner.state # "open"
  BY <1>3, InnerEnded DEF EndInner
<1>5. /\ status' = status /\ reports' = reports /\ inbound' = inbound
  BY DEF EndInner
<1>6. Shaped'
  BY <1>2, <1>3, <1>4, <1>5 DEF Shaped
<1>7. Settling(pc[r], spans[r].server.state, spans[r].inner.state, status[r], reports[r])'
  BY <1>1, <1>2, <1>4, <1>5 DEF RInv, Settling, Panicked, InnerPC
<1>8. Skipping(inbound[r].skip, pc[r], spans[r].server.state, status[r], reports[r])'
  BY <1>1, <1>2, <1>3, <1>4, <1>5 DEF RInv, Skipping
<1> QED BY <1>2, <1>4, <1>5, <1>6, <1>7, <1>8 DEF Advances

(* The end of Server's span, with the response.                                *)
LEMMA EndServerAdvances == ASSUME RInv, NEW r \in Requests, EndServer(r) PROVE Advances(r)
<1>1. PICK to \in RequestPC : /\ pc[r] = "end" /\ to \in {"line", "done"}
                              /\ status[r] = "fail" => to = "line"
                              /\ pc' = [pc EXCEPT ![r] = to]
  BY DEF EndServer, Goto, CallReturns, RequestPC, InnerPC
<1>2. /\ pc' \in [Requests -> RequestPC] /\ pc'[r] = to
      /\ \A q \in Requests : q # r => pc'[q] = pc[q]
  BY <1>1 DEF RInv, Shaped
<1>3. Shaped
  BY DEF RInv
<1>4. /\ spans' = [q \in Requests |-> spans'[q]] /\ (\A q \in Requests : IsPair(spans'[q]))
      /\ \A q \in Requests : q # r => spans'[q] = spans[q]
      /\ spans'[r].inner = spans[r].inner
      /\ spans'[r].server.state = IF spans[r].server.state = "open"
           THEN IF status[r] = "fail" THEN "failed" ELSE "ended" ELSE spans[r].server.state
  BY <1>3, ServerEnded DEF EndServer
<1>5. /\ status' = status /\ reports' = reports /\ inbound' = inbound
  BY DEF EndServer
<1>6. Shaped'
  BY <1>2, <1>3, <1>4, <1>5 DEF Shaped
<1>7. Settling(pc[r], spans[r].server.state, spans[r].inner.state, status[r], reports[r])'
  BY <1>1, <1>2, <1>4, <1>5 DEF RInv, Settling, Panicked, InnerPC
<1>8. Skipping(inbound[r].skip, pc[r], spans[r].server.state, status[r], reports[r])'
  BY <1>1, <1>2, <1>3, <1>4, <1>5 DEF RInv, Skipping
<1> QED BY <1>2, <1>4, <1>5, <1>6, <1>7, <1>8 DEF Advances

(* Arrive never sends a skipped path to StartSpan.                             *)
LEMMA ArriveAdvances == ASSUME RInv, NEW r \in Requests, Arrive(r) PROVE Advances(r)
<1>1. PICK to \in RequestPC : /\ pc[r] = "new" /\ to \in {"handler", "tracer"}
                              /\ inbound[r].skip = TRUE => to = "handler"
                              /\ pc' = [pc EXCEPT ![r] = to]
  BY DEF Arrive, Goto, CallReturns, RequestPC, InnerPC
<1>2. /\ pc' \in [Requests -> RequestPC] /\ pc'[r] = to
      /\ \A q \in Requests : q # r => pc'[q] = pc[q]
  BY <1>1 DEF RInv, Shaped
<1>3. Shaped
  BY DEF RInv
<1>4. spans' = spans
  BY DEF Arrive
<1>5. /\ status' = status /\ reports' = reports
      /\ inbound' \in [Requests -> [parent: {"none", "sampled", "unsampled"}, skip: BOOLEAN]]
      /\ \A q \in Requests : inbound'[q].skip = inbound[q].skip
  <2>1. PICK p \in {"none", "sampled", "unsampled"} : inbound' = [inbound EXCEPT ![r].parent = p]
    <3>1. inbound[r].parent \in {"none", "sampled", "unsampled"}
      BY <1>3 DEF Shaped
    <3> QED BY <3>1 DEF Arrive
  <2>2. /\ inbound' \in [Requests -> [parent: {"none", "sampled", "unsampled"}, skip: BOOLEAN]]
        /\ \A q \in Requests : inbound'[q].skip = inbound[q].skip
    BY <1>3, <2>1 DEF Shaped
  <2> QED BY <2>2 DEF Arrive
<1>6. Shaped'
  BY <1>2, <1>3, <1>4, <1>5 DEF Shaped
<1>7. Settling(pc[r], spans[r].server.state, spans[r].inner.state, status[r], reports[r])'
  BY <1>1, <1>2, <1>4, <1>5 DEF RInv, Settling, Panicked, InnerPC
<1>8. Skipping(inbound[r].skip, pc[r], spans[r].server.state, status[r], reports[r])'
  BY <1>1, <1>2, <1>3, <1>4, <1>5 DEF RInv, Skipping
<1> QED BY <1>2, <1>4, <1>5, <1>6, <1>7, <1>8 DEF Advances

(* The steps that answer and report.                                           *)
LEMMA HandlerReturnsAdvances == ASSUME RInv, NEW r \in Requests, HandlerReturns(r) PROVE Advances(r)
<1>1. PICK to \in RequestPC : /\ pc[r] = "handler"
                              /\ inbound[r].skip = TRUE => to = "done"
                              /\ inbound[r].skip = FALSE => to = "end"
                              /\ to \in {"done", "end"}
                              /\ pc' = [pc EXCEPT ![r] = to]
  BY DEF HandlerReturns, Goto, CallReturns, RequestPC, InnerPC
<1>2. /\ pc' \in [Requests -> RequestPC] /\ pc'[r] = to
      /\ \A q \in Requests : q # r => pc'[q] = pc[q]
  BY <1>1 DEF RInv, Shaped
<1>3. Shaped
  BY DEF RInv
<1>4. spans' = spans
  BY DEF HandlerReturns
<1>5. /\ status'[r] \in {"ok", "fail"} /\ reports' = reports /\ inbound' = inbound
      /\ status' \in [Requests -> {"none", "ok", "fail", "panic"}]
      /\ \A q \in Requests : q # r => status'[q] = status[q]
  BY <1>3 DEF HandlerReturns, Shaped
<1>6. Shaped'
  BY <1>2, <1>3, <1>4, <1>5 DEF Shaped
<1>7. Settling(pc[r], spans[r].server.state, spans[r].inner.state, status[r], reports[r])'
  <2>1. inbound[r].skip = TRUE \/ inbound[r].skip = FALSE
    BY <1>3 DEF Shaped
  <2>2. to = "done" => spans[r].server.state = "none"
    BY <1>1, <2>1 DEF RInv, Skipping
  <2> QED BY <1>1, <1>2, <1>4, <1>5, <2>2 DEF RInv, Settling, Panicked, InnerPC
<1>8. Skipping(inbound[r].skip, pc[r], spans[r].server.state, status[r], reports[r])'
  BY <1>1, <1>2, <1>3, <1>4, <1>5 DEF RInv, Skipping
<1> QED BY <1>2, <1>4, <1>5, <1>6, <1>7, <1>8 DEF Advances

(* Server's report.                                                            *)
LEMMA CompletionLineAdvances == ASSUME RInv, NEW r \in Requests, CompletionLine(r) PROVE Advances(r)
<1>1. PICK to \in RequestPC : pc[r] = "line" /\ to = "done" /\ pc' = [pc EXCEPT ![r] = to]
  BY DEF CompletionLine, Goto, CallReturns, RequestPC, InnerPC
<1>2. /\ pc' \in [Requests -> RequestPC] /\ pc'[r] = to
      /\ \A q \in Requests : q # r => pc'[q] = pc[q]
  BY <1>1 DEF RInv, Shaped
<1>3. Shaped
  BY DEF RInv
<1>4. spans' = spans
  BY DEF CompletionLine
<1>5. /\ status'[r] = status[r] /\ inbound' = inbound /\ reports'[r] = reports[r] + 1
      /\ reports' \in [Requests -> Nat]
      /\ status' \in [Requests -> {"none", "ok", "fail", "panic"}]
      /\ \A q \in Requests : q # r => reports'[q] = reports[q] /\ status'[q] = status[q]
  BY <1>3 DEF CompletionLine, Shaped
<1>6. Shaped'
  BY <1>2, <1>3, <1>4, <1>5 DEF Shaped
<1>7. Settling(pc[r], spans[r].server.state, spans[r].inner.state, status[r], reports[r])'
  BY <1>1, <1>2, <1>4, <1>5 DEF RInv, Settling, Panicked, InnerPC
<1>8. Skipping(inbound[r].skip, pc[r], spans[r].server.state, status[r], reports[r])'
  BY <1>1, <1>2, <1>3, <1>4, <1>5 DEF RInv, Skipping, Settling
<1> QED BY <1>2, <1>4, <1>5, <1>6, <1>7, <1>8 DEF Advances

(* Recover's report.                                                           *)
LEMMA RecoverAdvances == ASSUME RInv, NEW r \in Requests, Recover(r) PROVE Advances(r)
<1>1. PICK to \in RequestPC : pc[r] = "panic" /\ to = "done" /\ pc' = [pc EXCEPT ![r] = to]
  BY DEF Recover, Goto, CallReturns, RequestPC, InnerPC
<1>2. /\ pc' \in [Requests -> RequestPC] /\ pc'[r] = to
      /\ \A q \in Requests : q # r => pc'[q] = pc[q]
  BY <1>1 DEF RInv, Shaped
<1>3. Shaped
  BY DEF RInv
<1>4. spans' = spans
  BY DEF Recover
<1>5. /\ status'[r] = "panic" /\ inbound' = inbound /\ reports'[r] = reports[r] + 1
      /\ reports' \in [Requests -> Nat]
      /\ status' \in [Requests -> {"none", "ok", "fail", "panic"}]
      /\ \A q \in Requests : q # r => reports'[q] = reports[q] /\ status'[q] = status[q]
  BY <1>3 DEF Recover, Shaped
<1>6. Shaped'
  BY <1>2, <1>3, <1>4, <1>5 DEF Shaped
<1>7. Settling(pc[r], spans[r].server.state, spans[r].inner.state, status[r], reports[r])'
  BY <1>1, <1>2, <1>4, <1>5 DEF RInv, Settling, Panicked, InnerPC
<1>8. Skipping(inbound[r].skip, pc[r], spans[r].server.state, status[r], reports[r])'
  BY <1>1, <1>2, <1>3, <1>4, <1>5 DEF RInv, Skipping
<1> QED BY <1>2, <1>4, <1>5, <1>6, <1>7, <1>8 DEF Advances

-----------------------------------------------------------------------------
(* Every step keeps the invariant: a request's, or one that leaves all of them *)
(* alone.                                                                      *)
LEMMA RInvNext == RInv /\ [RNext]_vars => RInv'
<1> SUFFICES ASSUME RInv, [RNext]_vars PROVE RInv'
  OBVIOUS
<1>1. CASE UNCHANGED <<pc, spans, status, reports, inbound>>
  BY <1>1 DEF RInv, Shaped
<1>2. ASSUME NEW r \in Requests, ServerStep(r) PROVE RInv'
  <2>1. CASE ReadTracer(r)
    BY <2>1, MoveAdvances, OneRequest DEF ReadTracer
  <2> QED BY <1>2, <2>1, ArriveAdvances, StartServerAdvances, EndServerAdvances,
            CompletionLineAdvances, RecoverAdvances, OneRequest DEF ServerStep
<1>3. ASSUME NEW r \in Requests, HandlerStep(r) PROVE RInv'
  <2>1. CASE HandlerLogs(r) \/ AddFields(r)
    <3>1. UNCHANGED <<pc, spans, status, reports, inbound>>
      BY <2>1 DEF HandlerLogs, AddFields, request
    <3> QED BY <1>1, <3>1
  <2>2. CASE Call(r)
    BY <2>2, MoveAdvances, OneRequest DEF Call
  <2>3. CASE Panic(r)
    BY <2>3, MoveAdvances, OneRequest DEF Panic
  <2> QED BY <1>3, <2>1, <2>2, <2>3, HandlerReturnsAdvances, OneRequest DEF HandlerStep
<1>4. ASSUME NEW r \in Requests, CallStep(r) PROVE RInv'
  <2>1. CASE FnReturns(r)
    BY <2>1, MoveAdvances, OneRequest DEF FnReturns
  <2>2. CASE FnLine(r)
    BY <2>2, MoveAdvances, OneRequest DEF FnLine
  <2> QED BY <1>4, <2>1, <2>2, StartInnerAdvances, EndInnerAdvances, OneRequest DEF CallStep
<1>5. CASE Start \/ Shutdown \/ SetGlobal
  <2>1. UNCHANGED <<pc, spans, status, reports, inbound>>
    BY <1>5 DEF Start, Shutdown, SetGlobal, request
  <2> QED BY <1>1, <2>1
<1>6. CASE LNext /\ UNCHANGED <<telemetry, logSuccess, request>> /\ Silent
  <2>1. UNCHANGED <<pc, spans, status, reports, inbound>>
    BY <1>6 DEF request
  <2> QED BY <1>1, <2>1
<1>7. CASE UNCHANGED vars
  <2>1. UNCHANGED <<pc, spans, status, reports, inbound>>
    BY <1>7 DEF vars, request
  <2> QED BY <1>1, <2>1
<1> QED BY <1>2, <1>3, <1>4, <1>5, <1>6, <1>7 DEF RNext

(* The invariant of requests: where each one is, its spans, its answer and its *)
(* reports go together, whatever happens to the Telemetry and to the logger.   *)
THEOREM RequestInvariance == RSpec => []RInv
BY RInvInit, RInvNext, PTL DEF RSpec

(* No request leaves a span open save by a panic, inner spans end before outer *)
(* ones, and Server's span fails exactly with the response (server.go:115-138, *)
(* zlog_fields.go:38-44).                                                      *)
THEOREM SettledSpans == RSpec => []SpansSettled
<1>1. RInv => SpansSettled
  BY DEF RInv, SpansSettled, Settling, Panicked, InnerPC
<1> QED BY <1>1, RequestInvariance, PTL

(* A request that failed or panicked is reported by exactly one line, a        *)
(* success by one at most (server.go:140-160, recover.go:15-32).               *)
THEOREM ReportedOnce == RSpec => []FailureReportedOnce
<1>1. RInv => FailureReportedOnce
  <2> SUFFICES ASSUME RInv, NEW r \in Requests
               PROVE  /\ reports[r] <= 1
                      /\ pc[r] = "done"
                         /\ (status[r] = "panic" \/ (status[r] = "fail" /\ ~inbound[r].skip))
                           => reports[r] = 1
    BY DEF FailureReportedOnce
  <2>1. inbound[r].skip \in BOOLEAN
    BY DEF RInv, Shaped
  <2>2. reports[r] <= 1 /\ (pc[r] = "done" /\ status[r] = "panic" => reports[r] = 1)
    BY DEF RInv, Settling
  <2>3. pc[r] = "done" /\ status[r] = "fail" /\ ~inbound[r].skip => reports[r] = 1
    BY <2>1 DEF RInv, Skipping
  <2> QED BY <2>2, <2>3
<1> QED BY <1>1, RequestInvariance, PTL

-----------------------------------------------------------------------------
(* Contexts, and what is written through them.                                 *)

IsCtx(c) == c = [sc |-> c.sc, fields |-> c.fields, stored |-> c.stored]
IsCall(x) == x = [ctx |-> x.ctx, mode |-> x.mode] /\ IsCtx(x.ctx)

Contextual ==
  /\ ctx = [r \in Requests |-> ctx[r]] /\ inner = [r \in Requests |-> inner[r]]
  /\ \A r \in Requests : IsCtx(ctx[r]) /\ IsCall(inner[r])

(* A context on which a logger is stored never hands that logger out.          *)
Passed(c) == c.stored = NoLogger \/ Valid(c.sc) \/ c.fields

Caller(parent) ==
  IF parent = "none" THEN NoSpan
  ELSE [trace |-> Remote, span |-> Remote, sampled |-> parent = "sampled"]
Outer(r, parent, server) ==
  IF SDKSpan(server) THEN <<r, "server">> ELSE IF parent # "none" THEN Remote ELSE None

(* How the span context of a request is woven into its caller's: until Server  *)
(* has started its span, it is the caller's; from then on it has the id of the *)
(* span, is sampled as the span is kept, and the sampler that is not           *)
(* parent-based decided by the trace alone.                                    *)
Woven(r, p, parent, server, child, sc) ==
  /\ p \in {"new", "tracer", "span"} => server.state = "none" /\ child.state = "none"
  /\ p \in {"tracer", "span"} => sc = Caller(parent)
  /\ p # "new" => sc.span = Outer(r, parent, server)
  /\ sc = NoSpan \/ sc.trace \in Traces
  /\ SDKSpan(server) =>
       /\ sc.trace \in Traces
       /\ sc.sampled <=> Kept(server.state)
       /\ ~ParentBased(server.spec) =>
            (sc.sampled <=> InnerDecision(InnerSampler(server.spec), sc.trace, FALSE))

(* Within a call, the context is that of the inner span.                       *)
WovenCall(r, p, parent, server, child, sc) ==
  p \in {"fn", "fnEnd", "fnFail", "fnLine"} =>
    sc.span = IF SDKSpan(child) THEN <<r, "inner">> ELSE Outer(r, parent, server)

(* Kept whole, for one request.                                                *)
Whole(parent, server, child) ==
  /\ SDKSpan(server) /\ parent # "none" /\ ParentBased(server.spec)
       => (Kept(server.state) <=> parent = "sampled")
  /\ SDKSpan(server) /\ SDKSpan(child) /\
       (ParentBased(child.spec) \/ (child.spec = server.spec /\ ~child.error))
       => (Kept(server.state) <=> Kept(child.state))

WovenRequest(r) ==
  /\ Woven(r, pc[r], inbound[r].parent, spans[r].server, spans[r].inner, ctx[r].sc)
  /\ WovenCall(r, pc[r], inbound[r].parent, spans[r].server, spans[r].inner, inner[r].ctx.sc)
  /\ Whole(inbound[r].parent, spans[r].server, spans[r].inner)
  /\ Passed(ctx[r]) /\ Passed(inner[r].ctx)
  /\ pc[r] = "new" => ctx[r].stored = NoLogger

(* The inductive invariant of contexts.                                        *)
WInv == Contextual /\ \A r \in Requests : WovenRequest(r)

-----------------------------------------------------------------------------
(* What a sampler decides: a parent-based one by the span it finds, any other  *)
(* by the trace.                                                               *)
LEMMA Decides ==
  ASSUME NEW spec, NEW sc, NEW trace, NEW error
  PROVE  /\ ParentBased(spec) /\ Valid(sc)
              => ShouldSample(ParseTraceSampler(spec), sc, trace, error) = sc.sampled
         /\ ~ParentBased(spec)
              => ShouldSample(ParseTraceSampler(spec), sc, trace, error)
                   = InnerDecision(InnerSampler(spec), trace, error)
<1>1. CASE spec = Blank
  BY <1>1 DEF ShouldSample, ParseTraceSampler, ParentBased, DefaultTracesSampler
<1>2. CASE spec # Blank
  BY <1>2 DEF ShouldSample, ParseTraceSampler, ParentBased
<1> QED BY <1>1, <1>2

(* A span context with a trace is valid.                                       *)
LEMMA Known == /\ None \notin Traces /\ Remote \in Traces /\ Requests \subseteq Traces
               /\ \A sc : sc.trace \in Traces => Valid(sc)
BY RequestAssumption, TraceAssumption DEF Valid, NoSpan

(* The caller's span context.                                                  *)
LEMMA CallerIs ==
  ASSUME NEW parent \in {"none", "sampled", "unsampled"}
  PROVE  /\ parent = "none" => Caller(parent) = NoSpan /\ Caller(parent).span = None
         /\ parent # "none" => /\ Caller(parent).trace = Remote
                               /\ Caller(parent).span = Remote
                               /\ Caller(parent).sampled <=> parent = "sampled"
         /\ Valid(Caller(parent)) => parent # "none"
<1>1. CASE parent = "none"
  BY <1>1 DEF Caller, NoSpan, Valid
<1>2. CASE parent # "none"
  <2>1. PICK b \in BOOLEAN : b <=> parent = "sampled"
    OBVIOUS
  <2>2. Caller(parent) = [trace |-> Remote, span |-> Remote, sampled |-> b]
    BY <1>2, <2>1 DEF Caller
  <2>3. /\ Caller(parent).trace = Remote /\ Caller(parent).span = Remote
        /\ Caller(parent).sampled = b
    BY <2>2
  <2> QED BY <1>2, <2>1, <2>3
<1> QED BY <1>1, <1>2

(* StartSpan's context: its span, and the logger stored beside it.             *)
LEMMA NewContextIs ==
  ASSUME NEW r \in Requests, NEW c, NEW which, NEW error, IsCtx(c), Passed(c),
         c.sc = NoSpan \/ c.sc.trace \in Traces
  PROVE  LET n == NewContext(r, c, which, error)
         IN /\ IsCtx(n) /\ Passed(n)
            /\ n.sc = StartOn(held[r], c.sc, <<r, which>>, r, error)
            /\ n.sc = NoSpan \/ n.sc.trace \in Traces
<1> DEFINE sc == StartOn(held[r], c.sc, <<r, which>>, r, error)
           x == [c EXCEPT !.sc = sc]
           n == NewContext(r, c, which, error)
<1>1. /\ ~held[r].sdk => sc = c.sc
      /\ held[r].sdk => sc.trace \in Traces
  BY Known DEF StartOn, Valid
<1>2. sc = NoSpan \/ sc.trace \in Traces
  BY <1>1
<1>3. n = IF Valid(x.sc) \/ x.fields THEN [x EXCEPT !.stored = proc] ELSE x
  BY DEF NewContext, WithTraceLogger
<1>4. ~Valid(sc) => sc = c.sc
  BY <1>1, Known
<1> HIDE DEF sc, n
<1>5. x = [sc |-> sc, fields |-> c.fields, stored |-> c.stored]
  BY DEF IsCtx
<1>6. CASE Valid(x.sc) \/ x.fields
  <2>1. n = [sc |-> sc, fields |-> c.fields, stored |-> proc]
    BY <1>3, <1>5, <1>6
  <2>2. Passed(n)
    BY <1>5, <1>6, <2>1 DEF Passed
  <2> QED BY <1>2, <2>1, <2>2 DEF IsCtx, sc, n
<1>7. CASE ~(Valid(x.sc) \/ x.fields)
  <2>1. n = [sc |-> sc, fields |-> c.fields, stored |-> c.stored]
    BY <1>3, <1>5, <1>7
  <2>2. Passed(n)
    BY <1>4, <1>5, <1>7, <2>1 DEF Passed
  <2> QED BY <1>2, <2>1, <2>2 DEF IsCtx, sc, n
<1> QED BY <1>6, <1>7

(* Contexts that change in one place.                                          *)
LEMMA CtxPut ==
  ASSUME Contextual, NEW r \in Requests, NEW c, IsCtx(c), ctx' = [ctx EXCEPT ![r] = c]
  PROVE  /\ ctx' = [q \in Requests |-> ctx'[q]] /\ ctx'[r] = c
         /\ \A q \in Requests : IsCtx(ctx'[q])
         /\ \A q \in Requests : q # r => ctx'[q] = ctx[q]
BY DEF Contextual

(* The context of a call.                                                      *)
LEMMA CallCtxPut ==
  ASSUME Contextual, NEW r \in Requests, NEW c, IsCtx(c),
         inner' = [inner EXCEPT ![r].ctx = c]
  PROVE  /\ inner' = [q \in Requests |-> inner'[q]] /\ inner'[r].ctx = c
         /\ \A q \in Requests : IsCall(inner'[q])
         /\ \A q \in Requests : q # r => inner'[q] = inner[q]
<1>1. inner'[r] = [inner[r] EXCEPT !.ctx = c]
  BY DEF Contextual
<1>2. inner'[r] = [ctx |-> c, mode |-> inner[r].mode]
  BY <1>1 DEF Contextual, IsCall
<1>3. IsCall(inner'[r])
  BY <1>2 DEF IsCall
<1> QED BY <1>2, <1>3 DEF Contextual

(* The kind of a call.                                                         *)
LEMMA ModePut ==
  ASSUME Contextual, NEW r \in Requests, NEW m, inner' = [inner EXCEPT ![r].mode = m]
  PROVE  /\ inner' = [q \in Requests |-> inner'[q]] /\ inner'[r].ctx = inner[r].ctx
         /\ \A q \in Requests : IsCall(inner'[q])
         /\ \A q \in Requests : q # r => inner'[q] = inner[q]
<1>1. inner'[r] = [inner[r] EXCEPT !.mode = m]
  BY DEF Contextual
<1>2. inner'[r] = [ctx |-> inner[r].ctx, mode |-> m] /\ IsCtx(inner[r].ctx)
  BY <1>1 DEF Contextual, IsCall
<1>3. IsCall(inner'[r])
  BY <1>2 DEF IsCall
<1> QED BY <1>2, <1>3 DEF Contextual

-----------------------------------------------------------------------------
(* A step of r keeps the weave of r and leaves the other requests alone.       *)
Weaves(r) ==
  /\ Contextual' /\ WovenRequest(r)'
  /\ \A q \in Requests : q # r =>
       /\ pc'[q] = pc[q] /\ spans'[q] = spans[q] /\ inbound'[q] = inbound[q]
       /\ ctx'[q] = ctx[q] /\ inner'[q] = inner[q]

(* A step of one request keeps the weave when it does so for that request.     *)
LEMMA OneWeave == ASSUME WInv, NEW r \in Requests, Weaves(r) PROVE WInv'
<1>1. ASSUME NEW q \in Requests, q # r PROVE WovenRequest(q)'
  <2>1. WovenRequest(q)
    BY DEF WInv
  <2>2. /\ pc'[q] = pc[q] /\ spans'[q] = spans[q] /\ inbound'[q] = inbound[q]
        /\ ctx'[q] = ctx[q] /\ inner'[q] = inner[q]
    BY <1>1 DEF Weaves
  <2> QED BY <2>1, <2>2 DEF WovenRequest
<1> QED BY <1>1 DEF WInv, Weaves

(* A step that moves a request on past the start of its span, and not into a   *)
(* call, keeps its weave.                                                      *)
LEMMA MoveWeaves ==
  ASSUME RInv, WInv, NEW r \in Requests, NEW to, pc' = [pc EXCEPT ![r] = to],
         UNCHANGED <<spans, inbound, ctx>>,
         inner' = inner \/ \E m : inner' = [inner EXCEPT ![r].mode = m],
         pc[r] # "new", to \notin {"new", "tracer"}, to = "span" => pc[r] = "tracer",
         to \in {"fn", "fnEnd", "fnFail", "fnLine"} =>
           pc[r] \in {"fn", "fnEnd", "fnFail", "fnLine"}
  PROVE  Weaves(r)
<1>1. pc'[r] = to /\ \A q \in Requests : q # r => pc'[q] = pc[q]
  BY DEF RInv, Shaped
<1>2. /\ inner' = [q \in Requests |-> inner'[q]] /\ inner'[r].ctx = inner[r].ctx
      /\ \A q \in Requests : IsCall(inner'[q])
      /\ \A q \in Requests : q # r => inner'[q] = inner[q]
  BY ModePut DEF WInv, Contextual
<1>3. Contextual'
  BY <1>2 DEF WInv, Contextual
<1>4. WovenRequest(r)
  BY DEF WInv
<1>5. Woven(r, to, inbound[r].parent, spans[r].server, spans[r].inner, ctx[r].sc)
  BY <1>4 DEF WovenRequest, Woven
<1>6. WovenCall(r, to, inbound[r].parent, spans[r].server, spans[r].inner, inner[r].ctx.sc)
  BY <1>4 DEF WovenRequest, WovenCall
<1>7. WovenRequest(r)'
  BY <1>1, <1>2, <1>4, <1>5, <1>6 DEF WovenRequest
<1> QED BY <1>1, <1>2, <1>3, <1>7 DEF Weaves

-----------------------------------------------------------------------------
(* StartSpan on Server's behalf: in the caller's span context.                 *)
LEMMA ServerWoven ==
  ASSUME NEW r \in Requests, NEW parent \in {"none", "sampled", "unsampled"}, NEW t,
         NEW server, NEW child, NEW sc, NEW error, error = FALSE,
         sc = StartOn(t, Caller(parent), <<r, "server">>, r, error),
         server.state = IF ~t.sdk THEN "noop" ELSE IF sc.sampled THEN "open" ELSE "dropped",
         server.spec = t.spec, child.state = "none"
  PROVE  /\ Woven(r, "handler", parent, server, child, sc)
         /\ Whole(parent, server, child)
<1>1. CASE ~t.sdk
  <2>1. sc = Caller(parent) /\ ~SDKSpan(server)
    BY <1>1 DEF StartOn, SDKSpan
  <2>2. sc.span = Outer(r, parent, server) /\ (sc = NoSpan \/ sc.trace \in Traces)
    BY <2>1, CallerIs, Known DEF Outer
  <2> QED BY <2>1, <2>2 DEF Woven, Whole
<1>2. CASE t.sdk
  <2> DEFINE old == Caller(parent)
  <2>1. PICK tr : tr = IF Valid(old) THEN old.trace ELSE r
    OBVIOUS
  <2>2. PICK b : b = ShouldSample(ParseTraceSampler(t.spec), old, tr, error)
    OBVIOUS
  <2>3. sc = [trace |-> tr, span |-> <<r, "server">>, sampled |-> b]
    BY <1>2, <2>1, <2>2 DEF StartOn
  <2>4. tr \in Traces
    BY <2>1, CallerIs, Known
  <2>5. sc.trace = tr /\ sc.sampled = b /\ sc.span = <<r, "server">>
    BY <2>3
  <2>6. SDKSpan(server) /\ (Kept(server.state) <=> b)
    BY <1>2, <2>5 DEF SDKSpan, Kept
  <2>7. ~ParentBased(server.spec) => b = InnerDecision(InnerSampler(server.spec), tr, error)
    BY <2>2, Decides
  <2>8. ASSUME parent # "none", ParentBased(server.spec) PROVE b <=> parent = "sampled"
    <3>1. (old.sampled <=> parent = "sampled") /\ old.trace = Remote
      BY <2>8, CallerIs
    <3>2. Valid(old)
      BY <3>1, Known
    <3>3. b = old.sampled
      BY <2>2, <2>8, <3>2, Decides
    <3> QED BY <3>1, <3>3
  <2> HIDE DEF old
  <2>9. Woven(r, "handler", parent, server, child, sc)
    BY <2>4, <2>5, <2>6, <2>7 DEF Woven, Outer
  <2>10. Whole(parent, server, child)
    BY <2>6, <2>8 DEF Whole, SDKSpan
  <2> QED BY <2>9, <2>10
<1> QED BY <1>1, <1>2

(* StartSpan within the handler: under the server's span, or the caller's.     *)
LEMMA InnerWoven ==
  ASSUME NEW r \in Requests, NEW parent, NEW t, NEW server, NEW old, NEW child, NEW sc,
         NEW error \in BOOLEAN, NEW in,
         Woven(r, "callSpan", parent, server, old, sc), Whole(parent, server, old),
         in = StartOn(t, sc, <<r, "inner">>, r, error),
         child.state = IF ~t.sdk THEN "noop" ELSE IF in.sampled THEN "open" ELSE "dropped",
         child.spec = t.spec, child.error = error
  PROVE  /\ Woven(r, "fn", parent, server, child, sc)
         /\ WovenCall(r, "fn", parent, server, child, in)
         /\ Whole(parent, server, child)
<1>1. Woven(r, "fn", parent, server, child, sc)
  BY DEF Woven
<1>2. CASE ~t.sdk
  <2>1. in = sc /\ ~SDKSpan(child)
    BY <1>2 DEF StartOn, SDKSpan
  <2>2. in.span = Outer(r, parent, server)
    BY <2>1 DEF Woven
  <2> QED BY <1>1, <2>1, <2>2 DEF WovenCall, Whole
<1>3. CASE t.sdk
  <2>1. PICK tr : tr = IF Valid(sc) THEN sc.trace ELSE r
    OBVIOUS
  <2>2. PICK b : b = ShouldSample(ParseTraceSampler(t.spec), sc, tr, error)
    OBVIOUS
  <2>3. in = [trace |-> tr, span |-> <<r, "inner">>, sampled |-> b]
    BY <1>3, <2>1, <2>2 DEF StartOn
  <2>4. in.sampled = b /\ in.span = <<r, "inner">>
    BY <2>3
  <2>5. SDKSpan(child) /\ (Kept(child.state) <=> b)
    BY <1>3, <2>4 DEF SDKSpan, Kept
  <2>6. WovenCall(r, "fn", parent, server, child, in)
    BY <2>4, <2>5 DEF WovenCall
  <2>7. ASSUME SDKSpan(server),
               ParentBased(child.spec) \/ (child.spec = server.spec /\ ~child.error)
        PROVE  Kept(server.state) <=> b
    <3>1. sc.trace \in Traces /\ (sc.sampled <=> Kept(server.state))
      BY <2>7 DEF Woven
    <3>2. Valid(sc) /\ tr = sc.trace
      BY <2>1, <3>1, Known
    <3>3. CASE ParentBased(child.spec)
      BY <2>2, <3>1, <3>2, <3>3, Decides
    <3>4. CASE ~ParentBased(child.spec)
      <4>1. child.spec = server.spec /\ error = FALSE /\ ~ParentBased(server.spec)
        BY <2>7, <3>4
      <4>2. b = InnerDecision(InnerSampler(server.spec), sc.trace, error)
        BY <2>2, <3>2, <3>4, <4>1, Decides
      <4>3. sc.sampled <=> InnerDecision(InnerSampler(server.spec), sc.trace, error)
        BY <2>7, <4>1 DEF Woven
      <4> QED BY <3>1, <4>2, <4>3
    <3> QED BY <3>3, <3>4
  <2>8. Whole(parent, server, child)
    BY <2>5, <2>7 DEF Whole
  <2> QED BY <1>1, <2>6, <2>8
<1> QED BY <1>2, <1>3

(* EndSpan turns an open span into one that was kept as well.                  *)
LEMMA EndedAlike ==
  ASSUME NEW x, NEW y, y.spec = x.spec,
         y.state = x.state \/ (x.state = "open" /\ y.state \in {"ended", "failed"})
  PROVE  /\ SDKSpan(y) <=> SDKSpan(x)
         /\ Kept(y.state) <=> Kept(x.state)
         /\ y.state = "none" <=> x.state = "none"
         /\ ParentBased(y.spec) <=> ParentBased(x.spec)
BY DEF SDKSpan, Kept

(* So the weave of a request outlives its spans.                               *)
LEMMA EndWoven ==
  ASSUME NEW r, NEW p, NEW to, NEW parent, NEW server, NEW child, NEW sc, NEW in,
         NEW server1, NEW child1,
         p \notin {"new", "tracer", "span"}, to \notin {"new", "tracer", "span"},
         to \in {"fn", "fnEnd", "fnFail", "fnLine"} => p \in {"fn", "fnEnd", "fnFail", "fnLine"},
         Woven(r, p, parent, server, child, sc), Whole(parent, server, child),
         WovenCall(r, p, parent, server, child, in),
         server1.spec = server.spec, child1.spec = child.spec, child1.error = child.error,
         \/ server1.state = server.state
         \/ server.state = "open" /\ server1.state \in {"ended", "failed"},
         \/ child1.state = child.state
         \/ child.state = "open" /\ child1.state \in {"ended", "failed"}
  PROVE  /\ Woven(r, to, parent, server1, child1, sc)
         /\ WovenCall(r, to, parent, server1, child1, in)
         /\ Whole(parent, server1, child1)
<1>1. /\ SDKSpan(server1) <=> SDKSpan(server)
      /\ Kept(server1.state) <=> Kept(server.state)
      /\ SDKSpan(child1) <=> SDKSpan(child)
      /\ Kept(child1.state) <=> Kept(child.state)
  BY EndedAlike
<1>2. Outer(r, parent, server1) = Outer(r, parent, server)
  BY <1>1 DEF Outer
<1>3. Woven(r, to, parent, server1, child1, sc)
  BY <1>1, <1>2 DEF Woven
<1>4. WovenCall(r, to, parent, server1, child1, in)
  BY <1>1, <1>2 DEF WovenCall
<1>5. Whole(parent, server1, child1)
  BY <1>1 DEF Whole
<1> QED BY <1>3, <1>4, <1>5

(* The same, of a request whose span a step ends.                              *)
LEMMA EndsWoven ==
  ASSUME NEW r \in Requests, NEW to, WovenRequest(r),
         pc[r] \notin {"new", "tracer", "span"}, to \notin {"new", "tracer", "span"},
         to \in {"fn", "fnEnd", "fnFail", "fnLine"} =>
           pc[r] \in {"fn", "fnEnd", "fnFail", "fnLine"},
         spans'[r].server.spec = spans[r].server.spec,
         spans'[r].inner.spec = spans[r].inner.spec,
         spans'[r].inner.error = spans[r].inner.error,
         \/ spans'[r].server.state = spans[r].server.state
         \/ spans[r].server.state = "open" /\ spans'[r].server.state \in {"ended", "failed"},
         \/ spans'[r].inner.state = spans[r].inner.state
         \/ spans[r].inner.state = "open" /\ spans'[r].inner.state \in {"ended", "failed"}
  PROVE  /\ Woven(r, to, inbound[r].parent, spans'[r].server, spans'[r].inner, ctx[r].sc)
         /\ WovenCall(r, to, inbound[r].parent, spans'[r].server, spans'[r].inner, inner[r].ctx.sc)
         /\ Whole(inbound[r].parent, spans'[r].server, spans'[r].inner)
<1>1. PICK p, parent, server, child, sc, in, server1, child1 :
        /\ p = pc[r] /\ parent = inbound[r].parent /\ sc = ctx[r].sc /\ in = inner[r].ctx.sc
        /\ server = spans[r].server /\ child = spans[r].inner
        /\ server1 = spans'[r].server /\ child1 = spans'[r].inner
  OBVIOUS
<1>2. /\ Woven(r, p, parent, server, child, sc) /\ Whole(parent, server, child)
      /\ WovenCall(r, p, parent, server, child, in)
  BY <1>1 DEF WovenRequest
<1>3. /\ p \notin {"new", "tracer", "span"}
      /\ to \in {"fn", "fnEnd", "fnFail", "fnLine"} => p \in {"fn", "fnEnd", "fnFail", "fnLine"}
      /\ server1.spec = server.spec /\ child1.spec = child.spec /\ child1.error = child.error
      /\ \/ server1.state = server.state
         \/ server.state = "open" /\ server1.state \in {"ended", "failed"}
      /\ \/ child1.state = child.state
         \/ child.state = "open" /\ child1.state \in {"ended", "failed"}
  BY <1>1
<1>4. /\ Woven(r, to, parent, server1, child1, sc)
      /\ WovenCall(r, to, parent, server1, child1, in)
      /\ Whole(parent, server1, child1)
  BY <1>2, <1>3, EndWoven
<1> QED BY <1>1, <1>4

-----------------------------------------------------------------------------
(* The steps that begin and end spans, and those that change a context.        *)
LEMMA StartServerWeaves ==
  ASSUME RInv, WInv, NEW r \in Requests, StartServer(r) PROVE Weaves(r)
<1>1. /\ pc[r] = "span" /\ pc' = [pc EXCEPT ![r] = "handler"]
      /\ inbound' = inbound /\ inner' = inner
  BY DEF StartServer, Goto
<1>2. pc'[r] = "handler" /\ \A q \in Requests : q # r => pc'[q] = pc[q]
  BY <1>1 DEF RInv, Shaped
<1>3. PICK e, c : /\ e = FALSE /\ c = NewContext(r, ctx[r], "server", e)
                  /\ ctx' = [ctx EXCEPT ![r] = c] /\ StartedSpan(r, "server", c.sc, e)
  BY DEF StartServer
<1>4. /\ WovenRequest(r) /\ Contextual /\ IsCtx(ctx[r]) /\ Shaped
      /\ inbound[r].parent \in {"none", "sampled", "unsampled"}
  BY DEF WInv, RInv, Shaped, Contextual
<1>5. /\ ctx[r].sc = Caller(inbound[r].parent) /\ spans[r].inner.state = "none"
      /\ ctx[r].sc = NoSpan \/ ctx[r].sc.trace \in Traces
      /\ Passed(ctx[r]) /\ Passed(inner[r].ctx)
  BY <1>1, <1>4 DEF WovenRequest, Woven
<1>6. /\ IsCtx(c) /\ Passed(c)
      /\ c.sc = StartOn(held[r], ctx[r].sc, <<r, "server">>, r, e)
  BY <1>3, <1>4, <1>5, NewContextIs
<1>7. /\ \A q \in Requests : q # r => spans'[q] = spans[q]
      /\ spans'[r].inner = spans[r].inner
      /\ spans'[r].server.state = IF ~held[r].sdk THEN "noop"
                                  ELSE IF c.sc.sampled THEN "open" ELSE "dropped"
      /\ spans'[r].server.spec = held[r].spec
  BY <1>3, <1>4, ServerStarted
<1>8. /\ ctx' = [q \in Requests |-> ctx'[q]] /\ ctx'[r] = c
      /\ \A q \in Requests : IsCtx(ctx'[q])
      /\ \A q \in Requests : q # r => ctx'[q] = ctx[q]
  BY <1>3, <1>4, <1>6, CtxPut
<1>9. /\ Woven(r, "handler", inbound[r].parent, spans'[r].server, spans'[r].inner, c.sc)
      /\ Whole(inbound[r].parent, spans'[r].server, spans'[r].inner)
  <2>1. PICK parent, server, child, sc :
          /\ parent = inbound[r].parent /\ sc = c.sc
          /\ server = spans'[r].server /\ child = spans'[r].inner
    OBVIOUS
  <2>2. /\ parent \in {"none", "sampled", "unsampled"} /\ child.state = "none"
        /\ sc = StartOn(held[r], Caller(parent), <<r, "server">>, r, e)
        /\ server.state = IF ~held[r].sdk THEN "noop" ELSE IF sc.sampled THEN "open" ELSE "dropped"
        /\ server.spec = held[r].spec
    BY <1>4, <1>5, <1>6, <1>7, <2>1
  <2>3. Woven(r, "handler", parent, server, child, sc)
    BY <1>3, <2>2, ServerWoven
  <2>4. Whole(parent, server, child)
    BY <1>3, <2>2, ServerWoven
  <2> QED BY <2>1, <2>3, <2>4
<1>10. WovenCall(r, "handler", inbound[r].parent, spans'[r].server, spans'[r].inner, inner[r].ctx.sc)
  BY DEF WovenCall
<1>11. WovenRequest(r)'
  BY <1>1, <1>2, <1>5, <1>6, <1>8, <1>9, <1>10 DEF WovenRequest
<1>12. Contextual'
  BY <1>1, <1>4, <1>8 DEF Contextual
<1> QED BY <1>1, <1>2, <1>7, <1>8, <1>11, <1>12 DEF Weaves

(* The span of a call, under the request's.                                    *)
LEMMA StartInnerWeaves ==
  ASSUME RInv, WInv, NEW r \in Requests, StartInner(r) PROVE Weaves(r)
<1>1. /\ pc[r] = "callSpan" /\ pc' = [pc EXCEPT ![r] = "fn"]
      /\ inbound' = inbound /\ ctx' = ctx
  BY DEF StartInner, Goto
<1>2. pc'[r] = "fn" /\ \A q \in Requests : q # r => pc'[q] = pc[q]
  BY <1>1 DEF RInv, Shaped
<1>3. PICK e, c : /\ e \in BOOLEAN /\ c = NewContext(r, ctx[r], "inner", e)
                  /\ inner' = [inner EXCEPT ![r].ctx = c]
                  /\ StartedSpan(r, "inner", c.sc, e)
  BY DEF StartInner
<1>4. WovenRequest(r) /\ Contextual /\ IsCtx(ctx[r]) /\ Shaped
  BY DEF WInv, RInv, Contextual
<1>5. /\ Woven(r, "callSpan", inbound[r].parent, spans[r].server, spans[r].inner, ctx[r].sc)
      /\ Whole(inbound[r].parent, spans[r].server, spans[r].inner)
      /\ Passed(ctx[r])
  BY <1>1, <1>4 DEF WovenRequest
<1>6. ctx[r].sc = NoSpan \/ ctx[r].sc.trace \in Traces
  BY <1>5 DEF Woven
<1>7. /\ IsCtx(c) /\ Passed(c)
      /\ c.sc = StartOn(held[r], ctx[r].sc, <<r, "inner">>, r, e)
  BY <1>3, <1>4, <1>5, <1>6, NewContextIs
<1>8. /\ \A q \in Requests : q # r => spans'[q] = spans[q]
      /\ spans'[r].server = spans[r].server
      /\ spans'[r].inner.state = IF ~held[r].sdk THEN "noop"
                                 ELSE IF c.sc.sampled THEN "open" ELSE "dropped"
      /\ spans'[r].inner.spec = held[r].spec /\ spans'[r].inner.error = e
  BY <1>3, <1>4, InnerStarted
<1>9. /\ inner' = [q \in Requests |-> inner'[q]] /\ inner'[r].ctx = c
      /\ \A q \in Requests : IsCall(inner'[q])
      /\ \A q \in Requests : q # r => inner'[q] = inner[q]
  BY <1>3, <1>4, <1>7, CallCtxPut
<1>10. /\ Woven(r, "fn", inbound[r].parent, spans[r].server, spans'[r].inner, ctx[r].sc)
       /\ WovenCall(r, "fn", inbound[r].parent, spans[r].server, spans'[r].inner, c.sc)
       /\ Whole(inbound[r].parent, spans[r].server, spans'[r].inner)
  BY <1>3, <1>5, <1>7, <1>8, InnerWoven
<1>11. WovenRequest(r)'
  BY <1>1, <1>2, <1>5, <1>7, <1>8, <1>9, <1>10 DEF WovenRequest
<1>12. Contextual'
  BY <1>1, <1>4, <1>9 DEF Contextual
<1> QED BY <1>1, <1>2, <1>8, <1>9, <1>11, <1>12 DEF Weaves

(* The end of Server's span.                                                   *)
LEMMA EndServerWeaves ==
  ASSUME RInv, WInv, NEW r \in Requests, EndServer(r) PROVE Weaves(r)
<1>1. PICK to \in {"line", "done"} : pc[r] = "end" /\ pc' = [pc EXCEPT ![r] = to]
  BY DEF EndServer, Goto
<1>2. pc'[r] = to /\ \A q \in Requests : q # r => pc'[q] = pc[q]
  BY <1>1 DEF RInv, Shaped
<1>3. EndSpan(r, "server", status[r] = "fail") /\ UNCHANGED <<inbound, ctx, inner>>
  BY DEF EndServer
<1>4. WovenRequest(r) /\ Contextual /\ Shaped
  BY DEF WInv, RInv
<1>5. /\ \A q \in Requests : q # r => spans'[q] = spans[q]
      /\ spans'[r].inner = spans[r].inner
      /\ spans'[r].server.spec = spans[r].server.spec
      /\ \/ spans'[r].server.state = spans[r].server.state
         \/ spans[r].server.state = "open" /\ spans'[r].server.state \in {"ended", "failed"}
  BY <1>3, <1>4, ServerEnded
<1>6. /\ Woven(r, to, inbound[r].parent, spans'[r].server, spans'[r].inner, ctx[r].sc)
      /\ WovenCall(r, to, inbound[r].parent, spans'[r].server, spans'[r].inner, inner[r].ctx.sc)
      /\ Whole(inbound[r].parent, spans'[r].server, spans'[r].inner)
  BY <1>1, <1>4, <1>5, EndsWoven
<1>7. WovenRequest(r)'
  BY <1>1, <1>2, <1>3, <1>4, <1>6 DEF WovenRequest
<1> QED BY <1>2, <1>3, <1>4, <1>5, <1>7 DEF Weaves, Contextual

(* The end of a call's span.                                                   *)
LEMMA EndInnerWeaves ==
  ASSUME RInv, WInv, NEW r \in Requests, EndInner(r) PROVE Weaves(r)
<1>1. PICK to \in {"fnLine", "handler"} :
        /\ pc[r] \in {"fnEnd", "fnFail"} /\ pc' = [pc EXCEPT ![r] = to]
        /\ to = "fnLine" => inner' = inner
        /\ to = "handler" => inner' = [inner EXCEPT ![r].ctx = Background]
  BY DEF EndInner, CallReturns
<1>2. pc'[r] = to /\ \A q \in Requests : q # r => pc'[q] = pc[q]
  BY <1>1 DEF RInv, Shaped
<1>3. PICK f : EndSpan(r, "inner", f) /\ UNCHANGED <<inbound, ctx>>
  BY DEF EndInner
<1>4. WovenRequest(r) /\ Contextual /\ Shaped
  BY DEF WInv, RInv
<1>5. /\ \A q \in Requests : q # r => spans'[q] = spans[q]
      /\ spans'[r].server = spans[r].server
      /\ spans'[r].inner.spec = spans[r].inner.spec
      /\ spans'[r].inner.error = spans[r].inner.error
      /\ \/ spans'[r].inner.state = spans[r].inner.state
         \/ spans[r].inner.state = "open" /\ spans'[r].inner.state \in {"ended", "failed"}
  BY <1>3, <1>4, InnerEnded
<1>6. IsCtx(Background) /\ Passed(Background)
  BY DEF IsCtx, Passed, Background
<1>7. /\ inner' = [q \in Requests |-> inner'[q]] /\ Passed(inner'[r].ctx)
      /\ to = "fnLine" => inner'[r].ctx = inner[r].ctx
      /\ \A q \in Requests : IsCall(inner'[q])
      /\ \A q \in Requests : q # r => inner'[q] = inner[q]
  <2>1. CASE to = "fnLine"
    BY <1>1, <1>4, <2>1 DEF Contextual, WovenRequest
  <2>2. CASE to = "handler"
    BY <1>1, <1>4, <1>6, <2>2, CallCtxPut
  <2> QED BY <1>1, <2>1, <2>2
<1>8. /\ Woven(r, to, inbound[r].parent, spans'[r].server, spans'[r].inner, ctx[r].sc)
      /\ WovenCall(r, to, inbound[r].parent, spans'[r].server, spans'[r].inner, inner[r].ctx.sc)
      /\ Whole(inbound[r].parent, spans'[r].server, spans'[r].inner)
  BY <1>1, <1>4, <1>5, EndsWoven
<1>9. WovenCall(r, to, inbound[r].parent, spans'[r].server, spans'[r].inner, inner'[r].ctx.sc)
  BY <1>7, <1>8 DEF WovenCall
<1>10. WovenRequest(r)'
  BY <1>1, <1>2, <1>3, <1>4, <1>7, <1>8, <1>9 DEF WovenRequest
<1>11. Contextual'
  BY <1>3, <1>4, <1>7 DEF Contextual
<1> QED BY <1>2, <1>3, <1>5, <1>7, <1>10, <1>11 DEF Weaves

(* Extract: the caller's span context, if there is one to be read.             *)
LEMMA ArriveWeaves ==
  ASSUME RInv, WInv, NEW r \in Requests, Arrive(r) PROVE Weaves(r)
<1>1. PICK to \in {"handler", "tracer"} : pc[r] = "new" /\ pc' = [pc EXCEPT ![r] = to]
  BY DEF Arrive, Goto
<1>2. pc'[r] = to /\ \A q \in Requests : q # r => pc'[q] = pc[q]
  BY <1>1 DEF RInv, Shaped
<1>3. WovenRequest(r) /\ Contextual /\ Shaped /\ IsCtx(ctx[r]) /\ inner' = inner /\ spans' = spans
  BY DEF WInv, RInv, Contextual, Arrive
<1>4. /\ spans[r].server.state = "none" /\ spans[r].inner.state = "none"
      /\ ctx[r].stored = NoLogger /\ Passed(inner[r].ctx)
  BY <1>1, <1>3 DEF WovenRequest, Woven
<1>5. inbound[r].parent \in {"none", "sampled", "unsampled"}
  BY <1>3 DEF Shaped
<1>6. PICK parent, x :
        /\ parent \in {"none", "sampled", "unsampled"} /\ x = Caller(parent)
        /\ inbound' = [inbound EXCEPT ![r].parent = parent]
        /\ ctx' = [ctx EXCEPT ![r].sc = x]
  <2>1. CASE propagates /\ ~inbound[r].skip /\ inbound[r].parent # "none"
    <3>1. PICK x : x = [trace |-> Remote, span |-> Remote, sampled |-> inbound[r].parent = "sampled"]
      OBVIOUS
    <3>2. x = Caller(inbound[r].parent)
      BY <2>1, <3>1 DEF Caller
    <3>3. /\ inbound' = [inbound EXCEPT ![r].parent = inbound[r].parent]
          /\ ctx' = [ctx EXCEPT ![r].sc = x]
      BY <1>3, <2>1, <3>1, Zenon DEF Arrive, Shaped
    <3> QED BY <1>5, <3>2, <3>3
  <2>2. CASE ~(propagates /\ ~inbound[r].skip /\ inbound[r].parent # "none")
    <3>1. /\ inbound' = [inbound EXCEPT ![r].parent = "none"]
          /\ ctx' = [ctx EXCEPT ![r].sc = NoSpan]
      BY <2>2 DEF Arrive
    <3> QED BY <3>1 DEF Caller
  <2> QED BY <2>1, <2>2
<1>7. /\ inbound'[r].parent = parent
      /\ \A q \in Requests : q # r => inbound'[q] = inbound[q]
  BY <1>3, <1>6 DEF Shaped
<1>8. PICK c : c = [sc |-> x, fields |-> ctx[r].fields, stored |-> ctx[r].stored]
  OBVIOUS
<1>9. ctx' = [ctx EXCEPT ![r] = c] /\ IsCtx(c) /\ c.sc = x /\ c.stored = NoLogger
  <2>1. PICK a, b, d : ctx[r] = [sc |-> a, fields |-> b, stored |-> d]
    BY <1>3 DEF IsCtx
  <2>2. [ctx[r] EXCEPT !.sc = x] = c
    BY <1>8, <2>1
  <2> QED BY <1>4, <1>6, <1>8, <2>2 DEF IsCtx
<1>10. /\ ctx' = [q \in Requests |-> ctx'[q]] /\ ctx'[r] = c
       /\ \A q \in Requests : IsCtx(ctx'[q])
       /\ \A q \in Requests : q # r => ctx'[q] = ctx[q]
  BY <1>3, <1>9, CtxPut
<1>11. ~SDKSpan(spans[r].server) /\ ~SDKSpan(spans[r].inner)
  BY <1>4 DEF SDKSpan
<1>12. x.span = Outer(r, parent, spans[r].server) /\ (x = NoSpan \/ x.trace \in Traces)
  BY <1>6, <1>11, CallerIs, Known DEF Outer
<1>13. /\ Woven(r, to, parent, spans[r].server, spans[r].inner, x)
       /\ WovenCall(r, to, parent, spans[r].server, spans[r].inner, inner[r].ctx.sc)
       /\ Whole(parent, spans[r].server, spans[r].inner)
  BY <1>1, <1>4, <1>6, <1>11, <1>12 DEF Woven, WovenCall, Whole
<1>14. Passed(c)
  BY <1>9 DEF Passed
<1>15. WovenRequest(r)'
  BY <1>1, <1>2, <1>3, <1>4, <1>7, <1>9, <1>10, <1>13, <1>14 DEF WovenRequest
<1>16. Contextual'
  BY <1>3, <1>10 DEF Contextual
<1> QED BY <1>2, <1>3, <1>7, <1>10, <1>15, <1>16 DEF Weaves

(* Fields on the context of a request.                                         *)
LEMMA AddFieldsWeaves ==
  ASSUME RInv, WInv, NEW r \in Requests, AddFields(r) PROVE Weaves(r)
<1>1. PICK yes : /\ yes = TRUE /\ ctx' = [ctx EXCEPT ![r].fields = yes]
                 /\ pc[r] = "handler" /\ UNCHANGED <<pc, inbound, inner, spans>>
  BY DEF AddFields
<1>2. WovenRequest(r) /\ Contextual /\ IsCtx(ctx[r])
  BY DEF WInv, Contextual
<1>3. PICK c : c = [sc |-> ctx[r].sc, fields |-> yes, stored |-> ctx[r].stored]
  OBVIOUS
<1>4. ctx' = [ctx EXCEPT ![r] = c] /\ IsCtx(c) /\ c.sc = ctx[r].sc /\ c.fields
  <2>1. PICK a, b, d : ctx[r] = [sc |-> a, fields |-> b, stored |-> d]
    BY <1>2 DEF IsCtx
  <2>2. [ctx[r] EXCEPT !.fields = yes] = c
    BY <1>3, <2>1
  <2> QED BY <1>1, <1>3, <2>2 DEF IsCtx
<1>5. /\ ctx' = [q \in Requests |-> ctx'[q]] /\ ctx'[r] = c
      /\ \A q \in Requests : IsCtx(ctx'[q])
      /\ \A q \in Requests : q # r => ctx'[q] = ctx[q]
  BY <1>2, <1>4, CtxPut
<1>6. Passed(c)
  BY <1>4 DEF Passed
<1>7. WovenRequest(r)'
  BY <1>1, <1>2, <1>4, <1>5, <1>6 DEF WovenRequest
<1>8. Contextual'
  BY <1>1, <1>2, <1>5 DEF Contextual
<1> QED BY <1>1, <1>5, <1>7, <1>8 DEF Weaves

-----------------------------------------------------------------------------
(* No request has a span yet, nor a logger of its own.                         *)
LEMMA WInvInit == RInit => WInv
<1> SUFFICES ASSUME RInit PROVE WInv
  OBVIOUS
<1>1. IsCtx(Background) /\ Passed(Background) /\ Background.stored = NoLogger
      /\ Background.sc = NoSpan
  BY DEF IsCtx, Passed, Background
<1>2. /\ ctx = [r \in Requests |-> ctx[r]] /\ inner = [r \in Requests |-> inner[r]]
  BY DEF RInit
<1>3. ASSUME NEW r \in Requests
      PROVE  /\ IsCtx(ctx[r]) /\ IsCall(inner[r]) /\ WovenRequest(r)
  <2>1. /\ pc[r] = "new" /\ ctx[r] = Background /\ inner[r].ctx = Background
        /\ inner[r] = [ctx |-> Background, mode |-> "none"]
        /\ spans[r].server = NotStarted /\ spans[r].inner = NotStarted
    BY DEF RInit
  <2>2. IsCall(inner[r])
    BY <1>1, <2>1 DEF IsCall
  <2>3. ~SDKSpan(NotStarted) /\ NotStarted.state = "none"
    BY DEF SDKSpan, NotStarted
  <2>4. WovenRequest(r)
    BY <1>1, <2>1, <2>3 DEF WovenRequest, Woven, WovenCall, Whole
  <2> QED BY <1>1, <2>1, <2>2, <2>4
<1> QED BY <1>2, <1>3 DEF WInv, Contextual

(* The weave of the requests does not depend on the Telemetry and the logger.  *)
LEMMA WeaveStays ==
  ASSUME WInv, UNCHANGED <<pc, spans, inbound, ctx, inner>> PROVE WInv'
BY DEF WInv, Contextual, WovenRequest

(* The inductive step.                                                         *)
LEMMA WInvNext == RInv /\ WInv /\ [RNext]_vars => WInv'
<1> SUFFICES ASSUME RInv, WInv, [RNext]_vars PROVE WInv'
  OBVIOUS
<1>1. ASSUME NEW r \in Requests, ServerStep(r) PROVE WInv'
  <2>1. CASE ReadTracer(r)
    <3>1. PICK to \in {"span", "callSpan"} :
            /\ pc[r] \in {"tracer", "call"} /\ (to = "span" => pc[r] = "tracer")
            /\ pc' = [pc EXCEPT ![r] = to]
      BY <2>1 DEF ReadTracer, Goto
    <3>2. Weaves(r)
      BY <2>1, <3>1, MoveWeaves DEF ReadTracer
    <3> QED BY <3>2, OneWeave
  <2>2. CASE CompletionLine(r)
    <3>1. PICK to \in {"done"} :
            pc[r] = "line" /\ pc' = [pc EXCEPT ![r] = to]
      BY <2>2 DEF CompletionLine, Goto
    <3>2. Weaves(r)
      BY <2>2, <3>1, MoveWeaves DEF CompletionLine
    <3> QED BY <3>2, OneWeave
  <2>3. CASE Recover(r)
    <3>1. PICK to \in {"done"} :
            pc[r] = "panic" /\ pc' = [pc EXCEPT ![r] = to]
      BY <2>3 DEF Recover, Goto
    <3>2. Weaves(r)
      BY <2>3, <3>1, MoveWeaves DEF Recover
    <3> QED BY <3>2, OneWeave
  <2> QED BY <1>1, <2>1, <2>2, <2>3, ArriveWeaves, StartServerWeaves, EndServerWeaves,
            OneWeave DEF ServerStep
<1>2. ASSUME NEW r \in Requests, HandlerStep(r) PROVE WInv'
  <2>1. CASE HandlerLogs(r)
    BY <2>1, WeaveStays DEF HandlerLogs, request
  <2>2. CASE Call(r)
    <3>1. PICK to \in {"call"} :
            pc[r] = "handler" /\ pc' = [pc EXCEPT ![r] = to]
      BY <2>2 DEF Call, Goto
    <3>2. Weaves(r)
      BY <2>2, <3>1, MoveWeaves DEF Call
    <3> QED BY <3>2, OneWeave
  <2>3. CASE HandlerReturns(r)
    <3>1. PICK to \in {"done", "end"} : pc[r] = "handler" /\ pc' = [pc EXCEPT ![r] = to]
      BY <2>3 DEF HandlerReturns, Goto
    <3> QED BY <2>3, <3>1, MoveWeaves, OneWeave DEF HandlerReturns
  <2>4. CASE Panic(r)
    <3>1. PICK to \in {"panic"} :
            pc[r] \in {"handler", "fn"} /\ pc' = [pc EXCEPT ![r] = to]
      BY <2>4 DEF Panic, Goto
    <3>2. Weaves(r)
      BY <2>4, <3>1, MoveWeaves DEF Panic
    <3> QED BY <3>2, OneWeave
  <2> QED BY <1>2, <2>1, <2>2, <2>3, <2>4, AddFieldsWeaves, OneWeave DEF HandlerStep
<1>3. ASSUME NEW r \in Requests, CallStep(r) PROVE WInv'
  <2>1. CASE FnReturns(r)
    <3>1. PICK to \in {"fnEnd", "fnFail"} :
            pc[r] = "fn" /\ pc' = [pc EXCEPT ![r] = to]
      BY <2>1 DEF FnReturns, Goto
    <3>2. Weaves(r)
      BY <2>1, <3>1, MoveWeaves DEF FnReturns
    <3> QED BY <3>2, OneWeave
  <2>2. CASE FnLine(r)
    <3>1. PICK to \in {"handler"} :
            pc[r] = "fnLine" /\ pc' = [pc EXCEPT ![r] = to]
      BY <2>2 DEF FnLine, Goto
    <3>2. Weaves(r)
      BY <2>2, <3>1, MoveWeaves DEF FnLine
    <3> QED BY <3>2, OneWeave
  <2> QED BY <1>3, <2>1, <2>2, StartInnerWeaves, EndInnerWeaves, OneWeave DEF CallStep
<1>4. CASE Start \/ Shutdown \/ SetGlobal
  BY <1>4, WeaveStays DEF Start, Shutdown, SetGlobal, request
<1>5. CASE LNext /\ UNCHANGED <<telemetry, logSuccess, request>> /\ Silent
  BY <1>5, WeaveStays DEF request
<1>6. CASE UNCHANGED vars
  BY <1>6, WeaveStays DEF vars, request
<1> QED BY <1>1, <1>2, <1>3, <1>4, <1>5, <1>6 DEF RNext

(* The span context of a request is that of its innermost span.                *)
THEOREM WeaveInvariance == RSpec => []WInv
BY RInvInit, RInvNext, WInvInit, WInvNext, PTL DEF RSpec

(* Traces are kept or dropped whole, whatever happens to the Telemetry and its *)
(* sampler meanwhile (sampler.go:34-52, 73-93).                                *)
THEOREM WholeTraces == RSpec => []TracesWhole
<1>1. WInv => TracesWhole
  BY DEF WInv, WovenRequest, Whole, TracesWhole
<1> QED BY <1>1, WeaveInvariance, PTL

-----------------------------------------------------------------------------
(* The spans that SpanOf looks for.                                            *)
LEMMA SpanOfIs ==
  ASSUME NEW r
  PROVE  /\ SpanOf(r, {"server"}) = Outer(r, inbound[r].parent, spans[r].server)
         /\ SpanOf(r, {"server", "inner"}) =
              IF SDKSpan(spans[r].inner) THEN <<r, "inner">>
              ELSE Outer(r, inbound[r].parent, spans[r].server)
<1>1. spans[r]["server"] = spans[r].server /\ spans[r]["inner"] = spans[r].inner
  OBVIOUS
<1> QED BY <1>1 DEF SpanOf, Outer, SDKSpan

(* What a step logs: nothing, or one line, through the context of a request at *)
(* a point where WInv knows its span context; or Recover's.                    *)
LEMMA StepLogs ==
  ASSUME RNext
  PROVE  \/ line' = NoLine
         \/ \E r \in Requests : UNCHANGED <<spans, inbound, loggerVars>> /\
              \/ pc[r] = "handler" /\ Log(r, "handler", ctx[r])
              \/ pc[r] = "line" /\ Log(r, "request", ctx[r])
              \/ pc[r] \in {"fn", "fnLine"} /\ Log(r, "func", inner[r].ctx)
              \/ line' = [req |-> r, kind |-> "panic", sc |-> NoSpan, logger |-> proc]
<1>1. ASSUME NEW r \in Requests, ServerStep(r)
      PROVE  \/ line' = NoLine
             \/ UNCHANGED <<spans, inbound, loggerVars>> /\
                 \/ pc[r] = "line" /\ Log(r, "request", ctx[r])
                 \/ line' = [req |-> r, kind |-> "panic", sc |-> NoSpan, logger |-> proc]
  BY <1>1 DEF ServerStep, Arrive, ReadTracer, StartServer, EndServer, CompletionLine, Recover,
              Silent, Goto, environment
<1>2. ASSUME NEW r \in Requests, HandlerStep(r)
      PROVE  \/ line' = NoLine
             \/ UNCHANGED <<spans, inbound, loggerVars>> /\
                 \/ pc[r] = "handler" /\ Log(r, "handler", ctx[r])
                 \/ pc[r] = "fn" /\ Log(r, "func", inner[r].ctx)
  BY <1>2 DEF HandlerStep, HandlerLogs, AddFields, Call, HandlerReturns, Panic, Silent,
              environment, request
<1>3. ASSUME NEW r \in Requests, CallStep(r)
      PROVE  \/ line' = NoLine
             \/ UNCHANGED <<spans, inbound, loggerVars>> /\
                 pc[r] = "fnLine" /\ Log(r, "func", inner[r].ctx)
  BY <1>3 DEF CallStep, StartInner, FnReturns, EndInner, FnLine, Silent, Goto, environment
<1>4. CASE Start \/ Shutdown \/ SetGlobal
  BY <1>4 DEF Start, Shutdown, SetGlobal, Silent
<1> QED BY <1>1, <1>2, <1>3, <1>4 DEF RNext, Silent

(* Every line that is logged names its span.                                   *)
LEMMA LinesStep == WInv /\ LinesCorrelate /\ [RNext]_vars => LinesCorrelate'
<1> SUFFICES ASSUME WInv, LinesCorrelate, [RNext]_vars PROVE LinesCorrelate'
  OBVIOUS
<1>1. CASE UNCHANGED vars
  BY <1>1 DEF vars, request, LinesCorrelate, SpanOf
<1>2. CASE line' = NoLine
  BY <1>2 DEF LinesCorrelate, NoLine
<1>3. ASSUME NEW r \in Requests, UNCHANGED <<spans, inbound>>,
             \/ pc[r] = "handler" /\ Log(r, "handler", ctx[r])
             \/ pc[r] = "line" /\ Log(r, "request", ctx[r])
      PROVE  LinesCorrelate'
  <2>1. line'.req = r /\ line'.sc = ctx[r].sc /\ line'.kind \in {"handler", "request"}
    BY <1>3 DEF Log
  <2>2. ctx[r].sc.span = SpanOf(r, {"server"})
    BY <1>3, SpanOfIs DEF WInv, WovenRequest, Woven
  <2>3. SpanOf(r, {"server"})' = SpanOf(r, {"server"})
    BY <1>3 DEF SpanOf
  <2> QED BY <2>1, <2>2, <2>3 DEF LinesCorrelate, SpanOf
<1>4. ASSUME NEW r \in Requests, UNCHANGED <<spans, inbound>>,
             pc[r] \in {"fn", "fnLine"}, Log(r, "func", inner[r].ctx)
      PROVE  LinesCorrelate'
  <2>1. line'.req = r /\ line'.sc = inner[r].ctx.sc /\ line'.kind = "func"
    BY <1>4 DEF Log
  <2>2. inner[r].ctx.sc.span = SpanOf(r, {"server", "inner"})
    BY <1>4, SpanOfIs DEF WInv, WovenRequest, WovenCall
  <2>3. SpanOf(r, {"server", "inner"})' = SpanOf(r, {"server", "inner"})
    BY <1>4 DEF SpanOf
  <2> QED BY <2>1, <2>2, <2>3 DEF LinesCorrelate, SpanOf
<1>5. ASSUME NEW r, line' = [req |-> r, kind |-> "panic", sc |-> NoSpan, logger |-> proc]
      PROVE  LinesCorrelate'
  BY <1>5 DEF LinesCorrelate
<1> QED BY <1>1, <1>2, <1>3, <1>4, <1>5, StepLogs

(* A line names the innermost span the SDK started around it, though it ended  *)
(* or its provider is gone; without any, the caller's (zlog_fields.go:38-55,   *)
(* server.go:144, zlog.go:372-388).                                            *)
THEOREM LinesNameSpans == RSpec => []LinesCorrelate
<1>1. RInit => LinesCorrelate
  BY DEF RInit, LinesCorrelate, NoLine
<1> QED BY <1>1, LinesStep, WeaveInvariance, PTL DEF RSpec

-----------------------------------------------------------------------------
(* The steps of requests leave the process logger alone.                       *)
LEMMA LoggerSteps == [RNext]_vars => [LNext]_loggerVars
<1> SUFFICES ASSUME [RNext]_vars PROVE LNext \/ UNCHANGED loggerVars
  OBVIOUS
<1>1. ASSUME NEW r \in Requests, ServerStep(r) PROVE UNCHANGED loggerVars
  BY <1>1 DEF ServerStep, Arrive, ReadTracer, StartServer, EndServer, CompletionLine, Recover,
              environment
<1>2. ASSUME NEW r \in Requests, HandlerStep(r) PROVE UNCHANGED loggerVars
  BY <1>2 DEF HandlerStep, HandlerLogs, AddFields, Call, HandlerReturns, Panic, environment
<1>3. ASSUME NEW r \in Requests, CallStep(r) PROVE UNCHANGED loggerVars
  BY <1>3 DEF CallStep, StartInner, FnReturns, EndInner, FnLine, environment
<1> QED BY <1>1, <1>2, <1>3 DEF RNext, Start, Shutdown, SetGlobal, vars, environment

(* Requests in flight do not keep the process logger from agreeing with the    *)
(* default one.                                                                *)
THEOREM LoggerInvariance == RSpec => []IInv
<1>1. RInit => LInit
  BY DEF RInit
<1> QED BY <1>1, InitAgrees, NextAgrees, LoggerSteps, PTL DEF RSpec

(* A line goes to the process logger or to the default one of the moment, and  *)
(* once a call that replaced the process logger is over, to the new one, that  *)
(* of a request which began under the old one too (zlog.go:363-388).           *)
THEOREM LinesGoToLogger == RSpec => LinesFollowLogger
<1>1. WInv /\ IInv /\ [RNext]_vars =>
        [line' # NoLine => /\ line'.logger \in {proc, dflt}
                           /\ Quiet => line'.logger = proc]_vars
  <2> SUFFICES ASSUME WInv, IInv, RNext, line' # NoLine
               PROVE  line'.logger \in {proc, dflt} /\ (Quiet => line'.logger = proc)
    BY Zenon
  <2>1. Quiet => proc = dflt
    BY DEF IInv, LastCallStays
  <2>2. ASSUME NEW c, Passed(c) PROVE Ctx(c) \in {proc, dflt}
    BY <2>2 DEF Passed, Ctx
  <2>3. ASSUME NEW r \in Requests, NEW kind, NEW c, Passed(c), Log(r, kind, c)
        PROVE  line'.logger \in {proc, dflt}
    BY <2>2, <2>3 DEF Log
  <2>4. \A r \in Requests : Passed(ctx[r]) /\ Passed(inner[r].ctx)
    BY DEF WInv, WovenRequest
  <2>5. line'.logger \in {proc, dflt}
    BY <2>3, <2>4, StepLogs
  <2> QED BY <2>1, <2>5
<1> QED BY <1>1, WeaveInvariance, LoggerInvariance, PTL DEF RSpec, LinesFollowLogger
=============================================================================
