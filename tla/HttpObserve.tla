---------------------------- MODULE HttpObserve ----------------------------
(***************************************************************************)
(* What every HTTP request of both binaries goes through: the middleware   *)
(* observe and its statusRecorder (internal/httpserver/middleware.go), the *)
(* routes of the server (server.go), the request metrics                   *)
(* (internal/observability/httpmetrics.go) and the correlation identifier  *)
(* that its log records carry (internal/logging/context.go, handler.go).   *)
(*                                                                         *)
(* Requests run concurrently and share the counters and the log.  Inside   *)
(* the middleware a handler may write a status, write a body, log and      *)
(* panic, as often and in whatever order it likes; what net/http then      *)
(* sends is "wire".  Bodies, durations and the connection are left out.    *)
(***************************************************************************)
EXTENDS Integers, FiniteSets

CONSTANTS
    Requests,
    Routes,       \* the patterns registered with Handle
    Methods,      \* the methods requests come with
    Codes,        \* the statuses handlers write
    Inbound,      \* trace ids that callers may choose
    ZeroId,       \* zeroTraceID
    NoId,         \* what was sent is not 32 hexadecimal digits
    Headers       \* the traceparent headers they send

Unmatched == "unmatched"  \* routeUnmatched
NoStatus  == 0            \* nothing was committed to the wire

Severity == [debug |-> 0, info |-> 1, warn |-> 2, error |-> 3]

\* A header splits at its dashes into fields, the first of some length, the second
\* an id.  No handler of the repository writes an informational status.
ASSUME HttpAssumption ==
    /\ IsFiniteSet(Requests)
    /\ Unmatched \notin Routes
    /\ Codes \subseteq 200 .. 599
    /\ Headers \subseteq [fields: Nat, version: Nat, id: Inbound \cup {ZeroId, NoId}]
    /\ Inbound \cap (Requests \cup {ZeroId, NoId}) = {}
    /\ ZeroId \notin Requests

\* The random id drawn for a request is called by the request's own name.
TraceIds == Inbound \cup {ZeroId} \cup Requests

\* The labels of http_requests_total.
Series == [route: Routes \cup {Unmatched}, method: Methods, code: Codes \cup {200, 500}]

Events == {"handler_event", "http_request", "http_request_failed"}

VARIABLES
    level,      \* the configured log level
    pc,         \* pc[r]: "new", "handling", "panicking", "counting",
                \*   "logging", "returned" or "done"
    req,        \* req[r]: the route it matches, its method and its header
    trace,      \* trace[r]: observe's traceID
    ctx,        \* ctx[r]: the trace id in the context the handler gets
    rec,        \* rec[r]: statusRecorder, [code, written]
    wire,       \* wire[r]: the status sent, or NoStatus
    panicked,   \* panicked[r]: history
    requests,   \* http_requests_total
    log         \* the records emitted; "by" is history, the request at work

vars == <<level, pc, req, trace, ctx, rec, wire, panicked, requests, log>>

Init ==
    /\ level \in DOMAIN Severity
    /\ pc = [r \in Requests |-> "new"]
    /\ req \in [Requests -> [route: Routes \cup {Unmatched}, method: Methods,
                             header: Headers]]
    /\ trace = [r \in Requests |-> ZeroId]
    /\ ctx = [r \in Requests |-> ZeroId]
    /\ rec = [r \in Requests |-> [code |-> 200, written |-> FALSE]]
    /\ wire = [r \in Requests |-> NoStatus]
    /\ panicked = [r \in Requests |-> FALSE]
    /\ requests = [s \in Series |-> 0]
    /\ log = {}

-----------------------------------------------------------------------------
(* Correlation.                                                            *)

\* ParseTraceID: decodable and not all zero.
Parses(id) == id \notin {ZeroId, NoId}

\* Mutant: what does not decode is taken as it is.
AdoptsUnparsed(header) == header.fields >= 4 /\ header.version = 2

\* TraceIDFromTraceparent.
Adopts(header) == header.fields >= 4 /\ header.version = 2 /\ Parses(header.id)

\* NewTraceID draws 16 random bytes: no two requests get the same.
TraceIDForRequest(r) ==
    IF Adopts(req[r].header) THEN req[r].header.id ELSE r

\* Mutant: the configured level itself is filtered out.
EnabledAbove(severity) == Severity[severity] > Severity[level]

Enabled(severity) == Severity[severity] >= Severity[level]

\* The record of an event, to which contextHandler adds the id of the context.
Emitted(r, msg, severity, id, code) ==
    IF Enabled(severity)
       THEN {[msg |-> msg, trace_id |-> id, code |-> code, by |-> r]}
       ELSE {}

-----------------------------------------------------------------------------
(* statusRecorder.                                                         *)

\* Mutant: the recorder follows every call, the connection only the first.
RecordLast(r, code) == [code |-> code, written |-> TRUE]

Record(r, code) ==
    IF rec[r].written THEN rec[r] ELSE [code |-> code, written |-> TRUE]

\* WriteHeader, and Write with 200: net/http too commits only the first status.
Commit(r, code) ==
    /\ rec' = [rec EXCEPT ![r] = Record(r, code)]
    /\ wire' = [wire EXCEPT ![r] = IF @ = NoStatus THEN code ELSE @]

-----------------------------------------------------------------------------
(* observe.                                                                *)

Goto(r, from, to) == pc[r] = from /\ pc' = [pc EXCEPT ![r] = to]

\* Mutant: the handler is given the request as it came.
Bare(id) == ZeroId

\* r.WithContext(ContextWithTraceID(...)).
WithTrace(id) == id

Begin(r) ==
    /\ Goto(r, "new", "handling")
    /\ trace' = [trace EXCEPT ![r] = TraceIDForRequest(r)]
    /\ ctx' = [ctx EXCEPT ![r] = WithTrace(TraceIDForRequest(r))]
    /\ UNCHANGED <<level, req, rec, wire, panicked, requests, log>>

\* The handler calls WriteHeader or Write; promhttp may do so a second time.
HandlerWrites(r) ==
    /\ Goto(r, "handling", "handling")
    /\ \E code \in Codes \cup {200} : Commit(r, code)
    /\ UNCHANGED <<level, req, trace, ctx, panicked, requests, log>>

\* It logs: a failed check, say, from the context it runs under.
HandlerLogs(r) ==
    /\ Goto(r, "handling", "handling")
    /\ log' = log \cup Emitted(r, "handler_event", "error", ctx[r], NoStatus)
    /\ UNCHANGED <<level, req, trace, ctx, rec, wire, panicked, requests>>

HandlerReturns(r) ==
    /\ Goto(r, "handling", "counting")
    /\ UNCHANGED <<level, req, trace, ctx, rec, wire, panicked, requests, log>>

HandlerPanics(r) ==
    /\ Goto(r, "handling", "panicking")
    /\ panicked' = [panicked EXCEPT ![r] = TRUE]
    /\ UNCHANGED <<level, req, trace, ctx, rec, wire, requests, log>>

\* The deferred function: 500 if nothing was written, and the failure is logged.
Recover(r) ==
    /\ Goto(r, "panicking", "counting")
    /\ IF rec[r].written THEN UNCHANGED <<rec, wire>> ELSE Commit(r, 500)
    /\ log' = log \cup Emitted(r, "http_request_failed", "error", trace[r], rec'[r].code)
    /\ UNCHANGED <<level, req, trace, ctx, panicked, requests>>

\* The series a request is counted in.
Label(r, code) == [route |-> req[r].route, method |-> req[r].method, code |-> code]

\* HTTPMetrics.Observe.
Observe(r) ==
    /\ Goto(r, "counting", "logging")
    /\ requests' = [requests EXCEPT ![Label(r, rec[r].code)] = @ + 1]
    /\ UNCHANGED <<level, req, trace, ctx, rec, wire, panicked, log>>

LogRequest(r) ==
    /\ Goto(r, "logging", "returned")
    /\ log' = log \cup Emitted(r, "http_request", "debug", trace[r], rec[r].code)
    /\ UNCHANGED <<level, req, trace, ctx, rec, wire, panicked, requests>>

\* net/http sends 200 for a handler that wrote nothing.
Finish(r) ==
    /\ Goto(r, "returned", "done")
    /\ wire' = [wire EXCEPT ![r] = IF @ = NoStatus THEN 200 ELSE @]
    /\ UNCHANGED <<level, req, trace, ctx, rec, panicked, requests, log>>

Step(r) ==
    \/ Begin(r) \/ HandlerWrites(r) \/ HandlerLogs(r)
    \/ HandlerReturns(r) \/ HandlerPanics(r) \/ Recover(r)
    \/ Observe(r) \/ LogRequest(r) \/ Finish(r)

Idle == (\A r \in Requests : pc[r] = "done") /\ UNCHANGED vars

Next == (\E r \in Requests : Step(r)) \/ Idle

Spec == Init /\ [][Next]_vars

-----------------------------------------------------------------------------
(* Properties.                                                             *)

Records ==
    [msg: Events, trace_id: TraceIds, code: Codes \cup {200, 500, NoStatus}, by: Requests]

TypeOK ==
    /\ level \in DOMAIN Severity
    /\ pc \in [Requests -> {"new", "handling", "panicking", "counting", "logging",
                            "returned", "done"}]
    /\ req \in [Requests -> [route: Routes \cup {Unmatched}, method: Methods,
                             header: Headers]]
    /\ trace \in [Requests -> TraceIds] /\ ctx \in [Requests -> TraceIds]
    /\ rec \in [Requests -> [code: Codes \cup {200, 500}, written: BOOLEAN]]
    /\ wire \in [Requests -> Codes \cup {200, 500, NoStatus}]
    /\ panicked \in [Requests -> BOOLEAN]
    /\ requests \in [Series -> Nat]
    /\ log \subseteq Records

\* The status the client of r gets, or will get.
Sent(r) == IF wire[r] = NoStatus THEN 200 ELSE wire[r]

Counted == {r \in Requests : pc[r] \in {"logging", "returned", "done"}}

\* Every series counts the requests whose clients got that status, each exactly
\* once, whatever their handlers wrote, wrote twice or panicked after, and however
\* they interleave (statusRecorder, the deferred function of observe).
CountedAsSent ==
    \A s \in Series : requests[s] = Cardinality({r \in Counted : s = Label(r, Sent(r))})

\* A panic never goes unnoticed and never takes the request's identity or status
\* with it: whatever the level, one record says that this request failed and with
\* which status, and no request that did not panic is said to have failed.
PanicsAreLogged ==
    \A r \in Counted :
       {x \in log : x.by = r /\ x.msg = "http_request_failed"} =
          IF panicked[r]
             THEN {[msg |-> "http_request_failed", trace_id |-> trace[r],
                    code |-> Sent(r), by |-> r]}
             ELSE {}

\* The id that the caller of r chose, by the format of the header.
Chosen(r) ==
    LET h == req[r].header
    IN  IF h.fields >= 4 /\ h.version = 2 /\ h.id \in Inbound THEN h.id ELSE NoId

\* The trace id alone retrieves a request's records, all of them (SC-008), and with
\* them only those of requests whose callers chose the same id (FR-026, FR-027).
Correlated ==
    \A x, y \in log :
       x.trace_id = y.trace_id <=>
          x.by = y.by \/ (Chosen(x.by) = Chosen(y.by) /\ Chosen(x.by) # NoId)
=============================================================================
