------------------------- MODULE HttpObserveProofs -------------------------
(* Proofs about HttpObserve, for any finite number of requests and any      *)
(* routes, methods, statuses and headers.                                   *)
EXTENDS HttpObserve, FiniteSetTheorems, TLAPS

-----------------------------------------------------------------------------
(* Type correctness.                                                        *)

LEMMA TypeInit == Init => TypeOK
BY DEF Init, TypeOK, TraceIds, Series

\* What is emitted is a record.
LEMMA EmittedType ==
    ASSUME NEW r \in Requests, NEW msg \in Events, NEW severity, NEW id \in TraceIds,
           NEW code \in Codes \cup {200, 500, NoStatus}
    PROVE  Emitted(r, msg, severity, id, code) \subseteq Records
BY DEF Emitted, Records

LEMMA CommitType ==
    ASSUME TypeOK, NEW r \in Requests, NEW code \in Codes \cup {200, 500}, Commit(r, code)
    PROVE  /\ rec' \in [Requests -> [code: Codes \cup {200, 500}, written: BOOLEAN]]
           /\ wire' \in [Requests -> Codes \cup {200, 500, NoStatus}]
BY DEF TypeOK, Commit, Record

LEMMA LabelType ==
    ASSUME TypeOK, NEW r \in Requests, NEW code \in Codes \cup {200, 500}
    PROVE  Label(r, code) \in Series
BY DEF TypeOK, Label, Series

LEMMA TraceIDType ==
    ASSUME TypeOK, NEW r \in Requests
    PROVE  TraceIDForRequest(r) \in TraceIds
<1> DEFINE header == req[r].header
<1>1. header.id \in Inbound \cup {ZeroId, NoId}
  BY HttpAssumption DEF TypeOK
<1>2. CASE Adopts(header)
  <2>1. header.id \in TraceIds
    BY <1>1, <1>2 DEF Adopts, Parses, TraceIds
  <2>. QED
    BY <1>2, <2>1 DEF TraceIDForRequest
<1>3. CASE ~Adopts(header)
  BY <1>3 DEF TraceIDForRequest, TraceIds
<1>. QED
  BY <1>2, <1>3

LEMMA TypeNext == TypeOK /\ [Next]_vars => TypeOK'
<1> SUFFICES ASSUME TypeOK, [Next]_vars
             PROVE  TypeOK'
  OBVIOUS
<1> USE DEF TypeOK, Goto
<1>1. ASSUME NEW r \in Requests, Begin(r)
      PROVE  TypeOK'
  <2>1. TraceIDForRequest(r) \in TraceIds
    BY TraceIDType
  <2>2. /\ trace' = [trace EXCEPT ![r] = TraceIDForRequest(r)]
        /\ ctx' = [ctx EXCEPT ![r] = TraceIDForRequest(r)]
        /\ pc' = [pc EXCEPT ![r] = "handling"]
        /\ UNCHANGED <<level, req, rec, wire, panicked, requests, log>>
    BY <1>1 DEF Begin, WithTrace
  <2>. QED
    BY <2>1, <2>2
<1>2. ASSUME NEW r \in Requests, HandlerWrites(r)
      PROVE  TypeOK'
  <2>1. PICK code \in Codes \cup {200} : Commit(r, code)
    BY <1>2 DEF HandlerWrites
  <2>. QED
    BY <1>2, <2>1, CommitType DEF HandlerWrites
<1>3. ASSUME NEW r \in Requests, HandlerLogs(r)
      PROVE  TypeOK'
  <2>1. Emitted(r, "handler_event", "error", ctx[r], NoStatus) \subseteq Records
    BY EmittedType DEF Events
  <2>. QED
    BY <1>3, <2>1 DEF HandlerLogs
<1>4. ASSUME NEW r \in Requests, HandlerReturns(r) \/ HandlerPanics(r)
      PROVE  TypeOK'
  <2>1. CASE HandlerReturns(r)
    BY <2>1 DEF HandlerReturns
  <2>2. CASE HandlerPanics(r)
    BY <2>2 DEF HandlerPanics
  <2>. QED
    BY <1>4, <2>1, <2>2
<1>5. ASSUME NEW r \in Requests, Recover(r)
      PROVE  TypeOK'
  <2>1. /\ rec' \in [Requests -> [code: Codes \cup {200, 500}, written: BOOLEAN]]
        /\ wire' \in [Requests -> Codes \cup {200, 500, NoStatus}]
    BY <1>5, CommitType DEF Recover
  <2>2. Emitted(r, "http_request_failed", "error", trace[r], rec'[r].code) \subseteq Records
    BY <2>1 DEF Emitted, Records, Events
  <2>. QED
    BY <1>5, <2>1, <2>2 DEF Recover
<1>6. ASSUME NEW r \in Requests, Observe(r)
      PROVE  TypeOK'
  <2>1. requests' \in [Series -> Nat]
    BY <1>6, LabelType DEF Observe
  <2>. QED
    BY <1>6, <2>1 DEF Observe
<1>7. ASSUME NEW r \in Requests, LogRequest(r)
      PROVE  TypeOK'
  <2>1. Emitted(r, "http_request", "debug", trace[r], rec[r].code) \subseteq Records
    BY DEF Emitted, Records, Events
  <2>. QED
    BY <1>7, <2>1 DEF LogRequest
<1>8. ASSUME NEW r \in Requests, Finish(r)
      PROVE  TypeOK'
  BY <1>8 DEF Finish
<1>9. CASE Idle \/ UNCHANGED vars
  BY <1>9 DEF Idle, vars
<1>. QED
  BY <1>1, <1>2, <1>3, <1>4, <1>5, <1>6, <1>7, <1>8, <1>9 DEF Next, Step

\* Every variable keeps its type; in particular every trace id is one.
THEOREM TypeCorrect == Spec => []TypeOK
  BY TypeInit, TypeNext, PTL DEF Spec

-----------------------------------------------------------------------------
(* Status and counters.  The recorder and the connection commit together,   *)
(* and both only once.                                                      *)

RecordInv ==
    \A r \in Requests :
       /\ rec[r].code = Sent(r)
       /\ pc[r] # "done" => (rec[r].written <=> wire[r] # NoStatus)

LEMMA RecordInit == Init => RecordInv
BY DEF Init, RecordInv, Sent

\* One request commits a status, or nothing is committed.
LEMMA RecordCommit ==
    ASSUME TypeOK, RecordInv, NEW r \in Requests, NEW code \in 200 .. 599,
           Commit(r, code), pc[r] # "done", \A q \in Requests : pc[q] = "done" => pc'[q] = "done"
    PROVE  RecordInv'
<1>1. code # NoStatus
  BY DEF NoStatus
<1>2. ASSUME NEW q \in Requests
      PROVE  /\ rec'[q].code = Sent(q)'
             /\ pc'[q] # "done" => (rec'[q].written <=> wire'[q] # NoStatus)
  <2>1. CASE q = r
    <3>1. CASE rec[r].written
      BY <2>1, <3>1 DEF TypeOK, RecordInv, Commit, Record, Sent
    <3>2. CASE ~rec[r].written
      <4>1. wire[r] = NoStatus
        BY <3>2 DEF RecordInv
      <4>2. rec'[r] = [code |-> code, written |-> TRUE] /\ wire'[r] = code
        BY <3>2, <4>1 DEF TypeOK, Commit, Record
      <4>. QED
        BY <1>1, <2>1, <4>2 DEF Sent
    <3>. QED
      BY <3>1, <3>2
  <2>2. CASE q # r
    <3>1. rec'[q] = rec[q] /\ wire'[q] = wire[q]
      BY <2>2 DEF TypeOK, Commit
    <3>. QED
      BY <3>1 DEF RecordInv, Sent
  <2>. QED
    BY <2>1, <2>2
<1>. QED
  BY <1>2 DEF RecordInv

LEMMA RecordQuiet ==
    ASSUME RecordInv, UNCHANGED <<rec, wire>>,
           \A q \in Requests : pc[q] = "done" => pc'[q] = "done"
    PROVE  RecordInv'
BY DEF RecordInv, Sent

LEMMA RecordNext == TypeOK /\ RecordInv /\ [Next]_vars => RecordInv'
<1> SUFFICES ASSUME TypeOK, RecordInv, [Next]_vars
             PROVE  RecordInv'
  OBVIOUS
<1> USE DEF Goto
<1>1. ASSUME NEW r \in Requests,
             Begin(r) \/ HandlerLogs(r) \/ HandlerReturns(r) \/ HandlerPanics(r)
             \/ Observe(r) \/ LogRequest(r)
      PROVE  RecordInv'
  BY <1>1, RecordQuiet
     DEF TypeOK, Begin, HandlerLogs, HandlerReturns, HandlerPanics, Observe, LogRequest
<1>2. ASSUME NEW r \in Requests, HandlerWrites(r)
      PROVE  RecordInv'
  <2>1. PICK code \in Codes \cup {200} : Commit(r, code)
    BY <1>2 DEF HandlerWrites
  <2>2. code \in 200 .. 599
    BY HttpAssumption
  <2>3. \A q \in Requests : pc[q] = "done" => pc'[q] = "done"
    BY <1>2 DEF HandlerWrites, TypeOK
  <2>. QED
    BY <1>2, <2>1, <2>2, <2>3, RecordCommit DEF HandlerWrites
<1>3. ASSUME NEW r \in Requests, Recover(r)
      PROVE  RecordInv'
  <2>1. CASE rec[r].written
    BY <1>3, <2>1, RecordQuiet DEF Recover, TypeOK
  <2>2. CASE ~rec[r].written
    <3>1. Commit(r, 500) /\ 500 \in 200 .. 599 /\ pc[r] # "done"
      BY <1>3, <2>2 DEF Recover
    <3>2. \A q \in Requests : pc[q] = "done" => pc'[q] = "done"
      BY <1>3 DEF Recover, TypeOK
    <3>. QED
      BY <3>1, <3>2, RecordCommit
  <2>. QED
    BY <2>1, <2>2
<1>4. ASSUME NEW r \in Requests, Finish(r)
      PROVE  RecordInv'
  BY <1>4 DEF Finish, RecordInv, Sent, TypeOK, NoStatus
<1>5. CASE Idle \/ UNCHANGED vars
  BY <1>5, RecordQuiet DEF Idle, vars
<1>. QED
  BY <1>1, <1>2, <1>3, <1>4, <1>5 DEF Next, Step

\* The requests counted in the series s.
In(s) == {r \in Counted : s = Label(r, rec[r].code)}

CountInv == \A s \in Series : requests[s] = Cardinality(In(s))

LEMMA CountInit == Init => CountInv
<1> SUFFICES ASSUME Init, NEW s \in Series
             PROVE  requests[s] = Cardinality(In(s))
  BY DEF CountInv
<1>1. In(s) = {}
  BY DEF Init, In, Counted
<1>. QED
  BY <1>1, FS_EmptySet DEF Init

\* Nobody who was counted is counted elsewhere, and nobody else is counted.
LEMMA CountQuiet ==
    ASSUME CountInv, UNCHANGED <<req, requests>>, Counted' = Counted,
           \A r \in Counted : rec'[r] = rec[r]
    PROVE  CountInv'
<1>1. \A s \in Series : In(s)' = In(s)
  BY DEF In, Label
<1>. QED
  BY <1>1 DEF CountInv

LEMMA CountNext == TypeOK /\ CountInv /\ [Next]_vars => CountInv'
<1> SUFFICES ASSUME TypeOK, CountInv, [Next]_vars
             PROVE  CountInv'
  OBVIOUS
<1> USE DEF Goto
<1>1. ASSUME NEW r \in Requests,
             Begin(r) \/ HandlerWrites(r) \/ HandlerLogs(r) \/ HandlerReturns(r)
             \/ HandlerPanics(r) \/ Recover(r) \/ LogRequest(r) \/ Finish(r)
      PROVE  CountInv'
  <2>1. UNCHANGED <<req, requests>>
    BY <1>1 DEF Begin, HandlerWrites, HandlerLogs, HandlerReturns, HandlerPanics,
                Recover, LogRequest, Finish
  <2>2. Counted' = Counted
    BY <1>1 DEF Begin, HandlerWrites, HandlerLogs, HandlerReturns, HandlerPanics,
                Recover, LogRequest, Finish, Counted, TypeOK
  <2>3. \A q \in Counted : rec'[q] = rec[q]
    BY <1>1 DEF Begin, HandlerWrites, HandlerLogs, HandlerReturns, HandlerPanics,
                Recover, LogRequest, Finish, Counted, Commit, TypeOK
  <2>. QED
    BY <2>1, <2>2, <2>3, CountQuiet
<1>2. ASSUME NEW r \in Requests, Observe(r)
      PROVE  CountInv'
  <2>0. PICK here : here = Label(r, rec[r].code)
    OBVIOUS
  <2>1. here \in Series
    BY <2>0, LabelType DEF TypeOK
  <2>2. /\ requests' = [requests EXCEPT ![here] = requests[here] + 1]
        /\ UNCHANGED <<req, rec>>
        /\ r \notin Counted /\ Counted' = Counted \cup {r}
    BY <1>2, <2>0 DEF Observe, Counted, TypeOK
  <2>3. ASSUME NEW s \in Series, s # here
        PROVE  requests'[s] = Cardinality(In(s)')
    <3>1. In(s)' = In(s)
      BY <2>0, <2>2, <2>3 DEF In, Label
    <3>. QED
      BY <2>1, <2>2, <2>3, <3>1 DEF CountInv, TypeOK
  <2>4. requests'[here] = Cardinality(In(here)')
    <3>1. In(here)' = In(here) \cup {r} /\ r \notin In(here)
      BY <2>0, <2>2 DEF In, Label
    <3>2. IsFiniteSet(In(here))
      BY HttpAssumption, FS_Subset DEF In, Counted
    <3>3. Cardinality(In(here) \cup {r}) = Cardinality(In(here)) + 1
      BY <3>1, <3>2, FS_AddElement
    <3>. QED
      BY <2>1, <2>2, <3>1, <3>3 DEF CountInv, TypeOK
  <2>5. ASSUME NEW s \in Series
        PROVE  (requests[s] = Cardinality(In(s)))'
    <3>1. CASE s = here
      BY <2>4, <3>1
    <3>2. CASE s # here
      BY <2>3, <3>2
    <3>. QED
      BY <3>1, <3>2
  <2>. QED
    BY <2>5 DEF CountInv
<1>3. CASE Idle \/ UNCHANGED vars
  BY <1>3, CountQuiet DEF Idle, vars, Counted
<1>. QED
  BY <1>1, <1>2, <1>3 DEF Next, Step

\* Each request is counted once, under the status its client got.
THEOREM CountHolds == Spec => []CountedAsSent
<1>1. TypeOK /\ RecordInv /\ CountInv => CountedAsSent
  <2> SUFFICES ASSUME RecordInv, CountInv, NEW s \in Series
               PROVE  requests[s] = Cardinality({r \in Counted : s = Label(r, Sent(r))})
    BY DEF CountedAsSent
  <2>1. In(s) = {r \in Counted : s = Label(r, Sent(r))}
    BY DEF In, RecordInv, Counted
  <2>. QED
    BY <2>1 DEF CountInv
<1>. QED
  BY TypeInit, TypeNext, RecordInit, RecordNext, CountInit, CountNext, <1>1, PTL DEF Spec
-----------------------------------------------------------------------------
(* Panics.  A request that panicked has been recovered or is about to be,   *)
(* and its failure is recorded at the moment it is recovered.               *)

FailuresOf(r) == {x \in log : x.by = r /\ x.msg = "http_request_failed"}

FailureOf(r) ==
    [msg |-> "http_request_failed", trace_id |-> trace[r], code |-> rec[r].code, by |-> r]

PanicInv ==
    \A r \in Requests :
       /\ pc[r] = "panicking" => panicked[r]
       /\ pc[r] \in {"new", "handling"} => ~panicked[r]
       /\ panicked[r] /\ pc[r] # "panicking" => FailuresOf(r) = {FailureOf(r)}
       /\ ~panicked[r] \/ pc[r] = "panicking" => FailuresOf(r) = {}

LEMMA PanicInit == Init => PanicInv
BY DEF Init, PanicInv, FailuresOf

\* An error is logged at every level.
LEMMA ErrorsAreEnabled == TypeOK => Enabled("error")
BY DEF TypeOK, Enabled, Severity

\* What leaves the identity and the status of a request that did not enter or leave
\* its panic alone, and adds no failure of it to the log, keeps its part.
LEMMA PanicKept ==
    ASSUME PanicInv, NEW q \in Requests,
           trace'[q] = trace[q] /\ rec'[q] = rec[q] /\ panicked'[q] = panicked[q],
           FailuresOf(q)' = FailuresOf(q),
           \/ pc'[q] = pc[q]
           \/ pc[q] \notin {"new", "panicking"} /\ pc'[q] \notin {"new", "handling", "panicking"}
    PROVE  /\ pc'[q] = "panicking" => panicked'[q]
           /\ pc'[q] \in {"new", "handling"} => ~panicked'[q]
           /\ panicked'[q] /\ pc'[q] # "panicking" => FailuresOf(q)' = {FailureOf(q)'}
           /\ ~panicked'[q] \/ pc'[q] = "panicking" => FailuresOf(q)' = {}
<1>1. FailureOf(q)' = FailureOf(q)
  BY DEF FailureOf
<1>. QED
  BY <1>1 DEF PanicInv

LEMMA PanicNext == TypeOK /\ PanicInv /\ [Next]_vars => PanicInv'
<1> SUFFICES ASSUME TypeOK, PanicInv, [Next]_vars, NEW q \in Requests
             PROVE  /\ pc'[q] = "panicking" => panicked'[q]
                    /\ pc'[q] \in {"new", "handling"} => ~panicked'[q]
                    /\ panicked'[q] /\ pc'[q] # "panicking" => FailuresOf(q)' = {FailureOf(q)'}
                    /\ ~panicked'[q] \/ pc'[q] = "panicking" => FailuresOf(q)' = {}
  BY DEF PanicInv
<1> USE DEF Goto
<1>1. CASE UNCHANGED log /\ UNCHANGED vars
  BY <1>1, PanicKept DEF vars, FailuresOf
<1>2. ASSUME NEW r \in Requests, r # q, Step(r)
      PROVE  /\ pc'[q] = pc[q] /\ trace'[q] = trace[q] /\ rec'[q] = rec[q]
             /\ panicked'[q] = panicked[q]
             /\ FailuresOf(q)' = FailuresOf(q)
  <2>1. /\ pc'[q] = pc[q] /\ trace'[q] = trace[q] /\ rec'[q] = rec[q]
        /\ panicked'[q] = panicked[q]
    BY <1>2 DEF TypeOK, Step, Begin, HandlerWrites, HandlerLogs, HandlerReturns,
                HandlerPanics, Recover, Observe, LogRequest, Finish, Commit
  <2>2. log' = log \/ \E msg, severity, id, code : log' = log \cup Emitted(r, msg, severity, id, code)
    BY <1>2 DEF Step, Begin, HandlerWrites, HandlerLogs, HandlerReturns,
                HandlerPanics, Recover, Observe, LogRequest, Finish
  <2>3. FailuresOf(q)' = FailuresOf(q)
    BY <1>2, <2>2 DEF FailuresOf, Emitted
  <2>. QED
    BY <2>1, <2>3
<1>3. CASE Begin(q) \/ HandlerReturns(q) \/ HandlerPanics(q) \/ Observe(q) \/ Finish(q)
           \/ HandlerWrites(q)
  <2>1. FailuresOf(q)' = FailuresOf(q)
    BY <1>3 DEF FailuresOf, Begin, HandlerReturns, HandlerPanics, Observe, Finish, HandlerWrites
  <2>2. CASE Begin(q)
    BY <2>1, <2>2 DEF TypeOK, PanicInv, Begin
  <2>3. CASE HandlerPanics(q)
    BY <2>1, <2>3 DEF TypeOK, PanicInv, HandlerPanics
  <2>4. CASE HandlerWrites(q)
    BY <2>1, <2>4 DEF TypeOK, PanicInv, HandlerWrites
  <2>5. CASE HandlerReturns(q) \/ Observe(q) \/ Finish(q)
    <3>1. /\ trace'[q] = trace[q] /\ rec'[q] = rec[q] /\ panicked'[q] = panicked[q]
          /\ pc[q] \notin {"new", "panicking"}
          /\ pc'[q] \notin {"new", "handling", "panicking"}
      BY <2>5 DEF TypeOK, HandlerReturns, Observe, Finish
    <3>. QED
      BY <2>1, <3>1, PanicKept
  <2>. QED
    BY <1>3, <2>2, <2>3, <2>4, <2>5
<1>4. CASE HandlerLogs(q) \/ LogRequest(q)
  <2>1. FailuresOf(q)' = FailuresOf(q)
    BY <1>4 DEF FailuresOf, HandlerLogs, LogRequest, Emitted
  <2>2. /\ trace'[q] = trace[q] /\ rec'[q] = rec[q] /\ panicked'[q] = panicked[q]
        /\ \/ pc'[q] = pc[q]
           \/ pc[q] \notin {"new", "panicking"} /\ pc'[q] \notin {"new", "handling", "panicking"}
    BY <1>4 DEF TypeOK, HandlerLogs, LogRequest
  <2>. QED
    BY <2>1, <2>2, PanicKept
<1>5. CASE Recover(q)
  <2>1. pc[q] = "panicking" /\ pc'[q] = "counting" /\ panicked'[q] /\ trace'[q] = trace[q]
    BY <1>5 DEF TypeOK, PanicInv, Recover
  <2>2. log' = log \cup {FailureOf(q)'}
    BY <1>5, <2>1, ErrorsAreEnabled DEF Recover, Emitted, FailureOf
  <2>3. FailuresOf(q) = {}
    BY <2>1 DEF PanicInv
  <2>4. FailureOf(q)'.by = q /\ FailureOf(q)'.msg = "http_request_failed"
    BY DEF FailureOf
  <2>5. FailuresOf(q)' = {FailureOf(q)'}
    BY <2>2, <2>3, <2>4 DEF FailuresOf
  <2>. QED
    BY <2>1, <2>5
<1>. QED
  BY <1>1, <1>2, <1>3, <1>4, <1>5, PanicKept DEF Next, Step, Idle, vars

\* Every panic is recorded once, with the identity and the status of its request.
THEOREM PanicsHold == Spec => []PanicsAreLogged
<1>1. TypeOK /\ RecordInv /\ PanicInv => PanicsAreLogged
  <2> SUFFICES ASSUME RecordInv, PanicInv, NEW r \in Counted
               PROVE  FailuresOf(r) =
                         IF panicked[r]
                            THEN {[msg |-> "http_request_failed", trace_id |-> trace[r],
                                   code |-> Sent(r), by |-> r]}
                            ELSE {}
    BY DEF PanicsAreLogged, FailuresOf
  <2>1. r \in Requests /\ pc[r] # "panicking" /\ rec[r].code = Sent(r)
    BY DEF Counted, RecordInv
  <2>. QED
    BY <2>1 DEF PanicInv, FailureOf
<1>. QED
  BY TypeInit, TypeNext, RecordInit, RecordNext, PanicInit, PanicNext, <1>1, PTL DEF Spec

-----------------------------------------------------------------------------
(* Correlation.  Every record of a request carries the one id it was given. *)

TraceInv ==
    /\ \A r \in Requests : pc[r] # "new" => trace[r] = TraceIDForRequest(r) /\ ctx[r] = trace[r]
    /\ \A x \in log : x.by \in Requests /\ x.trace_id = TraceIDForRequest(x.by)

LEMMA TraceInit == Init => TraceInv
BY DEF Init, TraceInv

LEMMA TraceNext == TypeOK /\ TraceInv /\ [Next]_vars => TraceInv'
<1> SUFFICES ASSUME TypeOK, TraceInv, [Next]_vars
             PROVE  TraceInv'
  OBVIOUS
<1> USE DEF Goto
<1>1. CASE UNCHANGED vars
  BY <1>1 DEF vars, TraceInv, TraceIDForRequest
<1>2. ASSUME NEW r \in Requests, Step(r)
      PROVE  TraceInv'
  <2>1. req' = req
    BY <1>2 DEF Step, Begin, HandlerWrites, HandlerLogs, HandlerReturns, HandlerPanics,
                Recover, Observe, LogRequest, Finish
  <2>2. \A q \in Requests : TraceIDForRequest(q)' = TraceIDForRequest(q)
    BY <2>1 DEF TraceIDForRequest
  <2>3. ASSUME NEW q \in Requests, pc'[q] # "new"
        PROVE  trace'[q] = TraceIDForRequest(q) /\ ctx'[q] = trace'[q]
    <3>1. CASE Begin(r)
      BY <2>3, <3>1 DEF TypeOK, TraceInv, Begin, WithTrace
    <3>2. CASE ~Begin(r)
      <4>1. pc[q] # "new" /\ UNCHANGED <<trace, ctx>>
        BY <1>2, <2>3, <3>2
           DEF TypeOK, Step, HandlerWrites, HandlerLogs, HandlerReturns, HandlerPanics,
               Recover, Observe, LogRequest, Finish
      <4>. QED
        BY <4>1 DEF TraceInv
    <3>. QED
      BY <3>1, <3>2
  <2>4. pc[r] # "new" => trace[r] = TraceIDForRequest(r) /\ ctx[r] = trace[r]
    BY DEF TraceInv
  <2>5. \/ log' = log
        \/ \E msg, severity, code :
              log' = log \cup Emitted(r, msg, severity, TraceIDForRequest(r), code)
    BY <1>2, <2>4 DEF Step, Begin, HandlerWrites, HandlerLogs, HandlerReturns,
                      HandlerPanics, Recover, Observe, LogRequest, Finish
  <2>6. \A x \in log' : x.by \in Requests /\ x.trace_id = TraceIDForRequest(x.by)
    BY <2>5 DEF TraceInv, Emitted
  <2>. QED
    BY <2>2, <2>3, <2>6 DEF TraceInv
<1>. QED
  BY <1>1, <1>2 DEF Next, Idle

\* What TraceIDForRequest returns is the caller's choice, or the request's own.
LEMMA IdOf ==
    ASSUME TypeOK, NEW r \in Requests
    PROVE  \/ Chosen(r) = NoId /\ TraceIDForRequest(r) = r
           \/ Chosen(r) = TraceIDForRequest(r) /\ Chosen(r) \in Inbound
<1> DEFINE header == req[r].header
<1>1. header.id \in Inbound \cup {ZeroId, NoId}
  BY HttpAssumption DEF TypeOK
<1>2. Adopts(header) <=> header.fields >= 4 /\ header.version = 2 /\ header.id \in Inbound
  BY <1>1, HttpAssumption DEF Adopts, Parses
<1>. QED
  BY <1>2 DEF Chosen, TraceIDForRequest

\* A trace id retrieves the records of one request, and those of the requests whose
\* callers chose the same id.
THEOREM CorrelationHolds == Spec => []Correlated
<1>1. TypeOK /\ TraceInv => Correlated
  <2> SUFFICES ASSUME TypeOK, TraceInv, NEW x \in log, NEW y \in log
               PROVE  x.trace_id = y.trace_id <=>
                         x.by = y.by \/ (Chosen(x.by) = Chosen(y.by) /\ Chosen(x.by) # NoId)
    BY DEF Correlated
  <2>1. /\ x.by \in Requests /\ x.trace_id = TraceIDForRequest(x.by)
        /\ y.by \in Requests /\ y.trace_id = TraceIDForRequest(y.by)
    BY DEF TraceInv
  <2>2. /\ \/ Chosen(x.by) = NoId /\ x.trace_id = x.by
           \/ Chosen(x.by) = x.trace_id /\ x.trace_id \in Inbound
        /\ \/ Chosen(y.by) = NoId /\ y.trace_id = y.by
           \/ Chosen(y.by) = y.trace_id /\ y.trace_id \in Inbound
    BY <2>1, IdOf
  <2>3. x.by = y.by => x.trace_id = y.trace_id
    BY <2>1
  <2>. QED
    BY <2>1, <2>2, <2>3, HttpAssumption
<1>. QED
  BY TypeInit, TypeNext, TraceInit, TraceNext, <1>1, PTL DEF Spec
=============================================================================
