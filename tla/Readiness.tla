----------------------------- MODULE Readiness -----------------------------
(***************************************************************************)
(* The readiness path of both PulseFlow binaries: health.Aggregator        *)
(* (internal/health/aggregate.go), the check it runs per dependency        *)
(* (checker.go) and the HTTP handler that reports its result (handler.go). *)
(*                                                                         *)
(* Any number of callers evaluate readiness at once.  A caller loads the   *)
(* shutdown gate, looks at the cached result, and on a miss joins the one  *)
(* singleflight call; its first caller leads it, looks at the cache again, *)
(* and if it is still stale probes every dependency concurrently, stamps   *)
(* the result with the wall clock, records the metrics and writes the      *)
(* cache.  Everyone then loads the gate a second time.                     *)
(*                                                                         *)
(* Time: "now" is true (monotonic) time and now + skew the wall clock the  *)
(* code reads.  Time passes only when no step that takes no time of its    *)
(* own is pending (Prompt).                                                *)
(***************************************************************************)
EXTENDS Integers

CONSTANTS
    Callers,      \* concurrent calls of Evaluate: one per readiness request
    Deps,         \* the checked dependencies (kafka, clickhouse, redis)
    NoCaller,     \* "nobody leads a round"
    NoResult,     \* "no evaluation": the nil pointer of Aggregator.cached
    NoReply,      \* "no response"
    TTL,          \* HEALTH_CACHE_TTL
    Timeout,      \* HEALTH_CHECK_TIMEOUT
    Overrun,      \* how long past its deadline a checker may take to return
    ClockSteps,   \* corrections the wall clock may undergo
    MaxSkew,      \* bound: the wall clock is off by at most this much
    MaxTime       \* bound: no request arrives at MaxTime or later

Healthy   == "healthy"
Failed    == "failed"     \* a refusal, a rejected credential, a wrong answer
TimedOut  == "timeout"
Cancelled == "cancelled"  \* the leader's request was cancelled under the check
Running   == "running"
Unchecked == "unchecked"  \* a zero Status: only the name is filled in

Outcomes  == {Healthy, Failed, TimedOut, Cancelled}

\* Result.  "began" is history: the true time at which its round began.
Results == [at: Int, began: Int, deps: [Deps -> Outcomes]]

Replies == [code: {200, 503}, shuttingDown: BOOLEAN,
            deps: [Deps -> Outcomes \cup {Unchecked}]]

\* Durations are what config.validate lets through.
ASSUME ReadinessAssumption ==
    /\ TTL \in Nat /\ Timeout \in Nat /\ TTL < Timeout
    /\ Overrun \in Nat /\ MaxSkew \in Nat /\ MaxTime \in Nat
    /\ ClockSteps \subseteq Int
    /\ NoCaller \notin Callers
    /\ NoResult \notin Results
    /\ NoReply \notin Replies

VARIABLES
    now,      \* true time
    skew,     \* wall clock minus true time
    up,       \* up[d]: d answers its probe, within Timeout
    since,    \* since[d]: when up[d] last changed
    gate,     \* Aggregator.shuttingDown
    cached,   \* Aggregator.cached
    gauge,    \* pulseflow_dependency_up{dependency}
    phase,    \* the singleflight call: "none", "entered", "checking",
              \*   "stamped" (evaluateNow returned), "published" (fn returns)
    leader,   \* the caller that runs it, whose ctx the checks inherit
    began,    \* when the last round of checks began, -TTL before the first
    answers,  \* answers[d]: statuses[i], or Running
    product,  \* the value it returns
    pc,       \* pc[c]: where the call c stands in Evaluate
    val,      \* val[c]: the value c received from singleflight
    gone,     \* gone[c]: the client of c disconnected, its ctx is cancelled
    late,     \* late[c]: history, the gate was set when c arrived
    sent      \* the response this step wrote to its client, or NoReply

env    == <<now, skew, up, since>>
flight == <<phase, leader, began, answers, product>>
call   == <<pc, val, gone, late>>
vars   == <<env, gate, cached, gauge, flight, call, sent>>

Quiet == sent' = NoReply

-----------------------------------------------------------------------------
Wall == now + skew

\* Mutants of Fresh: nothing expires; a failure does not.
FreshForever == cached # NoResult

FreshUnlessReady ==
    cached # NoResult
    /\ (Wall - cached.at < TTL \/ \E d \in Deps : cached.deps[d] # Healthy)

\* fresh: the age is a difference of wall clock readings, because UTC() has
\* stripped the monotonic reading from EvaluatedAt.
Fresh == cached # NoResult /\ Wall - cached.at < TTL

Ready(r) == \A d \in Deps : r.deps[d] = Healthy

\* The deadlines of a check: its context's, and the latest it returns.
Deadline == began + Timeout
HardStop == began + Timeout + Overrun

\* d has been answering for as long as the round has been checking it.
Steady(d) == up[d] /\ since[d] <= began

Init ==
    /\ now = 0 /\ skew = 0
    /\ up \in [Deps -> BOOLEAN]
    /\ since = [d \in Deps |-> 0]
    /\ gate = FALSE
    /\ cached = NoResult
    /\ gauge = [d \in Deps |-> "unset"]
    /\ phase = "none"
    /\ leader = NoCaller
    /\ began = -TTL
    /\ answers = [d \in Deps |-> Running]
    /\ product = NoResult
    /\ pc = [c \in Callers |-> "idle"]
    /\ val = [c \in Callers |-> NoResult]
    /\ gone = [c \in Callers |-> FALSE]
    /\ late = [c \in Callers |-> FALSE]
    /\ sent = NoReply

-----------------------------------------------------------------------------
(* What a caller is answered (ReadinessHandler, shutdownResult).           *)

\* Mutant: an unready process answers 500.
RespondInternalError(r) ==
    [code |-> IF Ready(r) THEN 200 ELSE 500, shuttingDown |-> FALSE,
     deps |-> r.deps]

Respond(r) ==
    [code |-> IF Ready(r) THEN 200 ELSE 503, shuttingDown |-> FALSE,
     deps |-> r.deps]

\* The last known statuses, or only the names when nothing was ever checked.
Refusal(last) ==
    [code |-> 503, shuttingDown |-> TRUE,
     deps |-> IF last = NoResult THEN [d \in Deps |-> Unchecked] ELSE last.deps]

ShutdownReply == Refusal(cached)

Answer(c, response) ==
    /\ pc' = [pc EXCEPT ![c] = "idle"]
    /\ val' = [val EXCEPT ![c] = NoResult]
    /\ gone' = [gone EXCEPT ![c] = FALSE]
    /\ late' = [late EXCEPT ![c] = FALSE]
    /\ sent' = response
    /\ UNCHANGED <<env, gate, cached, gauge, flight>>

Goto(c, label) ==
    /\ pc' = [pc EXCEPT ![c] = label]
    /\ Quiet /\ UNCHANGED <<val, gone, late>>

-----------------------------------------------------------------------------
(* Evaluate, one action per step that another goroutine can come between.  *)

\* A readiness request arrives.
Call(c) ==
    /\ pc[c] = "idle"
    /\ now < MaxTime
    /\ pc' = [pc EXCEPT ![c] = "entered"]
    /\ late' = [late EXCEPT ![c] = gate]
    /\ Quiet /\ UNCHANGED <<env, gate, cached, gauge, flight, val, gone>>

\* The gate, loaded first: set, it answers at once.
RefuseAtGate(c) ==
    /\ pc[c] = "entered" /\ gate
    /\ Answer(c, ShutdownReply)

\* Mutant: the gate is loaded once only, after the round.
PassUngated(c) ==
    /\ pc[c] = "entered"
    /\ Goto(c, "probe")
    /\ UNCHANGED <<env, gate, cached, gauge, flight>>

PassGate(c) ==
    /\ pc[c] = "entered" /\ ~gate
    /\ Goto(c, "probe")
    /\ UNCHANGED <<env, gate, cached, gauge, flight>>

\* The first look at the cache.  A hit is returned as it is.
HitCache(c) ==
    /\ pc[c] = "probe" /\ Fresh
    /\ Answer(c, Respond(cached))

MissCache(c) ==
    /\ pc[c] = "probe" /\ ~Fresh
    /\ Goto(c, "missed")
    /\ UNCHANGED <<env, gate, cached, gauge, flight>>

\* sf.Do: the first caller runs the function, the others wait for its value.
LeadFlight(c) ==
    /\ pc[c] = "missed" /\ phase = "none"
    /\ phase' = "entered"
    /\ leader' = c
    /\ Goto(c, "leading")
    /\ UNCHANGED <<env, gate, cached, gauge, began, answers, product>>

JoinFlight(c) ==
    /\ pc[c] = "missed" /\ phase # "none"
    /\ Goto(c, "waiting")
    /\ UNCHANGED <<env, gate, cached, gauge, flight>>

\* The second look at the cache, inside the flight.
ShareCache ==
    /\ phase = "entered" /\ Fresh
    /\ phase' = "published"
    /\ product' = cached
    /\ Quiet /\ UNCHANGED <<env, gate, cached, gauge, leader, began, answers, call>>

\* Mutant: the cache is not looked at again inside the flight.
UnpermittedToBegin == phase = "entered"

MayBegin == phase = "entered" /\ ~Fresh

\* evaluateNow starts every check.  Its counter of rounds only serves tests.
BeginRound ==
    /\ MayBegin
    /\ phase' = "checking"
    /\ began' = now
    /\ Quiet /\ UNCHANGED <<env, gate, cached, gauge, leader, answers, product, call>>

\* What the check of d can come back with.  A dependency that is up answers; one
\* that is not may answer wrongly or not at all; the check's context ends at its
\* deadline and with the leader's request.
CanReturn(d, outcome) ==
    \/ outcome = Healthy /\ up[d]
    \/ outcome = Failed /\ ~up[d]
    \/ outcome = TimedOut /\ now >= Deadline /\ ~Steady(d)
    \/ outcome = Cancelled /\ gone[leader]

CheckReturns(d) ==
    /\ phase = "checking" /\ answers[d] = Running
    /\ \E outcome \in Outcomes :
          /\ CanReturn(d, outcome)
          /\ answers' = [answers EXCEPT ![d] = outcome]
    /\ Quiet /\ UNCHANGED <<env, gate, cached, gauge, phase, leader, began, product, call>>

\* wg.Wait returns: the result is stamped and each status is recorded.
Stamp ==
    /\ phase = "checking"
    /\ \A d \in Deps : answers[d] # Running
    /\ phase' = "stamped"
    /\ product' = [at |-> Wall, began |-> began, deps |-> answers]
    /\ gauge' = [d \in Deps |-> IF answers[d] = Healthy THEN "up" ELSE "down"]
    /\ Quiet /\ UNCHANGED <<env, gate, cached, leader, began, answers, call>>

\* Mutant: only a ready result is cached.
StoredIfReady == IF Ready(product) THEN product ELSE cached

Stored == product

Publish ==
    /\ phase = "stamped"
    /\ phase' = "published"
    /\ cached' = Stored
    /\ Quiet /\ UNCHANGED <<env, gate, gauge, leader, began, answers, product, call>>

\* Mutant: only the leader gets the value.
AboardLeader(c) == pc[c] = "leading"

Aboard(c) == pc[c] \in {"leading", "waiting"}

\* singleflight hands the value out and forgets the key, under one lock.
Land ==
    /\ phase = "published"
    /\ pc' = [c \in Callers |-> IF Aboard(c) THEN "landed" ELSE pc[c]]
    /\ val' = [c \in Callers |-> IF Aboard(c) THEN product ELSE val[c]]
    /\ phase' = "none"
    /\ leader' = NoCaller
    /\ answers' = [d \in Deps |-> Running]
    /\ product' = NoResult
    /\ Quiet /\ UNCHANGED <<env, gate, cached, gauge, began, gone, late>>

\* The gate, loaded again: shutdown may have begun while the round ran.
RefuseAfterRound(c) ==
    /\ pc[c] = "landed" /\ gate
    /\ Answer(c, ShutdownReply)

\* Mutant: the gate is not loaded again.
AnswerRoundUngated(c) ==
    /\ pc[c] = "landed"
    /\ Answer(c, Respond(val[c]))

AnswerRound(c) ==
    /\ pc[c] = "landed" /\ ~gate
    /\ Answer(c, Respond(val[c]))

-----------------------------------------------------------------------------
(* The rest of the process and the world.                                  *)

\* The readiness_gate step of shutdown.  Nothing ever clears the gate.
BeginShutdown ==
    /\ ~gate
    /\ gate' = TRUE
    /\ Quiet /\ UNCHANGED <<env, cached, gauge, flight, call>>

\* The client gives up: net/http cancels the request's context.
Disconnect(c) ==
    /\ pc[c] # "idle" /\ ~gone[c]
    /\ gone' = [gone EXCEPT ![c] = TRUE]
    /\ Quiet /\ UNCHANGED <<env, gate, cached, gauge, flight, pc, val, late>>

\* Bound: a dependency changes at most once per unit of time.
DepChange(d) ==
    /\ since[d] < now
    /\ up' = [up EXCEPT ![d] = ~up[d]]
    /\ since' = [since EXCEPT ![d] = now]
    /\ Quiet /\ UNCHANGED <<now, skew, gate, cached, gauge, flight, call>>

ClockStep ==
    /\ \E k \in ClockSteps :
          /\ skew + k \in -MaxSkew .. MaxSkew
          /\ skew' = skew + k
    /\ Quiet /\ UNCHANGED <<now, up, since, gate, cached, gauge, flight, call>>

\* No time passes between the end of the last check and the responses it feeds,
\* a check ends by its hard stop, and a steady dependency answers by the deadline.
Prompt ==
    /\ phase \notin {"stamped", "published"}
    /\ \A c \in Callers : pc[c] # "landed"
    /\ phase = "checking" =>
          /\ \E d \in Deps : answers[d] = Running
          /\ \A d \in Deps : answers[d] = Running =>
                now < HardStop /\ (Steady(d) => now < Deadline)

\* Past MaxTime the clock runs only for a round still under way.
Tick ==
    /\ Prompt
    /\ now < MaxTime \/ phase = "checking"
    /\ now' = now + 1
    /\ Quiet /\ UNCHANGED <<skew, up, since, gate, cached, gauge, flight, call>>

\* The end of a bounded behaviour: no request is left, and none will arrive.  In
\* any other state without a successor some call is stuck.
Rest ==
    /\ now >= MaxTime
    /\ \A c \in Callers : pc[c] = "idle"
    /\ Quiet /\ UNCHANGED <<env, gate, cached, gauge, flight, call>>

-----------------------------------------------------------------------------
CallerStep(c) ==
    \/ RefuseAtGate(c) \/ PassGate(c)
    \/ HitCache(c) \/ MissCache(c)
    \/ LeadFlight(c) \/ JoinFlight(c)
    \/ RefuseAfterRound(c) \/ AnswerRound(c)

FlightStep == ShareCache \/ BeginRound \/ Stamp \/ Publish \/ Land

Next ==
    \/ \E c \in Callers : Call(c) \/ CallerStep(c) \/ Disconnect(c)
    \/ FlightStep
    \/ \E d \in Deps : CheckReturns(d) \/ DepChange(d)
    \/ BeginShutdown \/ ClockStep \/ Tick \/ Rest

\* A check that is out of time returns; goroutines that can run do.
Overdue(d) == now >= HardStop \/ (Steady(d) /\ now >= Deadline)

Fairness ==
    /\ \A c \in Callers : WF_vars(CallerStep(c))
    /\ \A d \in Deps : WF_vars(CheckReturns(d) /\ Overdue(d))
    /\ WF_vars(FlightStep)
    /\ WF_vars(Tick)

Spec == Init /\ [][Next]_vars /\ Fairness
-----------------------------------------------------------------------------
(* Properties.                                                             *)

TypeOK ==
    /\ now \in Nat /\ skew \in Int
    /\ up \in [Deps -> BOOLEAN] /\ since \in [Deps -> Nat]
    /\ gate \in BOOLEAN
    /\ cached \in Results \cup {NoResult}
    /\ gauge \in [Deps -> {"unset", "up", "down"}]
    /\ phase \in {"none", "entered", "checking", "stamped", "published"}
    /\ leader \in Callers \cup {NoCaller}
    /\ began \in Int
    /\ answers \in [Deps -> Outcomes \cup {Running}]
    /\ product \in Results \cup {NoResult}
    /\ pc \in [Callers -> {"idle", "entered", "probe", "missed", "leading",
                           "waiting", "landed"}]
    /\ val \in [Callers -> Results \cup {NoResult}]
    /\ gone \in [Callers -> BOOLEAN]
    /\ late \in [Callers -> BOOLEAN]
    /\ sent \in Replies \cup {NoReply}

\* The dependencies are probed at most once per HEALTH_CACHE_TTL of true time,
\* however many callers there are and however they interleave: between two rounds
\* at least TTL passes (the cache looked at again inside the flight, FR-010).
\* Holds while the wall clock is never corrected forwards.
RoundsSpaced ==
    [][phase = "entered" /\ phase' = "checking" =>
          now - began >= TTL]_vars

Answered(c) == pc[c] # "idle" /\ pc'[c] = "idle"

\* How old the observation behind an answer may be: a round's checks may take
\* Timeout + Overrun, and its result is served for TTL from its end.
Horizon == Timeout + Overrun + TTL

Recent(d) == now - since[d] <= Horizon

\* An outage shows: a dependency that an answer calls healthy is up, or went down
\* no longer ago than the horizon (SC-002; cache expiry in fresh).  Holds while
\* the wall clock is never corrected backwards.
OutageIsSeen ==
    [][\A c \in Callers, d \in Deps :
          Answered(c) /\ ~sent'.shuttingDown /\ sent'.deps[d] = Healthy
             => up[d] \/ Recent(d)]_vars

\* A recovery shows: a dependency that an answer reports as failing its check is
\* down, or came up no longer ago than the horizon (SC-004).  Same proviso.
RecoveryIsSeen ==
    [][\A c \in Callers, d \in Deps :
          Answered(c) /\ ~sent'.shuttingDown
          /\ sent'.deps[d] \in {Failed, TimedOut}
             => ~up[d] \/ Recent(d)]_vars

\* Once the gate is set no request that arrived later is answered 200, and of the
\* earlier ones only one already past its first look at the gate with a fresh
\* cache in hand: nobody who waited for a round is (the second look, FR-020).
DrainIsFinal ==
    [][\A c \in Callers :
          Answered(c) /\ gate /\ sent'.code = 200
             => ~late[c] /\ pc[c] = "probe"]_vars

\* Whenever no round is under way the dependency_up gauges and the cached result
\* tell the same story, though they are written by different steps.
MetricsAgree ==
    phase \in {"none", "entered"} =>
       \A d \in Deps :
          gauge[d] = CASE cached = NoResult -> "unset"
                       [] cached # NoResult /\ cached.deps[d] = Healthy -> "up"
                       [] OTHER -> "down"

\* No call is left behind: who waits for a flight waits for one that is under way,
\* which has one leader, and that leader is still inside its call, its client gone or
\* not.  (singleflight forgets the key and wakes the waiters under one lock.)
NobodyForgotten ==
    /\ \A c \in Callers :
          /\ pc[c] \in {"leading", "waiting"} => phase # "none"
          /\ pc[c] = "leading" => leader = c
    /\ phase # "none" => leader \in Callers /\ pc[leader] = "leading"

\* Readiness implements Probe: what is reported was the process's result at some
\* moment of the call, whichever of cache, round and shared value it came from, and
\* after the gate only the cached result still reaches a call that was under way.
P == INSTANCE Probe WITH
        Report  <- Respond,
        open    <- {c \in Callers : pc[c] # "idle"},
        current <- cached,
        seen    <- val

KeepsPromise == P!Spec

\* Every readiness request is answered: waiters wake, hung checks end, and a
\* disconnected leader takes no follower down with it.
EveryCallAnswered ==
    \A c \in Callers : pc[c] # "idle" ~> pc[c] = "idle"

-----------------------------------------------------------------------------
(* What the documents say of the program and the code does not do.         *)

\* FR-007: the probe reflects the availability of the dependencies, so a 503 that
\* is not due to shutdown means some dependency was down within the horizon.
UnreadyMeansUnavailable ==
    [][\A c \in Callers :
          Answered(c) /\ ~sent'.shuttingDown /\ sent'.code = 503
             => \E d \in Deps : ~up[d] \/ Recent(d)]_vars

\* FR-011: once a dependency recovers the probe returns to success within the
\* minimum re-check interval, which is HEALTH_CACHE_TTL.
RecoveryWithinTTL ==
    [][\A c \in Callers, d \in Deps :
          Answered(c) /\ ~sent'.shuttingDown
          /\ sent'.deps[d] \in {Failed, TimedOut}
             => ~up[d] \/ now - since[d] <= TTL]_vars
=============================================================================
