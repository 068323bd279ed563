------------------------------ MODULE Service ------------------------------
(***************************************************************************)
(* A whole PulseFlow process: the readiness path (Readiness) behind the    *)
(* server and inside the startup and shutdown of run (Lifecycle), and the  *)
(* dependency clients that both touch.                                     *)
(*                                                                         *)
(* The two share the readiness gate, which the first shutdown step sets.   *)
(* A client is built by the first check that needs it, on a goroutine of   *)
(* the round (sync.Once in kafka.go, clickhouse.go, redis.go), and closed  *)
(* by the last shutdown step, which looks at it without a lock.  Nothing   *)
(* but the order of shutdown keeps the two apart.                          *)
(*                                                                         *)
(* The requests here are readiness probes.  Lifecycle has the others, and  *)
(* Readiness a request that never ends, a clock that steps and more rounds.*)
(***************************************************************************)
EXTENDS Lifecycle

CONSTANTS
    NoCaller, NoResult, NoReply,  \* of Readiness
    TTL, Timeout, Overrun,
    ClockSteps, MaxSkew, MaxTime

VARIABLES
    now, skew, up, since,                       \* of Readiness
    cached, gauge,
    phase, leader, began, answers, product,
    at,                                         \* its pc
    val, gone, late, sent,
    client      \* client[d]: "unbuilt" (a nil pointer), "open" or "closed"

\* Every client is that of one checker.
Deps == {Clients[i] : i \in DOMAIN Clients}

R == INSTANCE Readiness WITH Callers <- Requests, pc <- at

\* What only one of the two components has.
running   == <<main, signals, server, step, closed, failed, done, grace>>
readiness == <<now, skew, up, since, cached, gauge, phase, leader, began, answers,
               product, at, val, gone, late, sent>>

all == <<vars, readiness, client>>

ServiceInit ==
    /\ Init
    /\ R!Init
    /\ client = [d \in Deps |-> "unbuilt"]

-----------------------------------------------------------------------------
(* Requests.                                                               *)

\* net/http starts the handler, and with it a call of Evaluate.
HandlerBegins(r) == RequestBegins(r) /\ R!Call(r) /\ UNCHANGED client

\* Mutant: the handler does not wait for the round once its client is gone.
MayReturnEarly(r) == at[r] = "idle" \/ gone[r]

MayReturn(r) == at[r] = "idle"

\* The handler returns when Evaluate has and the response is written.
HandlerReturns(r) ==
    /\ RequestEnds(r) /\ MayReturn(r)
    /\ UNCHANGED <<readiness, client>>

-----------------------------------------------------------------------------
(* Clients.                                                                *)

\* once.Do, at the start of the first check.
Build(d) ==
    /\ Running /\ phase = "checking" /\ answers[d] = R!Running
    /\ client[d] = "unbuilt"
    /\ client' = [client EXCEPT ![d] = "open"]
    /\ UNCHANGED <<vars, readiness>>

CheckReturns(d) ==
    /\ Running /\ client[d] # "unbuilt"
    /\ R!CheckReturns(d)
    /\ UNCHANGED <<running, client>>

\* Mutant: a client with a failed health check is not worth closing.
ClosedIfHealthy(d) ==
    IF client[d] = "open" /\ gauge[d] = "up" THEN "closed" ELSE client[d]

\* Close does nothing for a client that was never built.
AfterClose(d) == IF client[d] = "open" THEN "closed" ELSE client[d]

Close ==
    /\ CloseClient
    /\ LET d == Clients[closed + 1]
       IN  /\ client[d] = "unbuilt" => UNCHANGED failed
           /\ client' = [client EXCEPT ![d] = AfterClose(d)]
    /\ UNCHANGED readiness

-----------------------------------------------------------------------------
(* What one component does alone, and the step that both share.            *)

SetGate == CloseGate /\ R!BeginShutdown /\ UNCHANGED client

Evaluates ==
    /\ Running
    /\ \/ \E r \in Requests : R!CallerStep(r)
       \/ R!FlightStep
    /\ UNCHANGED <<running, client>>

World ==
    /\ Running
    /\ \/ \E r \in Requests : R!Disconnect(r)
       \/ \E d \in Deps : R!DepChange(d)
       \/ R!ClockStep \/ R!Tick
    /\ UNCHANGED <<running, client>>

Runs ==
    /\ \/ MainStep
       \/ \E s \in Signals : Raise(s) \/ Deliver(s)
       \/ CancelRoot \/ Rearm
       \/ Serve
       \/ \E r \in Requests : Connects(r)
       \/ BeginDrain \/ Poll \/ PollAgain \/ DrainCut \/ ClientsClosed
       \/ Expire
    /\ UNCHANGED <<readiness, client>>

Over == ~Running /\ UNCHANGED all

ServiceNext ==
    \/ \E r \in Requests : HandlerBegins(r) \/ HandlerReturns(r)
    \/ \E d \in Deps : Build(d) \/ CheckReturns(d)
    \/ Close \/ SetGate \/ Evaluates \/ World \/ Runs
    \/ Over

\* Lifecycle's fairness and Readiness's, except that the grace period may be as long
\* as it likes; and a connection on which nothing arrives is spared only while young.
ServiceFairness ==
    /\ WF_all(MainStep /\ Runs)
    /\ WF_all(CancelRoot /\ Runs)
    /\ WF_all(Serve /\ Runs)
    /\ WF_all(SetGate \/ ((BeginDrain \/ Poll \/ PollAgain) /\ Runs))
    /\ SF_all(Poll /\ Runs /\ Open' = {})
    /\ \A s \in Signals : WF_all(Deliver(s) /\ Runs)
    /\ \A r \in Requests : WF_all(HandlerReturns(r) \/ (Evaluates /\ R!CallerStep(r)))
    /\ \A d \in Deps : WF_all(Build(d) \/ (CheckReturns(d) /\ R!Overdue(d)))
    /\ WF_all(Evaluates /\ R!FlightStep)
    /\ WF_all(World /\ R!Tick)

ServiceSpec == ServiceInit /\ [][ServiceNext]_all /\ ServiceFairness

-----------------------------------------------------------------------------
(* Properties.                                                             *)

\* From the moment the clients begin to be closed no round of checks is under way,
\* and no client is built behind the back of Close, not even for a request that the
\* drain lost sight of: Check and Close never meet on a client (they share no lock).
ClientsOutliveChecks ==
    /\ step = "dependency_clients" \/ closed > 0 => phase = "none"
    /\ \A i \in 1 .. closed : client[Clients[i]] # "open"

\* A process that reports success leaves no client open and no probe unanswered,
\* except one that began on a connection the drain had already closed.
NothingLeftBehind ==
    status = "exit_0" =>
       /\ \A d \in Deps : client[d] # "open"
       /\ \A r \in Requests : at[r] # "idle" => reqs[r] = "orphan"

\* Readiness probes cannot hold up a shutdown: whatever their checks, their clients
\* and each other's rounds do, the server is drained without help from the grace
\* period.
Drains == cancelled ~> step \in {"dependency_clients", "ended"} \/ ~Running
=============================================================================
