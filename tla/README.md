# PulseFlow: a verification development

TLA+ models of the two PulseFlow services (`cmd/api` and `cmd/worker`), the TLC
runs that check them on small instances, and theorems that TLAPS proves of them
for every value of their constants.

At this commit both services are the platform foundation: configuration, health
probes, metrics, structured logs and an orderly shutdown. There is no ingestion
yet. What can really go wrong is concentrated in five places, and the models
follow it: the shared readiness evaluation, the signals and steps of shutdown,
the validation that decides whether a process starts at all, what is counted and
logged of a request, and the meeting of probes and shutdown in one process.

`PROJECT.json` lists components, runs, the map from definitions to source lines,
the mutants that show each property has teeth, the findings, the hazards and the
theorems.

## 1. Inventory

| Component (source) | State | Operations | Interacts with |
| --- | --- | --- | --- |
| readiness aggregator (`internal/health/aggregate.go`) | cached result, shutdown gate, the singleflight call | `Evaluate`, `BeginShutdown` | requests (any number at once), checkers, gauges, shutdown |
| checks (`checker.go`, `kafka.go`, `clickhouse.go`, `redis.go`) | a client built once per checker | `run`, `Check`, `Close`, `Classify` | the three dependencies; the request's context; shutdown |
| handlers (`handler.go`) | none | liveness, readiness | the aggregator, net/http |
| dependency metrics (`internal/observability/depmetrics.go`) | a gauge and a histogram per dependency | `RecordDependencyCheck` | rounds of checks, scrapes |
| lifecycle (`internal/lifecycle/shutdown.go`) | signal channels, root context, grace timer, verdict of the steps | `Signals`, `Aborted`, `Shutdown` | the OS, main, the steps |
| main (`cmd/api/main.go`, `cmd/worker/main.go`, the same sequence) | where `run` stands | wire up, serve, shut down, exit | everything |
| HTTP server (`internal/httpserver/server.go`) | listening, draining | `ListenAndServe`, `Shutdown` | net/http, requests |
| middleware (`middleware.go`, `internal/observability/httpmetrics.go`) | the recorded status of each request | `observe` | handlers, metrics, logs |
| configuration (`internal/config`) | the problems found so far | `Load` | the environment, main |
| logging (`internal/logging`) | none | trace ids, sanitizing, handlers | everything that logs |
| self check (`selfcheck.go`) | none | one probe of the serving process | `main` with `-healthcheck` |
| registry, compose files, scripts | none that changes | | |

What is hard in it, and what makes it correct:

* **Readiness.** Callers, one shared round of concurrent checks, shutdown, client
  disconnects and the clock interleave. Correct means: the load on the
  dependencies is bounded by time and not by callers (FR-010); an answer is true
  of the dependencies up to a known delay (FR-007, SC-002, SC-004); a draining
  process stops saying 200 (FR-020); every request is answered; gauges and
  responses agree.
* **Lifecycle.** Six goroutines and two signals meet in two selects. Correct means:
  clients are closed only under nobody (FR-019), exit status 0 means a completed
  shutdown, a repeated signal and nothing else forces the exit (FR-023), and the
  process ends within its grace period (FR-021).
* **Configuration.** Two passes, a substitution of defaults in between and a
  rule that spans two settings. Correct means: exactly the environments that the
  contract permits start a process (FR-015), and one report names every mistake
  (FR-016, SC-005).
* **Middleware.** A handler may write, log and panic, in any order and more than
  once, beside others. Correct means that the counted and logged status is the one
  the client got, that a panic is on record, and that a trace id retrieves the
  records of its request (SC-008, FR-026, FR-027).
* **The whole process.** Checks build clients that shutdown closes, and probes are
  among the requests it waits for. Correct means that no check meets a client being
  closed, that none is left open, and that the drain ends.

`PROJECT.json` lists the hazards one by one, each at its line.

## 2. Plan

| # | Module | Content | State |
| --- | --- | --- | --- |
| 1 | `Readiness`, `MCReadiness` | aggregator, checks, handler, gauges | done |
| 2 | `ReadinessProofs` | types, load, freshness, drain, gauges | done |
| 3 | `Lifecycle`, `MCLifecycle` | signals, main, server, shutdown steps | done |
| 4 | `LifecycleProofs` | types, order, exit status, forced exit | done |
| 5 | `Config`, `MCConfig`, `ConfigProofs` | `Load` against the contract's table | done |
| 6 | `HttpObserve`, `MCHttpObserve`, `HttpObserveProofs` | middleware: recorded status, panics, trace ids, counters | done |
| 7 | `Service`, `MCService`, `ServiceProofs` | composes `Readiness` and `Lifecycle` and adds the dependency clients | done |
| 8 | `Probe` | what readiness promises, implemented by `Readiness` under a refinement mapping | done |
| 9 | proofs | every safety property of a passing run, the refinement included | done |
| 10 | `Phases`, `PhasesProofs` | what a supervisor relies on, implemented by `Lifecycle` under a refinement mapping | done |
| 11 | more of `ReadinessProofs`, `LifecycleProofs`, `ServiceProofs` | waiters and parked selects, bounds under any clock, what the components promise carried to the whole process | done |
| 12 | open | the growth of the method label; FR-021's log line when the drain is cut by the same deadline as the timer | open |

`Service` EXTENDS `Lifecycle` and has an INSTANCE of `Readiness`; `Readiness` has an
INSTANCE of `Probe`, `Lifecycle` one of `Phases`. `Config` and `HttpObserve` stand alone: the first ends before
anything else begins, the second shares no state with the rest but the logger.

## 3. The models

### Readiness

A *caller* is one call of `Aggregator.Evaluate`, that is one readiness request. Its
`pc` stands between the points at which another goroutine can be seen: the first
load of the gate (`RefuseAtGate`, `PassGate`), the first look at the cache
(`HitCache`, `MissCache`), singleflight (`LeadFlight`, `JoinFlight`), the second
load of the gate (`RefuseAfterRound`, `AnswerRound`). The one shared call has a
`phase` of its own: the second look at the cache (`ShareCache`, `BeginRound`), the
checks (`CheckReturns`, one goroutine per dependency), the stamp and the metrics
(`Stamp`), the write of the cache (`Publish`) and the hand-over, with which
singleflight forgets the key (`Land`).

The status of a dependency is reduced to healthy, failed, timed out or cancelled;
a refusal, a rejected credential and a wrong answer are all "failed", because no
property tells them apart. `CanReturn` ties the outcome to the world: a healthy
outcome needs the dependency to be up when its check ends, a timeout needs the
deadline to be past and the dependency not to have been up all along, a
cancellation needs the leader's client to be gone.

Time is a counter `now`; the wall clock that the code reads is `now + skew`, and
`ClockStep` corrects it. Steps that take no time of their own are not overtaken by
`Tick` (`Prompt`): otherwise no bound on the age of an answer could hold. What does
take time is a check, up to `Timeout` for a dependency that answers and up to
`Timeout + Overrun` for a client slow to honour its context. Between the first
load of the gate and the leader's second look at the cache any time may pass.

`began`, `late`, `since` and `sent` are history: no guard of the code reads them.

### Probe

What the endpoint promises, without rounds, cache, clock or singleflight: there
is a current result, replaced now and then; a call is answered with a result
that was the current one at some moment of the call; once the gate is set calls
are refused, but a call from before may still be answered with the current
result. `Readiness` implements it (`KeepsPromise`): the current result is the
cache, a call is open while its `pc` is not "idle", and what it has seen is the
value singleflight handed it. `Land` is the one step that needs an argument: a
round's value is the current result when it lands, whether it was just published
or found by the second look.

### Lifecycle

Main's `pc` follows `run` from the loading of the configuration to the exit:
`ConfigFails` (with `reportConfigFailure`), `SelfCheck` for a process started
with `-healthcheck`, `Wire` for everything that is built before signals are
registered. Its two selects have two labels each. At `serve` and `await` main
arrives at the select and takes any case that is ready; if none is, it parks,
and from then on the first event to occur decides (`Wake`). This is how Go's
select behaves and it is what makes the late re-arming of the second signal
matter.

Signals of one kind that are sent before delivery coalesce; `Deliver` offers the
signal to each registered channel and drops it where the channel is full; without
a handler the process is `killed`. `CancelRoot` is `NotifyContext`'s goroutine,
`Rearm` the one in `Signals`. `Serve` is net/http's `ListenAndServe`: it looks at
`inShutdown` before it listens and again when it has its port, and either it fails
or it serves until shutdown. `Poll` is `http.Server.Shutdown`: it waits for the
accept loop, then polls for idle connections, and only between polls notices that
its context is done. `CloseClient` and `ClientsClosed` are `errors.Join` of the
three `Close` calls.

A connection is "open" from its acceptance until the request on it is read. A poll
closes idle connections and spares those that are young; net/http may close one
just as a request arrives on it ("cut"), and then serves that request although nobody
waits for it ("orphan"). The contents of a request are abstracted; what the readiness
handler answers is the other module's subject.

### Phases

What whoever supervises a process relies on, without goroutines, channels, selects,
timers or connections: it starts, serves, stops, returns and has ended, in this
order, and leaves each phase only for its reasons. It stops only when told to. Its
three steps are taken one after the other, at most once, and none after its end.
Its status says how the steps went, a second signal or the end of the grace period
ends it where it stands, and a signal kills it only before it serves and after all
is done. `Lifecycle` implements it (`FollowsPhases`): the phase is read off main's
label, the steps taken off the step goroutine's, the result off the label that main
returns through. A select, a wake-up, a request or a poll is a stutter; so is the
return of one client's `Close`, since a step is taken when its last part is.

### Config

One action per call of a helper, in the order of `Load` and then of `validate`. A
raw value is what `strconv`, `time`, `strings` and `net` make of the text: unset,
empty, blank, malformed or the value. What cannot be read is reported and the
default takes its place, so that the rules are applied to it as well; the models
keep that, because the cross-field rule then compares the substitute.

The contract (`Row`, `Permitted`) is written from the table of
`contracts/configuration.md`, as a predicate on the environment that knows nothing
of an order of evaluation, of collectors or of helpers.

### HttpObserve

One request passes `Begin` (route, trace id, context), its handler, if need be
`Recover`, then `Observe` and `LogRequest`, which are the deferred function, and
`Finish`, which is net/http. The handler is any sequence of writes, log records
and at most one panic. `rec` is `statusRecorder`; `wire` is what net/http sends,
which commits the first status it is given, or 200 at the end. A traceparent
header is what the code looks at: the number of its fields, the length of the
first, and whether the second decodes. Codes are final ones, since no handler
here sends an informational status. The id drawn for a request is named after
it: 16 random bytes do not collide.

### Service

The process as a whole. A readiness probe is a request of `Lifecycle` and a caller of
`Readiness` under one name: net/http begins the handler with the call of `Evaluate`
(`HandlerBegins`) and the handler returns when the call has (`HandlerReturns`). The
gate is one variable, set by the first shutdown step (`SetGate`). `client` is the
pointer each checker holds: built by the first check that needs it (`Build`,
`sync.Once`), closed by the last shutdown step if it was built (`AfterClose`). All
else is a step of one component that leaves the other alone (`Evaluates`, `World`,
`Runs`).

## 4. The runs

| Run | What it shows | Instance |
| --- | --- | --- |
| `readiness_load` | `TypeOK`; gauges and cache agree between rounds; who waits, waits for a round that is led; rounds a TTL apart; the drain is final; implements `Probe` | 2 callers, 1 dependency, TTL 1, timeout 2, 4 instants, clock may step back once; disconnects, shutdown |
| `readiness_fresh` | an answer's healthy or failing status was true within `Timeout + Overrun + TTL` | 2 callers, 2 dependencies, 6 instants; no disconnects, no shutdown |
| `readiness_live` | every request is answered | 2 callers, 1 dependency, 3 instants; disconnects, shutdown |
| `lifecycle` | order of shutdown, exit status, no half-started process, forced exit, no working process killed, no select that sleeps through its event, one true record of the ending, termination; implements `Phases` | 2 requests, 3 clients of which 2 may fail, 3 signals |
| `config_load` | accepts exactly what the contract permits; reports exactly the mistakes | every pair of settings at up to 10 sample values each |
| `http_observe` | counted as sent, panics on record, trace ids | 2 requests, 4 log levels, 6 headers, statuses 200, 503 and 500, matched and unmatched route |
| `service` | checks and `Close` never meet, nothing is left open, the drain ends | 2 probes, 1 client, 1 signal, no grace expiry |
| `readiness_cut` | *finding:* a disconnecting leader makes a 503 of nothing | 2 callers |
| `readiness_backwards` | *finding:* a cached failure survives a backward clock correction | 1 caller, skew up to 5 |
| `readiness_recovery` | *finding:* a recovery takes a check timeout longer than the TTL to show | 1 caller, 2 dependencies |
| `lifecycle_repeat` | *finding:* a second signal before the re-arming is swallowed | 1 request, 3 signals |
| `config_lines` | *finding:* one field, two lines | the two health settings |

**Why the bounds are enough.** Two callers are what the interleavings of
`Evaluate` need: one leads while the other joins, hits, or comes too late for
the round, and a caller is used again as soon as it is answered; the theorems
then hold for any number of them. One dependency suffices where statuses are not
compared, two where a round mixes observations of different moments. A TTL of 1
and a timeout of 2 are the smallest that validation admits with a non-zero
cache; three to six instants hold a round, the life of its result and the next
round. In `Lifecycle` two signals are the least that can be repeated and the
third coalesces with one before it or comes after; two requests let one end
while another hangs; three clients are what main closes. The samples of
`MCConfig` lie on both sides of every boundary, the defaults included, because
the cross-field rule compares with them; problems of more than two settings only
add up. `readiness_fresh` keeps clients and the gate still (`PatientSpec`) to
afford two dependencies: neither property speaks of a cancelled check or of an
answer under shutdown, and the theorems cover the full specification. Two
requests in `MCHttpObserve` share counters and log and may choose the same trace
id; the headers are one well-formed and one for each way to be ill-formed.

`MCService` has the two probes that lead and follow, and one client, which is
built late, early or never. `Narrow` keeps its 186 000 states affordable: the
grace period does not end (so that `Drains` is not owed to it), only SIGTERM is
sent, the dependency stays as it began, and one of the two clients stays. A TTL
of 0 makes the second probe start a round of its own, the harder case for the
drain. `Lifecycle` alone has the other signals and the grace period, `Readiness`
alone the changing dependencies, and the two safety properties are proved of
`ServiceSpec` without any of these limits.

**Bounds in the guards.** `MaxTime` (no request arrives later; a round under way
may run on), `MaxSkew` (how far the wall clock is off), one change of a dependency
per unit of time, `MaxSignals`. `Rest`, `Ended` and `Returned` mark the ends of
bounded or terminated behaviours, so that TLC's deadlock check stays on in every
run and a stuck caller would be reported.

**Fairness.** `Readiness`: a goroutine that can run does (weak fairness of each
caller, of the shared call), time passes, and a check past its hard stop returns;
that is what `context.WithTimeout` and clients that honour it give. Nothing is
assumed of dependencies, of clients or of shutdown. `Lifecycle`: goroutines run, the
timer fires and a queued signal is delivered. A request and a client's `Close`
have no fairness: they may hang for ever, and `Terminates` holds all the same,
because main itself watches the grace period. `Service`: both of
these, less the grace timer, re-arming and `Close`, which `Drains` does not need.
One strong fairness is added: `Poll` finds infinitely often a moment to close every
connection on which nothing arrived, because net/http spares such a connection for
five seconds only (its `ReadHeaderTimeout` is five seconds as well).

## 5. What is proved

All proofs are in `ReadinessProofs`, `LifecycleProofs`, `PhasesProofs`,
`ConfigProofs`, `HttpObserveProofs` and `ServiceProofs`, and they cover every safety property of
every passing run; the only assumptions are the named ones on the constants,
which TLC evaluates in every run. `Readiness` asks for naturals with `TTL <
Timeout` (what validation lets through) and for markers outside the sets they
mark; `Lifecycle` for a non-empty sequence of clients; `Config` for environments
that give every setting a value (a number, where one is expected, or a marker)
and for a default port in range; `HttpObserve` for finitely many requests, final
status codes and ids that are distinct from the markers.

* **`RoundsSpaced`** (`LoadIsBounded`; any callers and dependencies; clock never
  corrected forwards). `LoadInv` says that the result of the last round, on its
  way to the cache or in it, is stamped no earlier than that round began, read
  off today's wall clock, and that a round that is over is in the cache. That
  last part is why the second look at the cache suffices: the caller that leads
  a new round must have seen the result of the last one expire.
* **`OutageIsSeen`, `RecoveryIsSeen`** (`OutageShows`, `RecoveryShows`; clock
  never corrected backwards). `FreshInv` bounds the age of what each place
  holds: an answer of a running check, the product of a round, the cache, a
  value handed to a waiter. Each was true of the dependency at some moment since
  the round began, a round lasts at most `Timeout + Overrun`, and its result is
  served for a TTL.
* **Both bounds under any clock** (`LoadIsBoundedBySkew`,
  `AnswersAreRecentBySkew`). The findings below show that corrections of the clock
  break the three properties as the documents state them; these say by how much at
  most. `MaxSkew` bounds how far the clock is off to either side, so two readings
  differ from the time between them by up to twice that: rounds begin at least
  `TTL - 2 * MaxSkew` apart, and an answer was true within `Timeout + Overrun + TTL +
  2 * MaxSkew`. `LoadInv` and `FreshInv` are stated with the correction that is still
  possible in them (`Gap`, `Reach`), and the theorems above are the cases where
  `ClockSteps` admits none in the harmful direction. TLC finds that the first bound
  is met exactly.
* **`NobodyForgotten`** (`WaitersHold`). A caller waits only while a flight is under
  way, and that flight has one leader, inside its call; so `Land`, which frees the
  leader, is the step that frees all.
* **`DrainIsFinal`** (`DrainHolds`). A caller that arrived after the gate was
  set never gets past its first look, and one that waited looks again.
* **`MetricsAgree`** (`GaugesAgree`). The gauges show the product while it is
  stamped and not yet published, and the cache at any other time.
* **`ClosedAfterDrain`** (`OrderHolds`). `OrderInv` follows the step goroutine:
  the gate is set once it is past the first step, the server refuses requests
  once it is past the second, and none is active and no server can still start
  serving once clients are closed.
* **`CleanExit`** (`ExitHolds`). `ExitInv` ties each label of main to what must
  have happened: the verdict "nil" to closed clients without an error, the end
  of the server without an error to a shutdown in progress.
* **`ForcedByRepeat`** (`RepeatHolds`). Before re-arming no signal can be in the
  second channel; re-arming needs the first to have been delivered, or main to
  be past its selects.
* **`NoLostWakeup`** (`WakeupHolds`). `WaitInv` says of each event that wakes main
  (cancelled context, server's error, verdict, second signal, timer) that it was not
  there when main parked and that the step which brings it unparks main. It also
  ties `out_of_time` to the timer, which `OutcomeOnRecord` needs.
* **`OutcomeOnRecord`** (`RecordHolds`). `RecordInv` follows which records of an
  ending may exist at each label; that no label after one of them leads back to the
  select is why there are never two.
* **`FollowsPhases`** (`PhasesFollowed`). The initial state maps to the initial state
  and every action of `Lifecycle` to one of `Phases` or to none. The mapping reads
  several variables at once, so each case needs them to move together: `AllInv`
  gathers the invariants above, and `PhaseInv` adds what the mapping alone needs:
  that no timer runs before a shutdown, that the steps are over or never began when
  main returns, and that a step goroutine that has ended closed all clients or none.
* **`StartsIffPermitted`** (`ContractHolds`; any set of environments). `Inv`
  says what has been read so far agrees with the environment or its default, and
  that a problem has been recorded for a prefix of the reads and rules exactly
  when one of them fails. The lemma `RowIffPasses` then compares the rules with
  the contract's rows, setting by setting.
* **`ReportIsExact`** (`ReportHolds`). The same invariant, with a second half:
  the settings named so far are those of the failed reads and rules, each of
  which blames the setting the contract blames.
* **`KeepsPromise`** (`PromiseKept`). Every action of `Readiness` is a step of
  `Probe` under the mapping. The strengthening says that a value on its way
  through a flight is the cached result, and that a caller past its first look,
  and not late, may still be answered from the cache.
* **`NeverHalfStarted`, `GuardedWhileWorking`** (`StartHolds`, `GuardHolds`).
  Main's labels determine whether a server and a shutdown exist and which signal
  channels are registered: from the registration to `stop` the first one always
  is.
* **`CountedAsSent`** (`CountHolds`). Until a request is finished its recorder
  and the wire agree once anything was written, and both say 200 before; then
  each step adds one request to one set and one to its counter.
* **`PanicsAreLogged`, `Correlated`** (`PanicsHold`, `CorrelationHolds`). Every
  record carries the id of its request, the id in the context is observe's own,
  and an id not drawn is one that parses.
* **`ClientsOutliveChecks`, `NothingLeftBehind`** (`ClientsHold`, `ExitIsTidy`;
  any number of probes and clients). Each step of `Service` is a step of
  `Lifecycle` or leaves it alone, so `OrderInv` and `ExitInv` carry over. A call
  in progress belongs to a request that is active or an orphan; an orphan began
  after the gate was set and never gets past it; a round has a leader among the
  calls. So when the last connection is gone there is no round, and none can
  begin.
* **The components inside the process** (`ReadinessInside`, `LifecycleInside`). Each
  step of `Service` is a step of `Readiness`, and one of `Lifecycle`, or leaves it
  alone. This is what allows the two to be read on their own: the gate that shutdown
  sets is the gate that readiness loads, and nothing else of the process shows in
  either. From it follow, for the whole process, the refinement of `Phases`
  (`ServiceFollowsPhases`) and the seven safety invariants of `Lifecycle`
  (`ServiceRunsSafely`). tlapm cannot cite a theorem of an instantiated module, so
  the theorems of `Readiness` are not restated of `Service`; they carry over by
  `ReadinessInside`. `ServiceDrainIsFinal` is proved there afresh, because it is
  the one in which both components meet: the property is `Readiness`'s, the gate
  is set by a shutdown step, and `CallInv` of the composition says that a request
  which begins after that step never gets past its first look.
* **`TypeOK`** of `Readiness`, `Lifecycle`, `Config` and `HttpObserve`.

**Only model-checked:** the liveness properties `EveryCallAnswered`, `Terminates` and
`Drains`; temporal reasoning with fairness is outside the prover.

## 6. Findings

Each is a run whose counterexample shows it; `PROJECT.json` quotes the sentence the
code departs from.

1. The shared round inherits its leader's request context (`aggregate.go:103`). A
   client that disconnects fails the round for all, and the failure is cached.
2. `EvaluatedAt` has lost its monotonic reading (`aggregate.go:159`), so a backward
   clock correction prolongs a cached failure without bound.
3. A recovery may take a check timeout plus the TTL to show, where FR-011 says the
   TTL alone.
4. A second signal that is delivered before the second channel is registered
   (`shutdown.go:39`) is swallowed, where FR-023 says it triggers an immediate exit.
5. A `HEALTH_CACHE_TTL` that breaks its range and the cross-field rule is reported
   on two lines, where the data model says one.

## 7. Not modelled

* Masking, sanitizing, JSON rendering, the adapter for go-redis, classification of
  error texts: functions of text without state, well served by unit tests.
* The two histograms of durations, the registry, build information: written and
  never read by the program. The set of method labels is kept constant.
* A client whose construction fails. Its options come from a validated
  configuration, for which the libraries' constructors do not fail.
* Informational statuses and hijacked connections: no handler here uses them.
* More than one request per connection.
* The line `shutdown_timeout` is not required of every shutdown that ran out of time.
  The drain is cut by the same deadline that ends the grace period, so main may find
  the steps' error first and return it without that line. `OutcomeOnRecord` admits
  this ending (the verdict is then "err" and the status 1) and states what the code
  does ensure: no line is false and there are never two.
* net/http, os/signal, singleflight, the client libraries: external, modelled only
  as the code relies on them. The worker's processing and the API's ingestion do
  not exist yet.
* The container runtime, compose files, scripts and CI.

## 8. Running it

    tlc -config ReadinessLoad.cfg MCReadiness.tla
    tlapm ReadinessProofs.tla

and likewise for the other rows of the table. Every run ends within a minute or
two on two workers.
