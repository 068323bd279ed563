----------------------------- MODULE Lifecycle -----------------------------
(***************************************************************************)
(* Startup and shutdown of either PulseFlow binary: run in cmd/api/main.go *)
(* and cmd/worker/main.go (the same sequence), lifecycle.Signals and       *)
(* lifecycle.Shutdown (internal/lifecycle/shutdown.go), and the server     *)
(* they stop (internal/httpserver/server.go).                              *)
(*                                                                         *)
(* Six goroutines meet here: main, the one that cancels the root context   *)
(* on the first signal, the one that re-arms for the second, the server's, *)
(* the one that runs the shutdown steps, and the requests.  os/signal and  *)
(* net/http are external and modelled as run uses them.                    *)
(*                                                                         *)
(* A goroutine that finds several cases of its select ready takes any of   *)
(* them; one that is parked in it is committed to the first to become      *)
(* ready.  So main is first at a select and then, if nothing is ready,     *)
(* parked in it.                                                           *)
(***************************************************************************)
EXTENDS Integers, Sequences

CONSTANTS
    Requests,     \* HTTP requests: readiness probes, scrapes
    Clients,      \* the dependency clients, in the order they are closed
    Fallible,     \* those whose Close may return an error
    NoSignal,     \* an empty signal channel
    MaxSignals    \* bound: termination signals sent to the process

Signals == {"SIGINT", "SIGTERM"}

ASSUME LifecycleAssumption ==
    /\ Clients \in Seq(STRING) /\ Len(Clients) > 0
    /\ MaxSignals \in Nat
    /\ NoSignal \notin Signals

VARIABLES
    pc,         \* main
    status,     \* "running", "exit_0", "exit_1", or "killed" by a signal
    events,     \* lifecycle events logged
    raised,     \* how many signals were sent to the process
    pending,    \* pending[s]: 1 while s was sent and is not yet delivered
    delivered,  \* how many signals were delivered to the handlers
    notifying,  \* the channel of NotifyContext is registered
    notify,     \* its content (capacity 1)
    cancelled,  \* the root context is done
    armed,      \* the channel "repeat": "not_yet", "registered" or "stopped"
    repeat,     \* its content (capacity 1)
    las,        \* the goroutine of ListenAndServe
    errCh,      \* what it returned: "none", "nil" or "err"
    inShutdown, \* http.Server.inShutdown
    reqs,       \* reqs[r], the connection r comes on: "new", "open" (accepted, r
                \*   not yet counted), "active" (r is served), "done", "cut"
                \*   (closed under r), "orphan" (r is served all the same)
    step,       \* the goroutine that runs the shutdown steps
    gate,       \* Aggregator.shuttingDown
    closed,     \* how many clients have been closed
    failed,     \* one of their Close calls returned an error
    done,       \* what the steps returned: "none", "nil" or "err"
    grace       \* the grace period: "unset", "running" or "expired"

main     == <<pc, status, events>>
signals  == <<raised, pending, delivered, notifying, notify, cancelled, armed, repeat>>
server   == <<las, errCh, inShutdown, reqs>>
sequence == <<step, gate, closed, failed, done, grace>>
vars     == <<main, signals, server, sequence>>

Init ==
    /\ pc = "boot" /\ status = "running" /\ events = {}
    /\ raised = 0 /\ pending = [s \in Signals |-> 0] /\ delivered = 0
    /\ notifying = FALSE /\ notify = NoSignal /\ cancelled = FALSE
    /\ armed = "not_yet" /\ repeat = NoSignal
    /\ las = "unborn" /\ errCh = "none" /\ inShutdown = FALSE
    /\ reqs = [r \in Requests |-> "new"]
    /\ step = "unborn" /\ gate = FALSE /\ closed = 0 /\ failed = FALSE
    /\ done = "none" /\ grace = "unset"

Running == status = "running"

Armed == armed = "registered"

Open == {r \in Requests : reqs[r] = "open"}

Active == {r \in Requests : reqs[r] = "active"}

\* Mutant: nothing wakes a select that is parked.
WakeNever(select, next) == UNCHANGED pc

\* Main moves on if it is parked where the event that just happened is awaited.
Wake(select, next) == pc' = IF pc = select THEN next ELSE pc

-----------------------------------------------------------------------------
(* main: run.  "serve" and "await" are its two selects.                    *)

Goto(from, to) ==
    /\ Running /\ pc = from
    /\ pc' = to
    /\ UNCHANGED status

Exit(from, outcome) ==
    /\ Running /\ pc = from
    /\ pc' = "exited"
    /\ status' = outcome

Move(from, to) == Goto(from, to) /\ UNCHANGED <<events, signals, server, sequence>>

Log(from, to, event) ==
    /\ Goto(from, to)
    /\ events' = events \cup {event}
    /\ UNCHANGED <<signals, server, sequence>>

\* Mutant: a configuration that was reported as invalid is used all the same.
ConfigReported == Log("boot", "wired", "config_validation_failed")

\* config.Load failed: run reports why and returns before anything is built.
ConfigFails == Log("boot", "failed", "config_validation_failed")

\* -healthcheck: this process only asks the one that serves, and exits with the answer.
SelfCheck == Move("boot", "succeeded") \/ Move("boot", "failed")

\* The configuration is valid: logger, registry, server, checkers, aggregator.
Wire == Move("boot", "wired")

\* lifecycle.Signals: from here on a signal no longer kills the process.
RegisterSignals ==
    /\ Goto("wired", "registered")
    /\ notifying' = TRUE
    /\ UNCHANGED <<events, raised, pending, delivered, notify, cancelled, armed, repeat>>
    /\ UNCHANGED <<server, sequence>>

\* Aborted: a signal came while the process was being wired up.
Abort == cancelled /\ Log("registered", "succeeding", "startup_aborted")

Launch ==
    /\ ~cancelled
    /\ Goto("registered", "serve")
    /\ las' = "born"
    /\ events' = events \cup {"service_started"}
    /\ UNCHANGED <<signals, errCh, inShutdown, reqs, sequence>>

\* Mutant: a server that stopped by itself is shut down like any other.
ServerFailedAsStop == errCh # "none" /\ Move("serve", "shutdown")

\* The first select: the server stopped by itself, or the root context is done.
ServerFailed == errCh # "none" /\ Move("serve", "server_stopped")

RootDone == cancelled /\ Move("serve", "shutdown")

ParkServe == errCh = "none" /\ ~cancelled /\ Move("serve", "parked_in_serve")

ReturnServerError ==
    Move("server_stopped", IF errCh = "nil" THEN "succeeding" ELSE "failing")

\* Shutdown: the timer starts and the steps run on a goroutine of their own.
StartShutdown ==
    /\ Goto("shutdown", "await")
    /\ events' = events \cup {"shutdown_started"}
    /\ grace' = "running"
    /\ step' = "readiness_gate"
    /\ UNCHANGED <<signals, server, gate, closed, failed, done>>

\* The second select: the steps are done, a repeated signal, the grace period.
StepsReturned == done # "none" /\ Move("await", "steps_returned")

TakeRepeat ==
    /\ repeat # NoSignal
    /\ Goto("await", "repeated")
    /\ repeat' = NoSignal
    /\ UNCHANGED <<events, raised, pending, delivered, notifying, notify, cancelled, armed>>
    /\ UNCHANGED <<server, sequence>>

GraceOver == grace = "expired" /\ Move("await", "out_of_time")

\* Mutant: what is already there is not looked at before going to sleep.
ParkAwaitBlindly == Move("await", "parked_in_await")

ParkAwait ==
    /\ done = "none" /\ repeat = NoSignal /\ grace # "expired"
    /\ Move("await", "parked_in_await")

ReturnCompleted == done = "nil" /\ Log("steps_returned", "succeeding", "shutdown_complete")

\* Mutant: the error of a step is not returned.
ReturnStepErrorAsSuccess == done = "err" /\ Move("steps_returned", "succeeding")

ReturnStepError == done = "err" /\ Move("steps_returned", "failing")

\* The two forced exits call os.Exit: nothing is returned, nothing deferred runs.
ForceExit ==
    /\ Exit("repeated", "exit_1")
    /\ events' = events \cup {"shutdown_forced"}
    /\ UNCHANGED <<signals, server, sequence>>

\* Mutant: the timeout is logged but the process goes on waiting.
TimeOutWaits == Log("out_of_time", "await", "shutdown_timeout")

TimeOut ==
    /\ Exit("out_of_time", "exit_1")
    /\ events' = events \cup {"shutdown_timeout"}
    /\ UNCHANGED <<signals, server, sequence>>

\* The deferred stop: the channels registered so far no longer are, the context is
\* cancelled (and a goroutine that has yet to re-arm will).
Stop(from, to) ==
    /\ Goto(from, to)
    /\ notifying' = FALSE /\ cancelled' = TRUE
    /\ armed' = IF Armed THEN "stopped" ELSE armed
    /\ UNCHANGED <<events, raised, pending, delivered, notify, repeat, server, sequence>>

Finish(from, outcome) ==
    /\ Exit(from, outcome)
    /\ UNCHANGED <<events, signals, server, sequence>>

Return ==
    \/ Stop("succeeding", "succeeded") \/ Finish("succeeded", "exit_0")
    \/ Stop("failing", "failed") \/ Finish("failed", "exit_1")

MainStep ==
    \/ ConfigFails \/ SelfCheck \/ Wire
    \/ RegisterSignals \/ Abort \/ Launch
    \/ ServerFailed \/ RootDone \/ ParkServe \/ ReturnServerError
    \/ StartShutdown \/ StepsReturned \/ TakeRepeat \/ GraceOver \/ ParkAwait
    \/ ReturnCompleted \/ ReturnStepError \/ ForceExit \/ TimeOut
    \/ Return

-----------------------------------------------------------------------------
(* Signals.  Of one kind, those sent before delivery count as one.         *)

\* Mutant: the first signal gives up its channel, as many programs do.
HandledOnce == (notifying /\ ~cancelled) \/ Armed

Handled == notifying \/ Armed

\* Without a handler the process is killed; with one the signal is queued.
Raise(s) ==
    /\ Running /\ raised < MaxSignals
    /\ raised' = raised + 1
    /\ pending' = IF Handled THEN [pending EXCEPT ![s] = 1] ELSE pending
    /\ status' = IF Handled THEN status ELSE "killed"
    /\ UNCHANGED <<pc, events, delivered, notifying, notify, cancelled, armed, repeat>>
    /\ UNCHANGED <<server, sequence>>

Offer(s, content) == IF content = NoSignal THEN s ELSE content

\* The runtime sends the signal on every registered channel that has room, or to
\* the goroutine parked on it.
Deliver(s) ==
    /\ Running /\ pending[s] = 1
    /\ pending' = [pending EXCEPT ![s] = 0]
    /\ delivered' = delivered + 1
    /\ notify' = IF notifying THEN Offer(s, notify) ELSE notify
    /\ IF Armed /\ pc = "parked_in_await"
          THEN pc' = "repeated" /\ UNCHANGED repeat
          ELSE /\ repeat' = IF Armed THEN Offer(s, repeat) ELSE repeat
               /\ UNCHANGED pc
    /\ UNCHANGED <<status, events, raised, notifying, cancelled, armed, server, sequence>>

\* NotifyContext's goroutine: the first signal cancels the root context.  The
\* channel stays registered and nobody reads it again.
CancelRoot ==
    /\ Running /\ ~cancelled /\ notify # NoSignal
    /\ notify' = NoSignal
    /\ cancelled' = TRUE
    /\ Wake("parked_in_serve", "shutdown")
    /\ UNCHANGED <<status, events, raised, pending, delivered, notifying, armed, repeat>>
    /\ UNCHANGED <<server, sequence>>

\* Mutant: the second channel is registered from the start.
ListensFromStart == notifying

\* When the goroutine of Signals goes on to listen for the second signal.
FirstSignalled == cancelled

Rearm ==
    /\ Running /\ FirstSignalled /\ armed = "not_yet"
    /\ armed' = "registered"
    /\ UNCHANGED <<main, raised, pending, delivered, notifying, notify, cancelled, repeat>>
    /\ UNCHANGED <<server, sequence>>

-----------------------------------------------------------------------------
(* The server: net/http's ListenAndServe and Shutdown.                     *)

ServerStep(from, to) ==
    /\ Running /\ las = from /\ las' = to
    /\ UNCHANGED <<main, signals, errCh, inShutdown, reqs, sequence>>

\* ListenAndServe returns: ErrServerClosed becomes nil.
ServerReturns(from, err) ==
    /\ Running /\ las = from /\ las' = "returned"
    /\ errCh' = err
    /\ Wake("parked_in_serve", "server_stopped")
    /\ UNCHANGED <<status, events, signals, inShutdown, reqs, sequence>>

\* Mutant: ErrServerClosed is handed on as it is.
ClosedAsItIs == "ErrServerClosed"

Closed == "nil"

\* It refuses to start once shutdown began, and looks again when it has its port.
Serve ==
    \/ ~inShutdown /\ ServerStep("born", "listening")
    \/ ServerStep("listening", "bound")
    \/ ~inShutdown /\ ServerStep("bound", "serving")
    \/ ServerReturns("listening", "err")
    \/ inShutdown /\ \E from \in {"born", "bound", "serving"} : ServerReturns(from, Closed)

\* A connection, and on it the request, in the eyes of net/http.  Bound: one request
\* per connection.
Becomes(r, from, to) ==
    /\ Running /\ reqs[r] = from
    /\ reqs' = [reqs EXCEPT ![r] = to]
    /\ UNCHANGED <<main, signals, las, errCh, inShutdown, sequence>>

Connects(r) == las = "serving" /\ Becomes(r, "new", "open")

\* Once its bytes are read a request is served, also on a connection that Shutdown
\* has closed as idle in the meantime: nobody waits for that one.
RequestBegins(r) == Becomes(r, "open", "active") \/ Becomes(r, "cut", "orphan")

RequestEnds(r) == Becomes(r, "active", "done") \/ Becomes(r, "orphan", "done")

RequestStep(r) == Connects(r) \/ RequestBegins(r) \/ RequestEnds(r)

-----------------------------------------------------------------------------
(* The shutdown steps.                                                     *)

\* The goroutine hands over its verdict and ends.
Report(verdict) ==
    /\ done' = verdict
    /\ step' = "ended"
    /\ Wake("parked_in_await", "steps_returned")
    /\ UNCHANGED <<status, events, signals, server, gate, closed, failed, grace>>

\* Mutant: the clients are closed before the server drains.
ClientsAfterGate == "dependency_clients"

AfterGate == "http_server"

CloseGate ==
    /\ Running /\ step = "readiness_gate"
    /\ gate' = TRUE
    /\ step' = AfterGate
    /\ UNCHANGED <<main, signals, server, closed, failed, done, grace>>

\* srv.Shutdown closes the listeners,
BeginDrain ==
    /\ Running /\ step = "http_server"
    /\ inShutdown' = TRUE
    /\ step' = "draining"
    /\ UNCHANGED <<main, signals, las, errCh, reqs, gate, closed, failed, done, grace>>

\* waits for the accept loop to end, then polls until no connection is left: an
\* idle one it closes, one on which nothing was read yet it spares while it is young,
Poll ==
    /\ Running /\ step = "draining" /\ las # "serving"
    /\ \E young \in SUBSET Open :
          /\ reqs' = [r \in Requests |-> IF r \in Open \ young THEN "cut" ELSE reqs[r]]
          /\ step' = IF Active \cup young = {} THEN "dependency_clients" ELSE "between_polls"
    /\ UNCHANGED <<main, signals, las, errCh, inShutdown, gate, closed, failed, done, grace>>

PollAgain ==
    /\ Running /\ step = "between_polls"
    /\ step' = "draining"
    /\ UNCHANGED <<main, signals, server, gate, closed, failed, done, grace>>

\* or its context is done, an error that ends the sequence.
DrainCut ==
    /\ Running /\ step = "between_polls" /\ grace = "expired"
    /\ Report("err")

\* errors.Join: every client is closed, whatever the others returned.
CloseClient ==
    /\ Running /\ step = "dependency_clients" /\ closed < Len(Clients)
    /\ closed' = closed + 1
    /\ \/ UNCHANGED failed
       \/ Clients[closed + 1] \in Fallible /\ failed' = TRUE
    /\ UNCHANGED <<main, signals, server, step, gate, done, grace>>

ClientsClosed ==
    /\ Running /\ step = "dependency_clients" /\ closed = Len(Clients)
    /\ Report(IF failed THEN "err" ELSE "nil")

\* The grace period of Shutdown's context is over.
Expire ==
    /\ Running /\ grace = "running"
    /\ grace' = "expired"
    /\ Wake("parked_in_await", "out_of_time")
    /\ UNCHANGED <<status, events, signals, server, step, gate, closed, failed, done>>

-----------------------------------------------------------------------------
SequenceStep == CloseGate \/ BeginDrain \/ Poll \/ PollAgain \/ DrainCut \/ ClientsClosed

Ended == ~Running /\ UNCHANGED vars

Next ==
    \/ MainStep
    \/ \E s \in Signals : Raise(s) \/ Deliver(s)
    \/ CancelRoot \/ Rearm
    \/ Serve
    \/ \E r \in Requests : RequestStep(r)
    \/ SequenceStep \/ CloseClient \/ Expire
    \/ Ended

\* Goroutines that can run do, a timer fires and a queued signal is delivered;
\* a request or a client's Close may hang for ever.
Fairness ==
    /\ WF_vars(MainStep)
    /\ WF_vars(CancelRoot)
    /\ WF_vars(Rearm)
    /\ WF_vars(Serve)
    /\ WF_vars(SequenceStep)
    /\ WF_vars(Expire)
    /\ \A s \in Signals : WF_vars(Deliver(s))

Spec == Init /\ [][Next]_vars /\ Fairness

-----------------------------------------------------------------------------
(* Properties.                                                             *)

Labels == {"boot", "wired", "registered", "serve", "parked_in_serve", "server_stopped",
           "shutdown", "await", "parked_in_await", "steps_returned", "repeated",
           "out_of_time", "succeeding", "succeeded", "failing", "failed", "exited"}

Events == {"config_validation_failed", "startup_aborted", "service_started", "shutdown_started",
           "shutdown_complete", "shutdown_forced", "shutdown_timeout"}

TypeOK ==
    /\ pc \in Labels
    /\ status \in {"running", "exit_0", "exit_1", "killed"}
    /\ events \subseteq Events
    /\ raised \in Nat /\ delivered \in Nat
    /\ pending \in [Signals -> {0, 1}]
    /\ notifying \in BOOLEAN /\ cancelled \in BOOLEAN
    /\ armed \in {"not_yet", "registered", "stopped"}
    /\ notify \in Signals \cup {NoSignal} /\ repeat \in Signals \cup {NoSignal}
    /\ las \in {"unborn", "born", "listening", "bound", "serving", "returned"}
    /\ errCh \in {"none", "nil", "err"} /\ done \in {"none", "nil", "err"}
    /\ inShutdown \in BOOLEAN
    /\ reqs \in [Requests -> {"new", "open", "active", "done", "cut", "orphan"}]
    /\ step \in {"unborn", "readiness_gate", "http_server", "draining",
                 "between_polls", "dependency_clients", "ended"}
    /\ gate \in BOOLEAN /\ failed \in BOOLEAN
    /\ closed \in 0 .. Len(Clients)
    /\ grace \in {"unset", "running", "expired"}

\* "The order is the contract": no client is closed unless readiness reports
\* not-ready, the server accepts nothing and no connection is left on which a request
\* is served or could be, however late the server's goroutine starts.  What net/http
\* lost sight of is served only on connections cut after the gate was set.
ClosedAfterDrain ==
    /\ step = "dependency_clients" \/ closed > 0 =>
          gate /\ inShutdown /\ las # "serving" /\ Open \cup Active = {}
    /\ \A r \in Requests : reqs[r] \in {"cut", "orphan"} => gate

\* Status 0 is said only of a process that did its work: it never listened (a self
\* check, a signal during startup), or it drained and closed every client without an
\* error.
CleanExit ==
    status = "exit_0" =>
       \/ events \subseteq {"startup_aborted"} /\ las = "unborn"
       \/ /\ "shutdown_complete" \in events
          /\ Active = {} /\ closed = Len(Clients) /\ ~failed

\* A process whose configuration is invalid (FR-017), or that was told to stop while
\* it was starting (FR-022), has no server and nothing to shut down, and never will.
NeverHalfStarted ==
    events \cap {"config_validation_failed", "startup_aborted"} # {} =>
       las = "unborn" /\ step = "unborn" /\ events \cap {"service_started"} = {}

\* A shutdown is cut short as "repeated" only by a second signal, never by a late
\* delivery of the first (the re-arming in Signals).
ForcedByRepeat == "shutdown_forced" \in events => delivered >= 2

\* No signal kills a process that serves or shuts down, however many come and
\* however close together: only one that has not registered its handler yet, or
\* whose run is about to return.
GuardedWhileWorking ==
    status = "killed" => pc \in {"boot", "wired", "succeeded", "failed"}

\* Main never sleeps through what it waits for, in whichever order the signal, the
\* server, the steps and the timer come: while it is parked in a select nothing is
\* there to be taken, and someone is left to wake it.
NoLostWakeup ==
    /\ pc = "parked_in_serve" =>
          ~cancelled /\ errCh = "none" /\ notifying /\ las \notin {"unborn", "returned"}
    /\ pc = "parked_in_await" =>
          done = "none" /\ repeat = NoSignal /\ grace = "running"

\* How a shutdown ends is on record once and truly: complete if every step succeeded,
\* timed out only if the grace period is over, and no record only if a step's error
\* was returned instead (FR-021, FR-023).  Steps and timer may be ready together and
\* main takes either; it never tells of both.
Endings == {"shutdown_complete", "shutdown_forced", "shutdown_timeout"}

OutcomeOnRecord ==
    /\ \A e, f \in Endings \cap events : e = f
    /\ "shutdown_complete" \in events => done = "nil" /\ status # "exit_1"
    /\ "shutdown_timeout" \in events => grace = "expired"
    /\ "shutdown_started" \in events /\ status \in {"exit_0", "exit_1"} =>
          Endings \cap events # {} \/ done = "err"

\* Where main stands, to one who supervises the process.
Starting  == {"boot", "wired", "registered"}
Serving   == {"serve", "parked_in_serve", "server_stopped", "shutdown"}
Returning == {"succeeding", "succeeded", "failing", "failed"}

ProcessPhase ==
    IF ~Running THEN "ended"
    ELSE IF pc \in Starting THEN "starting"
    ELSE IF pc \in Serving THEN "serving"
    ELSE IF pc \in Returning THEN "returning"
    ELSE "stopping"

\* The steps that are done.  A drain that was cut leaves the clients open.
StepsTaken ==
    IF step \in {"unborn", "readiness_gate"} THEN 0
    ELSE IF step = "dependency_clients" THEN 2
    ELSE IF step = "ended" /\ closed = Len(Clients) THEN 3
    ELSE 1

Result ==
    IF ~Running THEN status
    ELSE IF pc \in {"succeeding", "succeeded"} THEN "exit_0"
    ELSE IF pc \in {"failing", "failed"} THEN "exit_1"
    ELSE "none"

\* Lifecycle implements Phases: however signals, selects, steps and timer interleave,
\* a process goes through its phases once and leaves each only for its reasons.  It
\* stops only when told to, takes no step twice or out of order (FR-023) or after its
\* end, and its status says how the steps went.
Ph == INSTANCE Phases WITH
         phase   <- ProcessPhase,
         told    <- delivered,
         steps   <- StepsTaken,
         verdict <- done,
         time    <- grace,
         result  <- Result

FollowsPhases == Ph!Spec

\* Once stopped, or unable to listen, the process ends: neither a request nor a
\* client that hangs outlasts the grace period (FR-021, SC-006).
Terminates == cancelled \/ errCh = "err" ~> status # "running"

-----------------------------------------------------------------------------
(* What the documents say of the program and the code does not do.         *)

\* FR-023: a repeated signal triggers an immediate exit.  So main does not sit
\* waiting for the steps once two signals have been delivered.
RepeatIsHeard == delivered >= 2 => pc # "parked_in_await"
=============================================================================
