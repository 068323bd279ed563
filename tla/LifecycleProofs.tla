-------------------------- MODULE LifecycleProofs --------------------------
(* Proofs about Lifecycle, for any requests, any clients of which any may   *)
(* fail to close, and any number of signals.                                *)
EXTENDS Lifecycle, TLAPS

USE DEF main, Move, Log, AfterGate, FirstSignalled, Closed

-----------------------------------------------------------------------------
(* Type correctness.                                                        *)

LEMMA TypeInit == Init => TypeOK
<1> SUFFICES ASSUME Init PROVE TypeOK
  OBVIOUS
<1>1. pc \in Labels /\ closed \in 0 .. Len(Clients)
  BY LifecycleAssumption DEF Init, Labels
<1>2. events \subseteq Events
  BY DEF Init
<1>. QED
  BY <1>1, <1>2 DEF Init, TypeOK

\* The steps of main.
LEMMA TypeMain == TypeOK /\ MainStep => TypeOK'
<1> SUFFICES ASSUME TypeOK, MainStep
             PROVE  TypeOK'
  OBVIOUS
<1> USE DEF TypeOK, Labels, Goto, Exit, signals, server, sequence
<1>. {"config_validation_failed", "startup_aborted", "service_started",
      "shutdown_started", "shutdown_complete", "shutdown_forced", "shutdown_timeout"}
        \subseteq Events
  BY DEF Events
<1>1. CASE RegisterSignals
  BY <1>1 DEF RegisterSignals
<1>18. CASE ConfigFails \/ SelfCheck \/ Wire
  BY <1>18 DEF ConfigFails, SelfCheck, Wire
<1>2. CASE Abort
  BY <1>2 DEF Abort
<1>3. CASE Launch
  BY <1>3 DEF Launch
<1>4. CASE ServerFailed
  BY <1>4 DEF ServerFailed
<1>5. CASE RootDone
  BY <1>5 DEF RootDone
<1>6. CASE ParkServe
  BY <1>6 DEF ParkServe
<1>7. CASE ReturnServerError
  BY <1>7 DEF ReturnServerError
<1>8. CASE StartShutdown
  BY <1>8 DEF StartShutdown
<1>9. CASE StepsReturned
  BY <1>9 DEF StepsReturned
<1>10. CASE TakeRepeat
  BY <1>10 DEF TakeRepeat
<1>11. CASE GraceOver
  BY <1>11 DEF GraceOver
<1>12. CASE ParkAwait
  BY <1>12 DEF ParkAwait
<1>13. CASE ReturnCompleted
  BY <1>13 DEF ReturnCompleted
<1>14. CASE ReturnStepError
  BY <1>14 DEF ReturnStepError
<1>15. CASE ForceExit
  BY <1>15 DEF ForceExit
<1>16. CASE TimeOut
  BY <1>16 DEF TimeOut
<1>17. CASE Return
  BY <1>17 DEF Return, Stop, Finish
<1>. QED
  BY <1>1, <1>2, <1>3, <1>4, <1>5, <1>6, <1>7, <1>8, <1>9, <1>10, <1>11, <1>12,
     <1>13, <1>14, <1>15, <1>16, <1>17, <1>18 DEF MainStep

\* The steps of everyone else.
LEMMA TypeNext == TypeOK /\ [Next]_vars => TypeOK'
<1> SUFFICES ASSUME TypeOK, [Next]_vars
             PROVE  TypeOK'
  OBVIOUS
<1> USE DEF TypeOK, signals, server, sequence, Wake
<1>1. CASE MainStep
  BY <1>1, TypeMain
<1>2. ASSUME NEW s \in Signals, Raise(s)
      PROVE  TypeOK'
  BY <1>2 DEF Raise
<1>3. ASSUME NEW s \in Signals, Deliver(s)
      PROVE  TypeOK'
  BY <1>3 DEF Deliver, Offer, Labels
<1>4. CASE CancelRoot
  BY <1>4 DEF CancelRoot, Labels
<1>5. CASE Serve
  BY <1>5 DEF Serve, ServerStep, ServerReturns, Labels
<1>6. ASSUME NEW r \in Requests, RequestStep(r)
      PROVE  TypeOK'
  BY <1>6 DEF RequestStep, Connects, RequestBegins, RequestEnds, Becomes
<1>7. CASE CloseGate \/ BeginDrain
  BY <1>7 DEF CloseGate, BeginDrain
<1>12. CASE Rearm
  BY <1>12 DEF Rearm
<1>13. CASE Poll \/ PollAgain
  BY <1>13 DEF Poll, PollAgain
<1>8. CASE CloseClient
  <2>1. Len(Clients) \in Nat
    BY LifecycleAssumption
  <2>2. closed' \in 0 .. Len(Clients)
    BY <1>8, <2>1 DEF CloseClient
  <2>3. failed' \in BOOLEAN
    BY <1>8 DEF CloseClient
  <2>. QED
    BY <1>8, <2>2, <2>3 DEF CloseClient
<1>9. CASE DrainCut \/ ClientsClosed
  BY <1>9 DEF DrainCut, ClientsClosed, Report, Labels
<1>10. CASE Expire
  <2>1. pc' \in Labels
    BY <1>10 DEF Expire, Labels
  <2>2. grace' = "expired"
    BY <1>10 DEF Expire
  <2>. QED
    BY <1>10, <2>1, <2>2 DEF Expire
<1>11. CASE Ended \/ UNCHANGED vars
  BY <1>11 DEF Ended, vars
<1>. QED
  BY <1>1, <1>2, <1>3, <1>4, <1>5, <1>6, <1>7, <1>8, <1>9, <1>10,
     <1>11, <1>12, <1>13 DEF Next, SequenceStep

\* Every variable keeps its type.
THEOREM TypeCorrect == Spec => []TypeOK
  BY TypeInit, TypeNext, PTL DEF Spec

-----------------------------------------------------------------------------
(* Order of shutdown.  The steps run once, in order; a server that had not  *)
(* begun to serve when shutdown began never will.                           *)

\* Main before it starts the shutdown.
Before == {"boot", "wired", "registered", "serve", "parked_in_serve", "server_stopped", "shutdown"}

OrderInv ==
    /\ pc \in Before => step = "unborn"
    /\ step \in {"unborn", "readiness_gate", "http_server"} => ~inShutdown
    /\ step \notin {"unborn", "readiness_gate", "http_server"} => inShutdown
    /\ step \notin {"unborn", "readiness_gate"} => gate
    /\ closed > 0 => step \in {"dependency_clients", "ended"}
    /\ step = "dependency_clients" \/ closed > 0 =>
          Open \cup Active = {} /\ las # "serving"
    /\ \A r \in Requests : reqs[r] \in {"cut", "orphan"} => gate

LEMMA OrderInit == Init => OrderInv
BY DEF Init, OrderInv, Open, Active

\* A step of main that neither starts the shutdown nor returns to before it.
LEMMA OrderMain ==
    ASSUME OrderInv, UNCHANGED <<server, sequence>>, pc' \in Before => pc \in Before
    PROVE  OrderInv'
BY DEF OrderInv, Open, Active, server, sequence

LEMMA OrderNext == TypeOK /\ OrderInv /\ [Next]_vars => OrderInv'
<1> SUFFICES ASSUME TypeOK, OrderInv, [Next]_vars
             PROVE  OrderInv'
  OBVIOUS
<1> USE DEF Goto, Exit, Wake
<1>1. CASE ConfigFails \/ SelfCheck \/ Wire \/ RegisterSignals \/ Abort
  BY <1>1, OrderMain DEF ConfigFails, SelfCheck, Wire, RegisterSignals, Abort, Before
<1>2. CASE Launch
  BY <1>2 DEF Launch, OrderInv, Before, Open, Active, sequence
<1>3. CASE ServerFailed \/ RootDone \/ ParkServe \/ ReturnServerError
  BY <1>3, OrderMain DEF ServerFailed, RootDone, ParkServe, ReturnServerError, Before
<1>4. CASE StartShutdown
  BY <1>4 DEF StartShutdown, OrderInv, Before, Open, Active, server
<1>5. CASE StepsReturned \/ TakeRepeat \/ GraceOver \/ ParkAwait
  BY <1>5, OrderMain DEF StepsReturned, TakeRepeat, GraceOver, ParkAwait, Before
<1>6. CASE ReturnCompleted \/ ReturnStepError \/ ForceExit \/ TimeOut \/ Return
  BY <1>6, OrderMain
     DEF ReturnCompleted, ReturnStepError, ForceExit, TimeOut, Return, Stop, Finish, Before
<1>7. ASSUME NEW s \in Signals, Raise(s) \/ Deliver(s)
      PROVE  OrderInv'
  BY <1>7, OrderMain DEF Raise, Deliver, Before
<1>8. CASE CancelRoot \/ Rearm
  BY <1>8, OrderMain DEF CancelRoot, Rearm, Before
<1>9. CASE Serve
  BY <1>9 DEF Serve, ServerStep, ServerReturns, OrderInv, Before, Open, Active, sequence
<1>10. ASSUME NEW r \in Requests, RequestStep(r)
       PROVE  OrderInv'
  <2>1. CASE Connects(r)
    BY <2>1 DEF Connects, Becomes, OrderInv, TypeOK, sequence
  <2>2. CASE RequestBegins(r) \/ RequestEnds(r)
    <3>1. (Open \cup Active)' \subseteq Open \cup Active
      BY <2>2 DEF RequestBegins, RequestEnds, Becomes, Open, Active, TypeOK
    <3>2. \A q \in Requests : reqs'[q] \in {"cut", "orphan"} => reqs[q] \in {"cut", "orphan"}
      BY <2>2 DEF RequestBegins, RequestEnds, Becomes, TypeOK
    <3>. QED
      BY <2>2, <3>1, <3>2 DEF RequestBegins, RequestEnds, Becomes, OrderInv, sequence
  <2>. QED
    BY <1>10, <2>1, <2>2 DEF RequestStep
<1>11. CASE CloseGate \/ BeginDrain
  BY <1>11 DEF CloseGate, BeginDrain, OrderInv, Before, Open, Active, server
<1>12. CASE PollAgain
  BY <1>12 DEF PollAgain, OrderInv, Before, Open, Active, server
<1>17. CASE Poll
  <2>1. PICK young \in SUBSET Open :
           /\ reqs' = [r \in Requests |-> IF r \in Open \ young THEN "cut" ELSE reqs[r]]
           /\ step' = IF Active \cup young = {} THEN "dependency_clients" ELSE "between_polls"
    BY <1>17 DEF Poll
  <2>2. Active \cup young = {} => (Open \cup Active)' = {}
    BY <2>1 DEF Open, Active
  <2>3. gate /\ closed = 0 /\ inShutdown
    BY <1>17 DEF Poll, OrderInv, TypeOK
  <2>. QED
    BY <1>17, <2>1, <2>2, <2>3 DEF Poll, OrderInv, Before
<1>13. CASE DrainCut \/ ClientsClosed
  BY <1>13 DEF DrainCut, ClientsClosed, Report, OrderInv, Before, Open, Active, server
<1>14. CASE CloseClient
  BY <1>14 DEF CloseClient, OrderInv, Open, Active, server
<1>15. CASE Expire
  BY <1>15 DEF Expire, OrderInv, Before, Open, Active, server
<1>16. CASE Ended \/ UNCHANGED vars
  BY <1>16, OrderMain DEF Ended, vars
<1>. QED
  BY <1>1, <1>2, <1>3, <1>4, <1>5, <1>6, <1>7, <1>8, <1>9, <1>10, <1>11, <1>12,
     <1>13, <1>14, <1>15, <1>16, <1>17 DEF Next, MainStep, SequenceStep, RequestStep

\* FR-019: clients close only behind the gate, after the drain.
THEOREM OrderHolds == Spec => []ClosedAfterDrain
<1>1. OrderInv => ClosedAfterDrain
  BY DEF OrderInv, ClosedAfterDrain
<1>. QED
  BY TypeInit, TypeNext, OrderInit, OrderNext, <1>1, PTL DEF Spec

-----------------------------------------------------------------------------
(* Exit status.  Main heads for status 0 from three places only: a self     *)
(* check, the aborted startup and the completed shutdown; a server that     *)
(* returns without an error before any shutdown would be a fourth, and does *)
(* not happen.                                                              *)

Early == {"boot", "wired", "registered"}

Refusals == {"config_validation_failed", "startup_aborted"}

ExitInv ==
    /\ pc \in Early => las = "unborn" /\ step = "unborn" /\ events = {}
    /\ events \cap Refusals # {} =>
          /\ pc \in {"succeeding", "succeeded", "failed", "exited"}
          /\ las = "unborn" /\ step = "unborn" /\ "service_started" \notin events
    /\ errCh # "none" => las = "returned"
    /\ errCh = "nil" => inShutdown
    /\ pc = "server_stopped" => errCh # "none"
    /\ done = "nil" => step = "ended" /\ closed = Len(Clients) /\ ~failed
    /\ step # "ended" => done = "none"
    /\ "shutdown_complete" \in events => done = "nil"
    /\ pc \in {"succeeding", "succeeded"} \/ status = "exit_0" =>
          \/ events \subseteq {"startup_aborted"} /\ las = "unborn"
          \/ "shutdown_complete" \in events

LEMMA ExitInit == Init => ExitInv
BY DEF Init, ExitInv, Early, Refusals

LEMMA ExitMain == TypeOK /\ OrderInv /\ ExitInv /\ MainStep => ExitInv'
<1> SUFFICES ASSUME TypeOK, OrderInv, ExitInv, MainStep
             PROVE  ExitInv'
  OBVIOUS
<1> USE DEF Goto, Exit, ExitInv, Early, Refusals, Running, signals, server, sequence
<1>1. CASE ConfigFails \/ SelfCheck \/ Wire \/ RegisterSignals \/ Abort
  BY <1>1 DEF ConfigFails, SelfCheck, Wire, RegisterSignals, Abort
<1>2. CASE Launch
  BY <1>2 DEF Launch
<1>3. CASE ServerFailed \/ RootDone \/ ParkServe
  BY <1>3 DEF ServerFailed, RootDone, ParkServe
<1>4. CASE ReturnServerError
  <2>1. errCh = "err"
    BY <1>4 DEF ReturnServerError, OrderInv, Before, TypeOK
  <2>. QED
    BY <1>4, <2>1 DEF ReturnServerError
<1>5. CASE StartShutdown
  BY <1>5 DEF StartShutdown, OrderInv, Before
<1>6. CASE StepsReturned \/ TakeRepeat \/ GraceOver \/ ParkAwait
  BY <1>6 DEF StepsReturned, TakeRepeat, GraceOver, ParkAwait
<1>7. CASE ReturnCompleted \/ ReturnStepError
  BY <1>7 DEF ReturnCompleted, ReturnStepError
<1>8. CASE ForceExit \/ TimeOut
  BY <1>8 DEF ForceExit, TimeOut
<1>9. CASE Return
  BY <1>9 DEF Return, Stop, Finish
<1>. QED
  BY <1>1, <1>2, <1>3, <1>4, <1>5, <1>6, <1>7, <1>8, <1>9 DEF MainStep

LEMMA ExitNext == TypeOK /\ OrderInv /\ ExitInv /\ [Next]_vars => ExitInv'
<1> SUFFICES ASSUME TypeOK, OrderInv, ExitInv, [Next]_vars
             PROVE  ExitInv'
  OBVIOUS
<1> USE DEF Wake, ExitInv, Early, Refusals, Running, signals, server, sequence
<1>1. CASE MainStep
  BY <1>1, ExitMain
<1>2. ASSUME NEW s \in Signals, Raise(s) \/ Deliver(s)
      PROVE  ExitInv'
  BY <1>2 DEF Raise, Deliver
<1>3. CASE CancelRoot \/ Rearm
  BY <1>3 DEF CancelRoot, Rearm
<1>4. CASE Serve
  BY <1>4 DEF Serve, ServerStep, ServerReturns
<1>5. ASSUME NEW r \in Requests, RequestStep(r)
      PROVE  ExitInv'
  BY <1>5 DEF RequestStep, Connects, RequestBegins, RequestEnds, Becomes
<1>6. CASE CloseGate \/ BeginDrain \/ Poll \/ PollAgain
  BY <1>6 DEF CloseGate, BeginDrain, Poll, PollAgain
<1>7. CASE DrainCut \/ ClientsClosed
  BY <1>7 DEF DrainCut, ClientsClosed, Report
<1>8. CASE CloseClient
  BY <1>8 DEF CloseClient
<1>9. CASE Expire
  BY <1>9 DEF Expire
<1>10. CASE Ended \/ UNCHANGED vars
  BY <1>10 DEF Ended, vars
<1>. QED
  BY <1>1, <1>2, <1>3, <1>4, <1>5, <1>6, <1>7, <1>8, <1>9, <1>10 DEF Next, SequenceStep

\* Status 0 means an aborted startup or a complete, error-free shutdown.
THEOREM ExitHolds == Spec => []CleanExit
<1>1. OrderInv /\ ExitInv => CleanExit
  BY LifecycleAssumption DEF OrderInv, ExitInv, CleanExit
<1>. QED
  BY TypeInit, TypeNext, OrderInit, OrderNext, ExitInit, ExitNext, <1>1, PTL DEF Spec

\* FR-017, FR-022: an invalid configuration, or a signal during startup, leaves
\* nothing half started behind.
THEOREM StartHolds == Spec => []NeverHalfStarted
<1>1. ExitInv => NeverHalfStarted
  BY DEF ExitInv, NeverHalfStarted, Refusals
<1>. QED
  BY TypeInit, TypeNext, OrderInit, OrderNext, ExitInit, ExitNext, <1>1, PTL DEF Spec

-----------------------------------------------------------------------------
(* Forced exits.  The second channel is registered only once the context is *)
(* cancelled, which takes a delivered signal or the end of run.             *)

\* Main after the deferred stop: it looks at no channel again.
After == {"succeeded", "failed", "exited"}

RepeatInv ==
    /\ notify # NoSignal => delivered >= 1
    /\ cancelled => delivered >= 1 \/ pc \in After
    /\ armed = "registered" => cancelled
    /\ repeat # NoSignal => delivered >= 2 \/ pc \in After
    /\ pc = "repeated" => delivered >= 2
    /\ "shutdown_forced" \in events => delivered >= 2

LEMMA RepeatInit == Init => RepeatInv
BY DEF Init, RepeatInv

LEMMA RepeatMain == TypeOK /\ RepeatInv /\ MainStep => RepeatInv'
<1> SUFFICES ASSUME TypeOK, RepeatInv, MainStep
             PROVE  RepeatInv'
  OBVIOUS
<1> USE DEF Goto, Exit, RepeatInv, After, signals
<1>1. CASE ConfigFails \/ SelfCheck \/ Wire \/ RegisterSignals \/ Abort \/ Launch
  BY <1>1 DEF ConfigFails, SelfCheck, Wire, RegisterSignals, Abort, Launch
<1>2. CASE ServerFailed \/ RootDone \/ ParkServe \/ ReturnServerError
  BY <1>2 DEF ServerFailed, RootDone, ParkServe, ReturnServerError
<1>3. CASE StartShutdown \/ StepsReturned \/ TakeRepeat \/ GraceOver \/ ParkAwait
  BY <1>3 DEF StartShutdown, StepsReturned, TakeRepeat, GraceOver, ParkAwait
<1>4. CASE ReturnCompleted \/ ReturnStepError \/ ForceExit \/ TimeOut
  BY <1>4 DEF ReturnCompleted, ReturnStepError, ForceExit, TimeOut
<1>5. CASE Return
  BY <1>5 DEF Return, Stop, Finish, Armed
<1>. QED
  BY <1>1, <1>2, <1>3, <1>4, <1>5 DEF MainStep

LEMMA RepeatNext == TypeOK /\ RepeatInv /\ [Next]_vars => RepeatInv'
<1> SUFFICES ASSUME TypeOK, RepeatInv, [Next]_vars
             PROVE  RepeatInv'
  OBVIOUS
<1> USE DEF Wake, RepeatInv, After, signals
<1>1. CASE MainStep
  BY <1>1, RepeatMain
<1>2. ASSUME NEW s \in Signals, Raise(s)
      PROVE  RepeatInv'
  BY <1>2 DEF Raise
<1>3. ASSUME NEW s \in Signals, Deliver(s)
      PROVE  RepeatInv'
  <2>1. delivered \in Nat /\ delivered' = delivered + 1
    BY <1>3 DEF Deliver, TypeOK
  <2>. QED
    BY <1>3, <2>1 DEF Deliver, Offer, Armed
<1>4. CASE CancelRoot \/ Rearm
  BY <1>4 DEF CancelRoot, Rearm
<1>5. CASE Serve
  BY <1>5 DEF Serve, ServerStep, ServerReturns
<1>6. ASSUME NEW r \in Requests, RequestStep(r)
      PROVE  RepeatInv'
  BY <1>6 DEF RequestStep, Connects, RequestBegins, RequestEnds, Becomes
<1>7. CASE SequenceStep
  BY <1>7 DEF SequenceStep, CloseGate, BeginDrain, Poll, PollAgain, DrainCut,
              ClientsClosed, Report
<1>8. CASE CloseClient \/ Expire
  BY <1>8 DEF CloseClient, Expire
<1>9. CASE Ended \/ UNCHANGED vars
  BY <1>9 DEF Ended, vars
<1>. QED
  BY <1>1, <1>2, <1>3, <1>4, <1>5, <1>6, <1>7, <1>8, <1>9 DEF Next

\* FR-023: only a second signal forces the exit.
THEOREM RepeatHolds == Spec => []ForcedByRepeat
<1>1. RepeatInv => ForcedByRepeat
  BY DEF RepeatInv, ForcedByRepeat
<1>. QED
  BY TypeInit, TypeNext, RepeatInit, RepeatNext, <1>1, PTL DEF Spec

-----------------------------------------------------------------------------
(* Signals while the process works: its handler is registered from before   *)
(* it serves until run is about to return.                                  *)

Unguarded == {"boot", "wired", "succeeded", "failed"}

GuardInv ==
    /\ pc \notin Unguarded \cup {"exited"} => notifying
    /\ pc = "exited" => status \in {"exit_0", "exit_1"}
    /\ status = "killed" => pc \in Unguarded
    /\ status \in {"exit_0", "exit_1"} => pc = "exited"

LEMMA GuardInit == Init => GuardInv
BY DEF Init, GuardInv, Unguarded

LEMMA GuardMain == TypeOK /\ GuardInv /\ MainStep => GuardInv'
<1> SUFFICES ASSUME TypeOK, GuardInv, MainStep
             PROVE  GuardInv'
  OBVIOUS
<1> USE DEF Goto, Exit, Running, GuardInv, Unguarded, signals
<1>1. CASE ConfigFails \/ SelfCheck \/ Wire \/ RegisterSignals \/ Abort \/ Launch
  BY <1>1 DEF ConfigFails, SelfCheck, Wire, RegisterSignals, Abort, Launch
<1>2. CASE ServerFailed \/ RootDone \/ ParkServe \/ ReturnServerError
  BY <1>2 DEF ServerFailed, RootDone, ParkServe, ReturnServerError
<1>3. CASE StartShutdown \/ StepsReturned \/ TakeRepeat \/ GraceOver \/ ParkAwait
  BY <1>3 DEF StartShutdown, StepsReturned, TakeRepeat, GraceOver, ParkAwait
<1>4. CASE ReturnCompleted \/ ReturnStepError \/ ForceExit \/ TimeOut
  BY <1>4 DEF ReturnCompleted, ReturnStepError, ForceExit, TimeOut
<1>5. CASE Return
  BY <1>5 DEF Return, Stop, Finish
<1>. QED
  BY <1>1, <1>2, <1>3, <1>4, <1>5 DEF MainStep

LEMMA GuardNext == TypeOK /\ GuardInv /\ [Next]_vars => GuardInv'
<1> SUFFICES ASSUME TypeOK, GuardInv, [Next]_vars
             PROVE  GuardInv'
  OBVIOUS
<1> USE DEF Wake, Running, GuardInv, Unguarded, signals
<1>1. CASE MainStep
  BY <1>1, GuardMain
<1>2. ASSUME NEW s \in Signals, Raise(s) \/ Deliver(s)
      PROVE  GuardInv'
  BY <1>2 DEF Raise, Deliver, Handled
<1>3. CASE CancelRoot \/ Rearm
  BY <1>3 DEF CancelRoot, Rearm
<1>4. CASE Serve
  BY <1>4 DEF Serve, ServerStep, ServerReturns
<1>5. ASSUME NEW r \in Requests, RequestStep(r)
      PROVE  GuardInv'
  BY <1>5 DEF RequestStep, Connects, RequestBegins, RequestEnds, Becomes
<1>6. CASE SequenceStep
  BY <1>6 DEF SequenceStep, CloseGate, BeginDrain, Poll, PollAgain, DrainCut,
              ClientsClosed, Report
<1>7. CASE CloseClient \/ Expire
  BY <1>7 DEF CloseClient, Expire
<1>8. CASE Ended \/ UNCHANGED vars
  BY <1>8 DEF Ended, vars
<1>. QED
  BY <1>1, <1>2, <1>3, <1>4, <1>5, <1>6, <1>7, <1>8 DEF Next

\* No signal kills a process that serves or shuts down.
THEOREM GuardHolds == Spec => []GuardedWhileWorking
<1>1. GuardInv => GuardedWhileWorking
  BY DEF GuardInv, GuardedWhileWorking, Unguarded
<1>. QED
  BY TypeInit, TypeNext, GuardInit, GuardNext, <1>1, PTL DEF Spec

-----------------------------------------------------------------------------
(* The two selects.  Main parks only after it has found nothing, and every  *)
(* event that it awaits takes it out of there in the same step.             *)

WaitInv ==
    /\ pc \in {"serve", "parked_in_serve"} => las # "unborn"
    /\ las = "returned" => errCh # "none"
    /\ pc = "parked_in_serve" => ~cancelled /\ errCh = "none"
    /\ pc \in {"await", "parked_in_await"} => grace # "unset"
    /\ pc = "out_of_time" => grace = "expired"
    /\ pc = "parked_in_await" => done = "none" /\ repeat = NoSignal /\ grace = "running"

LEMMA WaitInit == Init => WaitInv
BY DEF Init, WaitInv

LEMMA WaitMain == TypeOK /\ WaitInv /\ MainStep => WaitInv'
<1> SUFFICES ASSUME TypeOK, WaitInv, MainStep
             PROVE  WaitInv'
  OBVIOUS
<1> USE DEF Goto, Exit, WaitInv, signals, server, sequence
<1>1. CASE ConfigFails \/ SelfCheck \/ Wire \/ RegisterSignals \/ Abort
  BY <1>1 DEF ConfigFails, SelfCheck, Wire, RegisterSignals, Abort
<1>2. CASE Launch
  BY <1>2 DEF Launch
<1>3. CASE ServerFailed \/ RootDone \/ ParkServe \/ ReturnServerError
  BY <1>3 DEF ServerFailed, RootDone, ParkServe, ReturnServerError
<1>4. CASE StartShutdown
  BY <1>4 DEF StartShutdown
<1>5. CASE StepsReturned \/ TakeRepeat \/ GraceOver
  BY <1>5 DEF StepsReturned, TakeRepeat, GraceOver
<1>6. CASE ParkAwait
  BY <1>6 DEF ParkAwait, TypeOK
<1>7. CASE ReturnCompleted \/ ReturnStepError \/ ForceExit \/ TimeOut
  BY <1>7 DEF ReturnCompleted, ReturnStepError, ForceExit, TimeOut
<1>8. CASE Return
  BY <1>8 DEF Return, Stop, Finish
<1>. QED
  BY <1>1, <1>2, <1>3, <1>4, <1>5, <1>6, <1>7, <1>8 DEF MainStep

LEMMA WaitNext == TypeOK /\ WaitInv /\ [Next]_vars => WaitInv'
<1> SUFFICES ASSUME TypeOK, WaitInv, [Next]_vars
             PROVE  WaitInv'
  OBVIOUS
<1> USE DEF Wake, WaitInv, signals, server, sequence
<1>1. CASE MainStep
  BY <1>1, WaitMain
<1>2. ASSUME NEW s \in Signals, Raise(s) \/ Deliver(s)
      PROVE  WaitInv'
  BY <1>2 DEF Raise, Deliver
<1>3. CASE CancelRoot \/ Rearm
  BY <1>3 DEF CancelRoot, Rearm
<1>4. CASE Serve
  BY <1>4 DEF Serve, ServerStep, ServerReturns
<1>5. ASSUME NEW r \in Requests, RequestStep(r)
      PROVE  WaitInv'
  BY <1>5 DEF RequestStep, Connects, RequestBegins, RequestEnds, Becomes
<1>6. CASE CloseGate \/ BeginDrain \/ Poll \/ PollAgain \/ CloseClient
  BY <1>6 DEF CloseGate, BeginDrain, Poll, PollAgain, CloseClient
<1>7. CASE DrainCut \/ ClientsClosed
  BY <1>7 DEF DrainCut, ClientsClosed, Report
<1>8. CASE Expire
  BY <1>8 DEF Expire
<1>9. CASE Ended \/ UNCHANGED vars
  BY <1>9 DEF Ended, vars
<1>. QED
  BY <1>1, <1>2, <1>3, <1>4, <1>5, <1>6, <1>7, <1>8, <1>9 DEF Next, SequenceStep

\* What main is parked for has not happened yet and can still happen.
THEOREM WakeupHolds == Spec => []NoLostWakeup
<1>1. WaitInv /\ GuardInv => NoLostWakeup
  BY DEF WaitInv, GuardInv, Unguarded, NoLostWakeup
<1>. QED
  BY TypeInit, TypeNext, GuardInit, GuardNext, WaitInit, WaitNext, <1>1, PTL DEF Spec

-----------------------------------------------------------------------------
(* The record of a shutdown.  Main logs one ending on its way out, and the  *)
(* label it leaves by says which.                                           *)

RecordInv ==
    /\ pc \in Before \cup {"await", "parked_in_await", "steps_returned", "repeated",
                          "out_of_time", "failing", "failed"} => Endings \cap events = {}
    /\ pc \in Before => "shutdown_started" \notin events
    /\ "shutdown_complete" \in events => Endings \cap events = {"shutdown_complete"}
    /\ "shutdown_complete" \in events => pc \in {"succeeding", "succeeded", "exited"}
    /\ {"shutdown_complete", "shutdown_forced"} \cap events # {} => "shutdown_timeout" \notin events
    /\ status = "exit_1" => "shutdown_complete" \notin events
    /\ "shutdown_timeout" \in events => grace = "expired"
    /\ "shutdown_started" \in events =>
          /\ pc \in {"failing", "failed"} => done = "err"
          /\ pc \in {"succeeding", "succeeded"} => "shutdown_complete" \in events
          /\ pc = "exited" => Endings \cap events # {} \/ done = "err"

LEMMA RecordInit == Init => RecordInv
BY DEF Init, RecordInv, Before, Endings

LEMMA RecordMain == TypeOK /\ ExitInv /\ WaitInv /\ RecordInv /\ MainStep => RecordInv'
<1> SUFFICES ASSUME TypeOK, ExitInv, WaitInv, RecordInv, MainStep
             PROVE  RecordInv'
  OBVIOUS
<1> USE DEF Goto, Exit, Running, RecordInv, Before, Endings, signals, server, sequence
<1>1. CASE ConfigFails \/ SelfCheck \/ Wire \/ RegisterSignals \/ Abort
  BY <1>1 DEF ConfigFails, SelfCheck, Wire, RegisterSignals, Abort
<1>2. CASE Launch
  BY <1>2 DEF Launch
<1>3. CASE ServerFailed \/ RootDone \/ ParkServe
  BY <1>3 DEF ServerFailed, RootDone, ParkServe
<1>4. CASE ReturnServerError
  BY <1>4 DEF ReturnServerError
<1>5. CASE StartShutdown
  BY <1>5 DEF StartShutdown
<1>6. CASE StepsReturned \/ TakeRepeat \/ GraceOver \/ ParkAwait
  BY <1>6 DEF StepsReturned, TakeRepeat, GraceOver, ParkAwait
<1>7. CASE ReturnCompleted
  BY <1>7 DEF ReturnCompleted
<1>8. CASE ReturnStepError
  BY <1>8 DEF ReturnStepError
<1>9. CASE ForceExit
  BY <1>9 DEF ForceExit
<1>10. CASE TimeOut
  BY <1>10 DEF TimeOut, WaitInv
<1>11. CASE Return
  BY <1>11 DEF Return, Stop, Finish
<1>. QED
  BY <1>1, <1>2, <1>3, <1>4, <1>5, <1>6, <1>7, <1>8, <1>9, <1>10, <1>11 DEF MainStep

LEMMA RecordNext == TypeOK /\ ExitInv /\ WaitInv /\ RecordInv /\ [Next]_vars => RecordInv'
<1> SUFFICES ASSUME TypeOK, ExitInv, WaitInv, RecordInv, [Next]_vars
             PROVE  RecordInv'
  OBVIOUS
<1> USE DEF Wake, RecordInv, Before, Endings, signals, server, sequence
<1>1. CASE MainStep
  BY <1>1, RecordMain
<1>2. ASSUME NEW s \in Signals, Raise(s) \/ Deliver(s)
      PROVE  RecordInv'
  BY <1>2 DEF Raise, Deliver, Running
<1>3. CASE CancelRoot \/ Rearm
  BY <1>3 DEF CancelRoot, Rearm
<1>4. CASE Serve
  BY <1>4 DEF Serve, ServerStep, ServerReturns
<1>5. ASSUME NEW r \in Requests, RequestStep(r)
      PROVE  RecordInv'
  BY <1>5 DEF RequestStep, Connects, RequestBegins, RequestEnds, Becomes
<1>6. CASE CloseGate \/ BeginDrain \/ Poll \/ PollAgain \/ CloseClient
  BY <1>6 DEF CloseGate, BeginDrain, Poll, PollAgain, CloseClient
<1>7. CASE DrainCut \/ ClientsClosed
  <2>1. done = "none"
    BY <1>7 DEF DrainCut, ClientsClosed, ExitInv
  <2>. QED
    BY <1>7, <2>1 DEF DrainCut, ClientsClosed, Report
<1>8. CASE Expire
  BY <1>8 DEF Expire
<1>9. CASE Ended \/ UNCHANGED vars
  BY <1>9 DEF Ended, vars
<1>. QED
  BY <1>1, <1>2, <1>3, <1>4, <1>5, <1>6, <1>7, <1>8, <1>9 DEF Next, SequenceStep

LEMMA RecordTells == ExitInv /\ GuardInv /\ RecordInv => OutcomeOnRecord
<1> SUFFICES ASSUME ExitInv, GuardInv, RecordInv
             PROVE  OutcomeOnRecord
  OBVIOUS
<1>1. status \in {"exit_0", "exit_1"} => pc = "exited"
  BY DEF GuardInv
<1>. QED
  BY <1>1 DEF ExitInv, RecordInv, OutcomeOnRecord, Endings

\* FR-021, FR-023: one record of how a shutdown ended, and a true one.
THEOREM RecordHolds == Spec => []OutcomeOnRecord
  BY TypeInit, TypeNext, OrderInit, OrderNext, ExitInit, ExitNext, GuardInit, GuardNext,
     WaitInit, WaitNext, RecordInit, RecordNext, RecordTells, PTL DEF Spec
=============================================================================
