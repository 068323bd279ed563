---------------------------- MODULE PhasesProofs ----------------------------
(* Refinement: every step of Lifecycle is a step of Phases or none.         *)
EXTENDS LifecycleProofs

USE DEF main, Move, Log, AfterGate, FirstSignalled, Closed

\* What ties main's label to the timer and to the steps.
PhaseInv ==
    /\ pc \in Before => grace = "unset"
    /\ pc = "shutdown" => cancelled
    /\ pc = "steps_returned" => done # "none"
    /\ pc \in Returning => step \in {"unborn", "ended"}
    /\ step = "ended" => closed \in {0, Len(Clients)} /\ done # "none"

LEMMA PhaseInit == Init => PhaseInv
BY DEF Init, PhaseInv, Returning

LEMMA PhaseMain == TypeOK /\ OrderInv /\ ExitInv /\ PhaseInv /\ MainStep => PhaseInv'
<1> SUFFICES ASSUME TypeOK, OrderInv, ExitInv, PhaseInv, MainStep
             PROVE  PhaseInv'
  OBVIOUS
<1> USE DEF Goto, Exit, PhaseInv, Before, Returning, signals, server, sequence
<1>1. CASE ConfigFails \/ SelfCheck \/ Wire \/ RegisterSignals \/ Abort
  BY <1>1 DEF ConfigFails, SelfCheck, Wire, RegisterSignals, Abort, OrderInv
<1>2. CASE Launch
  BY <1>2 DEF Launch
<1>3. CASE ServerFailed \/ RootDone \/ ParkServe \/ ReturnServerError
  BY <1>3 DEF ServerFailed, RootDone, ParkServe, ReturnServerError, OrderInv
<1>4. CASE StartShutdown
  BY <1>4 DEF StartShutdown
<1>5. CASE StepsReturned \/ TakeRepeat \/ GraceOver \/ ParkAwait
  BY <1>5 DEF StepsReturned, TakeRepeat, GraceOver, ParkAwait
<1>6. CASE ReturnCompleted \/ ReturnStepError
  BY <1>6 DEF ReturnCompleted, ReturnStepError, ExitInv
<1>7. CASE ForceExit \/ TimeOut
  BY <1>7 DEF ForceExit, TimeOut
<1>8. CASE Return
  BY <1>8 DEF Return, Stop, Finish
<1>. QED
  BY <1>1, <1>2, <1>3, <1>4, <1>5, <1>6, <1>7, <1>8 DEF MainStep

LEMMA PhaseNext ==
    TypeOK /\ OrderInv /\ ExitInv /\ WaitInv /\ PhaseInv /\ [Next]_vars => PhaseInv'
<1> SUFFICES ASSUME TypeOK, OrderInv, ExitInv, WaitInv, PhaseInv, [Next]_vars
             PROVE  PhaseInv'
  OBVIOUS
<1> USE DEF Wake, PhaseInv, Before, Returning, signals, server, sequence
<1>1. CASE MainStep
  BY <1>1, PhaseMain
<1>2. ASSUME NEW s \in Signals, Raise(s) \/ Deliver(s)
      PROVE  PhaseInv'
  BY <1>2 DEF Raise, Deliver
<1>3. CASE CancelRoot \/ Rearm
  BY <1>3 DEF CancelRoot, Rearm
<1>4. CASE Serve
  BY <1>4 DEF Serve, ServerStep, ServerReturns
<1>5. ASSUME NEW r \in Requests, RequestStep(r)
      PROVE  PhaseInv'
  BY <1>5 DEF RequestStep, Connects, RequestBegins, RequestEnds, Becomes
<1>6. CASE CloseGate \/ BeginDrain \/ Poll \/ PollAgain \/ CloseClient
  BY <1>6 DEF CloseGate, BeginDrain, Poll, PollAgain, CloseClient
<1>7. CASE DrainCut
  BY <1>7, LifecycleAssumption DEF DrainCut, Report, OrderInv, TypeOK
<1>8. CASE ClientsClosed
  BY <1>8 DEF ClientsClosed, Report
<1>9. CASE Expire
  BY <1>9 DEF Expire
<1>10. CASE Ended \/ UNCHANGED vars
  BY <1>10 DEF Ended, vars
<1>. QED
  BY <1>1, <1>2, <1>3, <1>4, <1>5, <1>6, <1>7, <1>8, <1>9, <1>10 DEF Next, SequenceStep

\* What is known of startup and shutdown, whatever else is shown of them.
AllInv ==
    /\ TypeOK /\ OrderInv /\ ExitInv /\ RepeatInv /\ GuardInv
    /\ WaitInv /\ RecordInv /\ PhaseInv

LEMMA AllInit == Init => AllInv
BY TypeInit, OrderInit, ExitInit, RepeatInit, GuardInit, WaitInit, RecordInit,
   PhaseInit DEF AllInv

LEMMA AllNext == AllInv /\ [Next]_vars => AllInv'
BY TypeNext, OrderNext, ExitNext, RepeatNext, GuardNext, WaitNext, RecordNext,
   PhaseNext DEF AllInv

LEMMA AllSafe ==
    AllInv => /\ ClosedAfterDrain /\ CleanExit /\ NeverHalfStarted
              /\ ForcedByRepeat /\ GuardedWhileWorking
              /\ NoLostWakeup /\ OutcomeOnRecord
<1>1. AllInv => /\ ClosedAfterDrain /\ CleanExit /\ NeverHalfStarted
                /\ ForcedByRepeat /\ GuardedWhileWorking /\ NoLostWakeup
  BY LifecycleAssumption
     DEF AllInv, OrderInv, ExitInv, RepeatInv, GuardInv, WaitInv, Refusals, Unguarded,
         ClosedAfterDrain, CleanExit, NeverHalfStarted, ForcedByRepeat, GuardedWhileWorking,
         NoLostWakeup
<1>2. AllInv => OutcomeOnRecord
  BY RecordTells DEF AllInv
<1>. QED
  BY <1>1, <1>2

\* The mapping, without its conditions on what cannot be.
LEMMA PhaseRunning ==
    ASSUME AllInv, Running
    PROVE  /\ ProcessPhase = "starting" <=> pc \in Starting
           /\ ProcessPhase = "serving" <=> pc \in Serving
           /\ ProcessPhase = "returning" <=> pc \in Returning
           /\ ProcessPhase = "stopping" <=>
                 pc \in {"await", "parked_in_await", "steps_returned", "repeated", "out_of_time"}
           /\ ProcessPhase # "ended"
BY DEF AllInv, TypeOK, GuardInv, Running, Labels, ProcessPhase, Starting, Serving, Returning

LEMMA PhasesInit == Init => Ph!Init
BY DEF Init, Ph!Init, ProcessPhase, StepsTaken, Result, Running, Starting

\* The steps of main that lead to another phase, in the order of the phases.
LEMMA MainPhases ==
    ASSUME AllInv, AllInv', MainStep
    PROVE  [Ph!Next]_Ph!vars
<1> USE DEF Goto, Exit, ProcessPhase, StepsTaken, Result, Running, Starting, Serving, Returning,
            signals, server, sequence, Ph!vars
<1>1. CASE ConfigFails \/ SelfCheck \/ Abort
  <2>1. Ph!Decline
    BY <1>1 DEF ConfigFails, SelfCheck, Abort, Ph!Decline, Ph!Enter
  <2>. QED
    BY <2>1 DEF Ph!Next
<1>2. CASE Wire \/ RegisterSignals
  BY <1>2 DEF Wire, RegisterSignals
<1>3. CASE Launch
  <2>1. Ph!Serve
    BY <1>3 DEF Launch, Ph!Serve, Ph!Enter
  <2>. QED
    BY <2>1 DEF Ph!Next
<1>4. CASE ServerFailed \/ RootDone \/ ParkServe
  BY <1>4 DEF ServerFailed, RootDone, ParkServe
<1>5. CASE ReturnServerError
  <2>1. errCh # "nil"
    BY <1>5 DEF ReturnServerError, AllInv, OrderInv, ExitInv, Before
  <2>2. Ph!LoseServer
    BY <1>5, <2>1 DEF ReturnServerError, Ph!LoseServer, Ph!Enter
  <2>. QED
    BY <2>2 DEF Ph!Next
<1>6. CASE StartShutdown
  <2>1. delivered >= 1 /\ step = "unborn"
    BY <1>6 DEF StartShutdown, AllInv, PhaseInv, RepeatInv, OrderInv, Before, After
  <2>2. Ph!Stop
    BY <1>6, <2>1 DEF StartShutdown, Ph!Stop, Ph!Enter
  <2>. QED
    BY <2>2 DEF Ph!Next
<1>7. CASE StepsReturned \/ TakeRepeat \/ GraceOver \/ ParkAwait
  BY <1>7 DEF StepsReturned, TakeRepeat, GraceOver, ParkAwait
<1>8. CASE ReturnCompleted \/ ReturnStepError
  <2>1. Ph!Return
    BY <1>8 DEF ReturnCompleted, ReturnStepError, Ph!Return, Ph!Enter
  <2>. QED
    BY <2>1 DEF Ph!Next
<1>9. CASE ForceExit \/ TimeOut
  <2>1. delivered >= 2 \/ grace = "expired"
    BY <1>9 DEF ForceExit, TimeOut, AllInv, RepeatInv, WaitInv
  <2>2. Ph!GiveUp
    BY <1>9, <2>1 DEF ForceExit, TimeOut, Ph!GiveUp, Ph!Enter
  <2>. QED
    BY <2>2 DEF Ph!Next
<1>10. CASE Stop("succeeding", "succeeded") \/ Stop("failing", "failed")
  BY <1>10 DEF Stop
<1>11. CASE Finish("succeeded", "exit_0") \/ Finish("failed", "exit_1")
  <2>1. Ph!End
    BY <1>11 DEF Finish, Ph!End, Ph!Enter
  <2>. QED
    BY <2>1 DEF Ph!Next
<1>. QED
  BY <1>1, <1>2, <1>3, <1>4, <1>5, <1>6, <1>7, <1>8, <1>9, <1>10, <1>11 DEF MainStep, Return

\* The steps run only while main watches over them.
LEMMA StepsWhileStopping ==
    ASSUME AllInv, Running, step \notin {"unborn", "ended"}
    PROVE  ProcessPhase = "stopping" /\ done = "none"
<1>1. pc \notin Before \cup Returning \cup {"exited"}
  BY DEF AllInv, OrderInv, PhaseInv, GuardInv, Running
<1>2. done = "none"
  BY DEF AllInv, ExitInv
<1>. QED
  BY <1>1, <1>2 DEF ProcessPhase, Before, Starting, Serving

\* A step that takes one of the shutdown steps, or a part of one.
LEMMA SequencePhases ==
    ASSUME AllInv, AllInv', SequenceStep \/ CloseClient
    PROVE  [Ph!Next]_Ph!vars
<1> USE DEF signals, server, Ph!vars, Ph!AllSteps
<1>0. Running /\ step \notin {"unborn", "ended"}
  BY DEF SequenceStep, CloseGate, BeginDrain, Poll, PollAgain, DrainCut, ClientsClosed, CloseClient
<1>1. ProcessPhase = "stopping" /\ done = "none" /\ Result = "none"
  <2>1. pc \notin Returning
    BY <1>0 DEF AllInv, PhaseInv
  <2>. QED
    BY <1>0, <2>1, StepsWhileStopping DEF Result, Returning
<1>2. CASE CloseGate
  <2>1. Ph!Step
    BY <1>0, <1>1, <1>2
       DEF CloseGate, Ph!Step, ProcessPhase, StepsTaken, Result, Running
  <2>. QED
    BY <2>1 DEF Ph!Next
<1>3. CASE BeginDrain \/ PollAgain \/ CloseClient
  BY <1>3 DEF BeginDrain, PollAgain, CloseClient, ProcessPhase, StepsTaken, Result, Running
<1>4. CASE Poll
  <2>1. CASE step' = "between_polls"
    BY <1>4, <2>1 DEF Poll, ProcessPhase, StepsTaken, Result, Running
  <2>2. CASE step' = "dependency_clients"
    <3>1. Ph!Step
      BY <1>1, <1>4, <2>2 DEF Poll, Ph!Step, ProcessPhase, StepsTaken, Result, Running
    <3>. QED
      BY <3>1 DEF Ph!Next
  <2>. QED
    BY <1>4, <2>1, <2>2 DEF Poll
<1>5. CASE DrainCut
  <2>1. closed = 0 /\ Len(Clients) # 0
    BY <1>5, LifecycleAssumption DEF DrainCut, AllInv, OrderInv, TypeOK
  <2>2. ProcessPhase' = "stopping" /\ Result' = "none" /\ UNCHANGED <<StepsTaken, delivered, grace>>
    BY <1>0, <1>1, <1>5, <2>1 DEF DrainCut, Report, Wake, ProcessPhase, StepsTaken, Result, Running,
       Starting, Serving, Returning
  <2>3. Ph!Abandon
    BY <1>1, <1>5, <2>1, <2>2 DEF DrainCut, Report, Ph!Abandon, StepsTaken
  <2>. QED
    BY <2>3 DEF Ph!Next
<1>6. CASE ClientsClosed
  <2>1. ProcessPhase' = "stopping" /\ Result' = "none" /\ UNCHANGED <<delivered, grace>>
    BY <1>0, <1>1, <1>6 DEF ClientsClosed, Report, Wake, ProcessPhase, Result, Running,
       Starting, Serving, Returning
  <2>2. StepsTaken = 2 /\ StepsTaken' = 3 /\ done' \in {"nil", "err"}
    BY <1>6 DEF ClientsClosed, Report, StepsTaken
  <2>3. Ph!Step
    BY <1>1, <2>1, <2>2 DEF Ph!Step
  <2>. QED
    BY <2>3 DEF Ph!Next
<1>. QED
  BY <1>2, <1>3, <1>4, <1>5, <1>6 DEF SequenceStep

\* A wake-up moves main within its phase.
LEMMA WakeStays ==
    ASSUME AllInv, Running, UNCHANGED status,
           \/ Wake("parked_in_serve", "shutdown") \/ Wake("parked_in_serve", "server_stopped")
           \/ Wake("parked_in_await", "out_of_time") \/ Wake("parked_in_await", "repeated")
    PROVE  UNCHANGED <<ProcessPhase, Result>>
BY DEF Wake, ProcessPhase, Result, Running, Starting, Serving, Returning

LEMMA PhasesNext == AllInv /\ [Next]_vars => [Ph!Next]_Ph!vars
<1> SUFFICES ASSUME AllInv, [Next]_vars
             PROVE  [Ph!Next]_Ph!vars
  OBVIOUS
<1>0. AllInv'
  BY AllNext
<1> USE DEF signals, server, sequence, Ph!vars
<1>1. CASE MainStep
  BY <1>0, <1>1, MainPhases
<1>2. CASE SequenceStep \/ CloseClient
  BY <1>0, <1>2, SequencePhases
<1>3. ASSUME NEW s \in Signals, Raise(s)
      PROVE  [Ph!Next]_Ph!vars
  <2>1. CASE Handled
    BY <1>3, <2>1 DEF Raise, ProcessPhase, StepsTaken, Result, Running
  <2>2. CASE ~Handled
    <3>1. ProcessPhase \in {"starting", "returning"}
      BY <1>3, <2>2 DEF Raise, Handled, AllInv, GuardInv, Unguarded, ProcessPhase, Running,
         Starting, Serving, Returning
    <3>2. Ph!Kill
      BY <1>3, <2>2, <3>1 DEF Raise, Ph!Kill, ProcessPhase, StepsTaken, Result, Running
    <3>. QED
      BY <3>2 DEF Ph!Next
  <2>. QED
    BY <2>1, <2>2
<1>4. ASSUME NEW s \in Signals, Deliver(s)
      PROVE  [Ph!Next]_Ph!vars
  <2>1. UNCHANGED <<ProcessPhase, Result>> /\ ProcessPhase # "ended"
    BY <1>4 DEF Deliver, ProcessPhase, Result, Running, Starting, Serving, Returning
  <2>2. Ph!Tell
    BY <1>4, <2>1 DEF Deliver, Ph!Tell, StepsTaken
  <2>. QED
    BY <2>2 DEF Ph!Next
<1>5. CASE CancelRoot \/ Rearm
  BY <1>5, WakeStays DEF CancelRoot, Rearm, StepsTaken, ProcessPhase, Result, Running
<1>6. CASE Serve
  BY <1>6, WakeStays DEF Serve, ServerStep, ServerReturns, StepsTaken, ProcessPhase, Result, Running
<1>7. ASSUME NEW r \in Requests, RequestStep(r)
      PROVE  [Ph!Next]_Ph!vars
  BY <1>7 DEF RequestStep, Connects, RequestBegins, RequestEnds, Becomes,
     StepsTaken, ProcessPhase, Result, Running
<1>8. CASE Expire
  <2>1. ProcessPhase \in {"stopping", "returning"}
    BY <1>8 DEF Expire, AllInv, PhaseInv, GuardInv, ProcessPhase, Running, Before, Starting, Serving
  <2>2. UNCHANGED <<ProcessPhase, Result, StepsTaken>>
    BY <1>8, WakeStays DEF Expire, StepsTaken
  <2>3. Ph!Expire
    BY <1>8, <2>1, <2>2 DEF Expire, Ph!Expire
  <2>. QED
    BY <2>3 DEF Ph!Next
<1>9. CASE Ended \/ UNCHANGED vars
  BY <1>9 DEF Ended, vars, StepsTaken, ProcessPhase, Result, Running
<1>. QED
  BY <1>1, <1>2, <1>3, <1>4, <1>5, <1>6, <1>7, <1>8, <1>9 DEF Next

\* FR-019, FR-021 to FR-023: every behaviour of startup and shutdown is one that
\* Phases allows.
THEOREM PhasesFollowed == Spec => FollowsPhases
  BY AllInit, AllNext, PhasesInit, PhasesNext, PTL DEF Spec, FollowsPhases, Ph!Spec
=============================================================================
