--------------------------- MODULE ServiceProofs ---------------------------
(* Proofs about Service, for any number of probes, any clients, any         *)
(* durations and any clock.  Every step of the service is a step of         *)
(* Lifecycle or leaves its variables alone, so what is proved of Lifecycle  *)
(* holds here too; what is added is how probes and clients fit into it.     *)
EXTENDS Service, PhasesProofs

\* What is known of startup and shutdown alone.
RunInv == TypeOK /\ OrderInv /\ ExitInv

LEMMA RunsAsLifecycle == [ServiceNext]_all => [Next]_vars
<1> SUFFICES ASSUME [ServiceNext]_all
             PROVE  [Next]_vars
  OBVIOUS
<1>1. ASSUME NEW r \in Requests, HandlerBegins(r) \/ HandlerReturns(r)
      PROVE  [Next]_vars
  BY <1>1 DEF HandlerBegins, HandlerReturns, Next, RequestStep
<1>2. CASE Close
  BY <1>2 DEF Close, Next
<1>3. CASE SetGate
  BY <1>3 DEF SetGate, Next, SequenceStep
<1>4. CASE Runs
  BY <1>4 DEF Runs, Next, SequenceStep, RequestStep
<1>5. ASSUME NEW d \in Deps, Build(d)
      PROVE  [Next]_vars
  BY <1>5 DEF Build
<1>6. ASSUME NEW d \in Deps, CheckReturns(d)
      PROVE  UNCHANGED vars
  BY <1>6 DEF CheckReturns, R!CheckReturns, running, vars, sequence
<1>7. CASE Evaluates
  BY <1>7 DEF Evaluates, running, vars, sequence, R!CallerStep, R!FlightStep,
              R!RefuseAtGate, R!PassGate, R!HitCache, R!MissCache, R!LeadFlight, R!JoinFlight,
              R!RefuseAfterRound, R!AnswerRound, R!Answer,
              R!ShareCache, R!BeginRound, R!Stamp, R!Publish, R!Land
<1>8. CASE World
  BY <1>8 DEF World, running, vars, sequence, R!Disconnect, R!DepChange, R!ClockStep, R!Tick
<1>9. CASE Over \/ UNCHANGED all
  BY <1>9 DEF Over, all
<1>. QED
  BY <1>1, <1>2, <1>3, <1>4, <1>5, <1>6, <1>7, <1>8, <1>9 DEF ServiceNext

LEMMA RunInit == ServiceInit => RunInv
BY TypeInit, OrderInit, ExitInit DEF ServiceInit, RunInv

LEMMA RunNext == RunInv /\ [ServiceNext]_all => RunInv'
BY RunsAsLifecycle, TypeNext, OrderNext, ExitNext DEF RunInv

-----------------------------------------------------------------------------
(* Probes.  A call of Evaluate runs on a request that is being served; one  *)
(* that began on a connection cut by the drain found the gate set, and gets *)
(* no further than that; a round of checks has its leader inside the call.  *)

Places == {"idle", "entered", "probe", "missed", "leading", "waiting", "landed"}

CallInv ==
    /\ at \in [Requests -> Places] /\ late \in [Requests -> BOOLEAN]
    /\ \A r \in Requests : late[r] => gate /\ at[r] \in {"idle", "entered"}
    /\ phase # "none" => leader \in Requests /\ at[leader] = "leading"

ServedInv ==
    \A r \in Requests :
       /\ at[r] # "idle" => reqs[r] = "active" \/ (reqs[r] = "orphan" /\ late[r])
       /\ las = "unborn" => reqs[r] = "new"

\* No call begins, and those under way stay as early or late as they were.
NoneBegins ==
    \A r \in Requests : at'[r] # "idle" => at[r] # "idle" /\ late'[r] = late[r]

LEMMA CallerSteps ==
    ASSUME CallInv, NEW c \in Requests, R!CallerStep(c)
    PROVE  CallInv' /\ NoneBegins
<1> USE DEF CallInv, Places, NoneBegins, R!Answer, R!Goto, R!flight
<1>1. CASE R!RefuseAtGate(c)
  BY <1>1 DEF R!RefuseAtGate
<1>2. CASE R!PassGate(c)
  BY <1>2 DEF R!PassGate
<1>3. CASE R!HitCache(c)
  BY <1>3 DEF R!HitCache
<1>4. CASE R!MissCache(c)
  BY <1>4 DEF R!MissCache
<1>5. CASE R!LeadFlight(c)
  BY <1>5 DEF R!LeadFlight
<1>6. CASE R!JoinFlight(c)
  BY <1>6 DEF R!JoinFlight
<1>7. CASE R!RefuseAfterRound(c)
  BY <1>7 DEF R!RefuseAfterRound
<1>8. CASE R!AnswerRound(c)
  BY <1>8 DEF R!AnswerRound
<1>. QED
  BY <1>1, <1>2, <1>3, <1>4, <1>5, <1>6, <1>7, <1>8 DEF R!CallerStep

LEMMA FlightSteps ==
    ASSUME CallInv, R!FlightStep
    PROVE  CallInv' /\ NoneBegins
<1> USE DEF CallInv, Places, NoneBegins
<1>1. CASE R!ShareCache \/ R!BeginRound \/ R!Stamp \/ R!Publish
  BY <1>1 DEF R!ShareCache, R!BeginRound, R!MayBegin, R!Stamp, R!Publish, R!call
<1>2. CASE R!Land
  BY <1>2 DEF R!Land, R!Aboard
<1>. QED
  BY <1>1, <1>2 DEF R!FlightStep

\* Whatever leaves the calls and the flight alone, and the gate set if it is.
LEMMA CallQuiet ==
    ASSUME CallInv, UNCHANGED <<at, late, phase, leader>>, gate => gate'
    PROVE  CallInv' /\ NoneBegins
BY DEF CallInv, NoneBegins

\* The steps of main leave requests, gate and clients alone, and start the server once.
LEMMA MainLeaves ==
    ASSUME MainStep
    PROVE  UNCHANGED <<reqs, gate, closed>> /\ (las' = las \/ las' = "born")
<1> USE DEF Goto, Exit, Move, Log, server, sequence
<1>1. CASE ConfigFails \/ SelfCheck \/ Wire \/ RegisterSignals \/ Abort
  BY <1>1 DEF ConfigFails, SelfCheck, Wire, RegisterSignals, Abort
<1>2. CASE Launch
  BY <1>2 DEF Launch
<1>3. CASE ServerFailed \/ RootDone \/ ParkServe \/ ReturnServerError
  BY <1>3 DEF ServerFailed, RootDone, ParkServe, ReturnServerError
<1>4. CASE StartShutdown
  BY <1>4 DEF StartShutdown
<1>5. CASE StepsReturned \/ TakeRepeat \/ GraceOver \/ ParkAwait
  BY <1>5 DEF StepsReturned, TakeRepeat, GraceOver, ParkAwait
<1>6. CASE ReturnCompleted \/ ReturnStepError \/ ForceExit \/ TimeOut \/ Return
  BY <1>6 DEF ReturnCompleted, ReturnStepError, ForceExit, TimeOut, Return, Stop, Finish
<1>. QED
  BY <1>1, <1>2, <1>3, <1>4, <1>5, <1>6 DEF MainStep

LEMMA GateStays == [Next]_vars => (gate => gate')
<1> USE DEF Goto, Exit, sequence, vars
<1> SUFFICES ASSUME [Next]_vars, gate
             PROVE  gate'
  OBVIOUS
<1>1. CASE MainStep
  BY <1>1, MainLeaves
<1>2. ASSUME NEW s \in Signals, Raise(s) \/ Deliver(s)
      PROVE  gate'
  BY <1>2 DEF Raise, Deliver
<1>3. CASE CancelRoot \/ Rearm \/ Serve \/ CloseClient \/ Expire
  BY <1>3 DEF CancelRoot, Rearm, Serve, ServerStep, ServerReturns, CloseClient, Expire
<1>4. ASSUME NEW r \in Requests, RequestStep(r)
      PROVE  gate'
  BY <1>4 DEF RequestStep, Connects, RequestBegins, RequestEnds, Becomes
<1>5. CASE SequenceStep
  BY <1>5 DEF SequenceStep, CloseGate, BeginDrain, Poll, PollAgain, DrainCut, ClientsClosed, Report
<1>6. CASE Ended \/ UNCHANGED vars
  BY <1>6 DEF Ended
<1>. QED
  BY <1>1, <1>2, <1>3, <1>4, <1>5, <1>6 DEF Next

\* What Lifecycle does to a request but for beginning and ending it.
LEMMA RunsReqs ==
    ASSUME RunInv, Runs, NEW r \in Requests
    PROVE  /\ reqs[r] \in {"active", "orphan"} => reqs'[r] = reqs[r]
           /\ las' = "unborn" => las = "unborn" /\ (reqs[r] = "new" => reqs'[r] = "new")
<1> USE DEF Goto, Exit, Open, server, RunInv, TypeOK
<1>1. CASE MainStep
  BY <1>1, MainLeaves
<1>2. ASSUME NEW s \in Signals, Raise(s) \/ Deliver(s)
      PROVE  UNCHANGED <<reqs, las>>
  BY <1>2 DEF Raise, Deliver
<1>3. CASE CancelRoot \/ Rearm \/ Serve \/ Expire
  BY <1>3 DEF CancelRoot, Rearm, Serve, ServerStep, ServerReturns, Expire
<1>4. ASSUME NEW q \in Requests, Connects(q)
      PROVE  /\ reqs[r] \in {"active", "orphan"} => reqs'[r] = reqs[r]
             /\ las' # "unborn"
  BY <1>4 DEF Connects, Becomes
<1>5. CASE BeginDrain \/ PollAgain \/ DrainCut \/ ClientsClosed
  BY <1>5 DEF BeginDrain, PollAgain, DrainCut, ClientsClosed, Report
<1>6. CASE Poll
  BY <1>6 DEF Poll
<1>. QED
  BY <1>1, <1>2, <1>3, <1>4, <1>5, <1>6 DEF Runs

LEMMA RunsClients ==
    ASSUME Runs
    PROVE  UNCHANGED closed /\ (las' = "unborn" => las = "unborn")
<1> USE DEF server, sequence
<1>1. CASE MainStep
  <2>1. las = las' \/ las' = "born"
    BY <1>1, MainLeaves
  <2>. QED
    BY <1>1, <2>1, MainLeaves
<1>2. ASSUME NEW s \in Signals, Raise(s) \/ Deliver(s)
      PROVE  UNCHANGED <<closed, las>>
  BY <1>2 DEF Raise, Deliver
<1>3. CASE CancelRoot \/ Rearm \/ Serve \/ Expire
  BY <1>3 DEF CancelRoot, Rearm, Serve, ServerStep, ServerReturns, Expire
<1>4. ASSUME NEW q \in Requests, Connects(q)
      PROVE  UNCHANGED <<closed, las>>
  BY <1>4 DEF Connects, Becomes
<1>5. CASE BeginDrain \/ Poll \/ PollAgain \/ DrainCut \/ ClientsClosed
  BY <1>5 DEF BeginDrain, Poll, PollAgain, DrainCut, ClientsClosed, Report
<1>. QED
  BY <1>1, <1>2, <1>3, <1>4, <1>5 DEF Runs

LEMMA CallInit == ServiceInit => CallInv /\ ServedInv
BY DEF ServiceInit, Init, R!Init, CallInv, Places, ServedInv

LEMMA CallNext ==
    RunInv /\ CallInv /\ ServedInv /\ [ServiceNext]_all => CallInv' /\ ServedInv'
<1> SUFFICES ASSUME RunInv, CallInv, ServedInv, [ServiceNext]_all
             PROVE  CallInv' /\ ServedInv'
  OBVIOUS
<1>0. gate => gate'
  BY RunsAsLifecycle, GateStays
<1>1. ASSUME NEW r \in Requests, HandlerBegins(r)
      PROVE  CallInv' /\ ServedInv'
  <2>1. /\ at[r] = "idle" /\ at' = [at EXCEPT ![r] = "entered"]
        /\ late' = [late EXCEPT ![r] = gate]
        /\ UNCHANGED <<gate, phase, leader>>
    BY <1>1 DEF HandlerBegins, R!Call, R!flight
  <2>2. /\ \/ reqs[r] = "open" /\ reqs' = [reqs EXCEPT ![r] = "active"]
           \/ reqs[r] = "cut" /\ reqs' = [reqs EXCEPT ![r] = "orphan"]
        /\ UNCHANGED las
    BY <1>1 DEF HandlerBegins, RequestBegins, Becomes
  <2>3. reqs[r] = "cut" => gate
    BY DEF RunInv, OrderInv
  <2>4. gate \in BOOLEAN /\ DOMAIN reqs = Requests
    BY DEF RunInv, TypeOK
  <2>5. CallInv'
    BY <2>1, <2>4 DEF CallInv, Places
  <2>6. ServedInv'
    BY <2>1, <2>2, <2>3, <2>4 DEF CallInv, ServedInv
  <2>. QED
    BY <2>5, <2>6
<1>2. ASSUME NEW r \in Requests, HandlerReturns(r)
      PROVE  CallInv' /\ ServedInv'
  <2>1. UNCHANGED <<at, late, phase, leader, las>> /\ at[r] = "idle"
    BY <1>2 DEF HandlerReturns, MayReturn, readiness, RequestEnds, Becomes
  <2>2. \A q \in Requests : q # r => reqs'[q] = reqs[q]
    BY <1>2 DEF HandlerReturns, RequestEnds, Becomes, RunInv, TypeOK
  <2>3. reqs[r] # "new"
    BY <1>2 DEF HandlerReturns, RequestEnds, Becomes
  <2>. QED
    BY <1>0, <2>1, <2>2, <2>3, CallQuiet DEF ServedInv
<1>3. ASSUME CallInv' /\ NoneBegins, UNCHANGED <<reqs, las>>
      PROVE  CallInv' /\ ServedInv'
  BY <1>3 DEF ServedInv, NoneBegins
<1>4. CASE Evaluates
  BY <1>3, <1>4, CallerSteps, FlightSteps DEF Evaluates, running, server
<1>5. CASE World
  BY <1>0, <1>3, <1>5, CallQuiet
     DEF World, running, server, R!Disconnect, R!DepChange, R!ClockStep, R!Tick, R!flight, R!call
<1>6. ASSUME NEW d \in Deps, Build(d) \/ CheckReturns(d)
      PROVE  CallInv' /\ ServedInv'
  BY <1>0, <1>3, <1>6, CallQuiet
     DEF Build, CheckReturns, R!CheckReturns, R!call, running, readiness, vars, server
<1>7. CASE Close
  BY <1>0, <1>3, <1>7, CallQuiet DEF Close, CloseClient, readiness, server
<1>8. CASE SetGate
  BY <1>0, <1>3, <1>8, CallQuiet DEF SetGate, CloseGate, R!BeginShutdown, R!flight, R!call, server
<1>9. CASE Runs
  <2>1. UNCHANGED <<at, late, phase, leader>>
    BY <1>9 DEF Runs, readiness
  <2>2. ASSUME NEW r \in Requests
        PROVE  /\ at'[r] # "idle" => reqs'[r] = "active" \/ (reqs'[r] = "orphan" /\ late'[r])
               /\ las' = "unborn" => reqs'[r] = "new"
    BY <1>9, <2>1, RunsReqs DEF ServedInv
  <2>. QED
    BY <1>0, <2>1, <2>2, CallQuiet DEF ServedInv
<1>10. CASE Over \/ UNCHANGED all
  BY <1>0, <1>3, <1>10, CallQuiet DEF Over, all, vars, readiness, server
<1>. QED
  BY <1>1, <1>2, <1>4, <1>5, <1>6, <1>7, <1>8, <1>9, <1>10 DEF ServiceNext

-----------------------------------------------------------------------------
(* Clients.                                                                 *)

\* While clients are closed every served request is one that the drain lost sight
\* of; it found the gate set, so no round has a leader.
LEMMA NoRoundWhenClosing ==
    ASSUME RunInv, CallInv, ServedInv, step = "dependency_clients" \/ closed > 0
    PROVE  phase = "none"
<1>1. \A r \in Requests : reqs[r] # "active"
  BY DEF RunInv, OrderInv, Active
<1>. QED
  BY <1>1 DEF CallInv, ServedInv

ClientInv ==
    /\ client \in [Deps -> {"unbuilt", "open", "closed"}]
    /\ las = "unborn" => \A d \in Deps : client[d] = "unbuilt"
    /\ \A i \in 1 .. closed : client[Clients[i]] # "open"

LEMMA ClientInit == ServiceInit => ClientInv
BY DEF ServiceInit, Init, ClientInv

LEMMA ClientNext ==
    RunInv /\ CallInv /\ ServedInv /\ ClientInv /\ [ServiceNext]_all => ClientInv'
<1> SUFFICES ASSUME RunInv, CallInv, ServedInv, ClientInv, [ServiceNext]_all
             PROVE  ClientInv'
  OBVIOUS
<1>0. /\ closed \in Nat /\ closed <= Len(Clients) /\ Clients \in Seq(STRING)
      /\ \A i \in 1 .. closed : Clients[i] \in Deps
  BY LifecycleAssumption DEF RunInv, TypeOK, Deps
<1>1. ASSUME UNCHANGED <<client, closed>>, las' = "unborn" => las = "unborn"
      PROVE  ClientInv'
  BY <1>1 DEF ClientInv
<1>2. ASSUME NEW d \in Deps, Build(d)
      PROVE  ClientInv'
  <2>1. phase # "none" /\ UNCHANGED <<las, closed>> /\ client' = [client EXCEPT ![d] = "open"]
    BY <1>2 DEF Build, vars, server, sequence
  <2>2. closed = 0
    BY <1>0, <2>1, NoRoundWhenClosing
  <2>3. las # "unborn"
    BY <2>1 DEF CallInv, ServedInv
  <2>. QED
    BY <2>1, <2>2, <2>3 DEF ClientInv
<1>3. CASE Close
  <2>1. PICK d : d = Clients[closed + 1]
    OBVIOUS
  <2>2. /\ d \in Deps /\ closed' = closed + 1 /\ UNCHANGED las
        /\ client' = [client EXCEPT ![d] = AfterClose(d)]
    BY <1>0, <1>3, <2>1 DEF Close, CloseClient, Deps, server
  <2>3. /\ AfterClose(d) \in {"unbuilt", "closed"}
        /\ client[d] = "unbuilt" => AfterClose(d) = "unbuilt"
    BY <2>2 DEF AfterClose, ClientInv
  <2>4. ASSUME NEW i \in 1 .. closed'
        PROVE  client'[Clients[i]] # "open"
    <3>1. CASE i = closed + 1
      BY <2>1, <2>2, <2>3, <3>1 DEF ClientInv
    <3>2. CASE i # closed + 1
      <4>1. i \in 1 .. closed
        BY <1>0, <2>2, <3>2
      <4>. QED
        BY <1>0, <2>2, <2>3, <4>1 DEF ClientInv
    <3>. QED
      BY <3>1, <3>2
  <2>. QED
    BY <2>2, <2>3, <2>4 DEF ClientInv
<1>4. ASSUME NEW r \in Requests, HandlerBegins(r) \/ HandlerReturns(r)
      PROVE  ClientInv'
  BY <1>1, <1>4 DEF HandlerBegins, HandlerReturns, RequestBegins, RequestEnds, Becomes, sequence
<1>5. ASSUME NEW d \in Deps, CheckReturns(d)
      PROVE  ClientInv'
  BY <1>1, <1>5 DEF CheckReturns, running, server
<1>6. CASE SetGate
  BY <1>1, <1>6 DEF SetGate, CloseGate, server
<1>7. CASE Evaluates \/ World
  BY <1>1, <1>7 DEF Evaluates, World, running, server
<1>8. CASE Runs
  BY <1>1, <1>8, RunsClients DEF Runs
<1>9. CASE Over \/ UNCHANGED all
  BY <1>1, <1>9 DEF Over, all, vars, server, sequence
<1>. QED
  BY <1>2, <1>3, <1>4, <1>5, <1>6, <1>7, <1>8, <1>9 DEF ServiceNext

\* No check meets Close on a client, and none is built behind its back.
THEOREM ClientsHold == ServiceSpec => []ClientsOutliveChecks
<1>1. RunInv /\ CallInv /\ ServedInv /\ ClientInv => ClientsOutliveChecks
  BY NoRoundWhenClosing DEF ClientInv, ClientsOutliveChecks
<1>. QED
  BY RunInit, RunNext, CallInit, CallNext, ClientInit, ClientNext, <1>1, PTL DEF ServiceSpec

\* Exit status 0 leaves no client open and no probe waiting.
THEOREM ExitIsTidy == ServiceSpec => []NothingLeftBehind
<1>1. RunInv /\ CallInv /\ ServedInv /\ ClientInv => NothingLeftBehind
  <2> SUFFICES ASSUME RunInv, CallInv, ServedInv, ClientInv, status = "exit_0"
               PROVE  /\ \A d \in Deps : client[d] # "open"
                      /\ \A r \in Requests : at[r] # "idle" => reqs[r] = "orphan"
    BY DEF NothingLeftBehind
  <2>1. \/ las = "unborn"
        \/ Active = {} /\ closed = Len(Clients)
    BY LifecycleAssumption DEF RunInv, OrderInv, ExitInv
  <2>2. CASE las = "unborn"
    BY <2>2 DEF ServedInv, ClientInv
  <2>3. CASE Active = {} /\ closed = Len(Clients)
    <3>1. \A d \in Deps : \E i \in 1 .. closed : d = Clients[i]
      BY <2>3, LifecycleAssumption DEF Deps
    <3>. QED
      BY <2>3, <3>1 DEF ServedInv, ClientInv, Active
  <2>. QED
    BY <2>1, <2>2, <2>3
<1>. QED
  BY RunInit, RunNext, CallInit, CallNext, ClientInit, ClientNext, <1>1, PTL DEF ServiceSpec

-----------------------------------------------------------------------------
(* Composition: each component behaves in the process as it does alone, so  *)
(* that what its own module promises is promised of the process.            *)

\* Whatever leaves the gate and the readiness path alone is a stutter of Readiness.
LEMMA ReadinessStutters ==
    ASSUME UNCHANGED <<readiness, gate>>
    PROVE  [R!Next]_(R!vars)
BY DEF readiness, R!vars, R!env, R!flight, R!call

LEMMA RunsAsReadiness == [ServiceNext]_all => [R!Next]_(R!vars)
<1> SUFFICES ASSUME [ServiceNext]_all
             PROVE  [R!Next]_(R!vars)
  OBVIOUS
<1>1. ASSUME NEW r \in Requests, HandlerBegins(r)
      PROVE  [R!Next]_(R!vars)
  BY <1>1 DEF HandlerBegins, R!Next
<1>2. ASSUME NEW r \in Requests, HandlerReturns(r)
      PROVE  [R!Next]_(R!vars)
  BY <1>2, ReadinessStutters DEF HandlerReturns, RequestEnds, Becomes, sequence
<1>3. ASSUME NEW d \in Deps, Build(d)
      PROVE  [R!Next]_(R!vars)
  BY <1>3, ReadinessStutters DEF Build, vars, sequence
<1>4. ASSUME NEW d \in Deps, CheckReturns(d)
      PROVE  [R!Next]_(R!vars)
  BY <1>4 DEF CheckReturns, R!Next
<1>5. CASE Close
  BY <1>5, ReadinessStutters DEF Close, CloseClient
<1>6. CASE SetGate
  BY <1>6 DEF SetGate, R!Next
<1>7. CASE Evaluates
  BY <1>7 DEF Evaluates, R!Next
<1>8. CASE World
  BY <1>8 DEF World, R!Next
<1>9. CASE Runs
  <2>1. UNCHANGED gate
    BY <1>9, MainLeaves
       DEF Runs, Raise, Deliver, CancelRoot, Rearm, Serve, ServerStep, ServerReturns,
           Connects, Becomes, BeginDrain, Poll, PollAgain, DrainCut, ClientsClosed, Report,
           Expire, sequence
  <2>. QED
    BY <1>9, <2>1, ReadinessStutters DEF Runs
<1>10. CASE Over \/ UNCHANGED all
  BY <1>10, ReadinessStutters DEF Over, all, vars, sequence
<1>. QED
  BY <1>1, <1>2, <1>3, <1>4, <1>5, <1>6, <1>7, <1>8, <1>9, <1>10 DEF ServiceNext

\* The safety part of Readiness, with the requests as its callers: a process that
\* starts, serves and shuts down evaluates readiness as the module says.
THEOREM ReadinessInside == ServiceSpec => R!Init /\ [][R!Next]_(R!vars)
<1>1. ServiceInit => R!Init
  BY DEF ServiceInit
<1>. QED
  BY <1>1, RunsAsReadiness, PTL DEF ServiceSpec

\* The safety part of Lifecycle: probes, rounds and clients change nothing in how the
\* process starts and stops.
THEOREM LifecycleInside == ServiceSpec => Init /\ [][Next]_vars
<1>1. ServiceInit => Init
  BY DEF ServiceInit
<1>. QED
  BY <1>1, RunsAsLifecycle, PTL DEF ServiceSpec

\* So the whole process goes through its phases as Phases says (FR-019, FR-021 to FR-023).
THEOREM ServiceFollowsPhases == ServiceSpec => FollowsPhases
  BY LifecycleInside, AllInit, AllNext, PhasesInit, PhasesNext, PTL DEF FollowsPhases, Ph!Spec

\* And the guarantees of startup and shutdown hold of it.
THEOREM ServiceRunsSafely ==
    ServiceSpec => [](/\ ClosedAfterDrain /\ CleanExit /\ NeverHalfStarted
                      /\ ForcedByRepeat /\ GuardedWhileWorking
                      /\ NoLostWakeup /\ OutcomeOnRecord)
<1>1. AllInv => /\ ClosedAfterDrain /\ CleanExit /\ NeverHalfStarted
                /\ ForcedByRepeat /\ GuardedWhileWorking
                /\ NoLostWakeup /\ OutcomeOnRecord
  BY AllSafe
<1>. QED
  BY LifecycleInside, AllInit, AllNext, <1>1, PTL

\* A call that ends with the gate set has hit the cache or is refused.
LEMMA AnsweredInside ==
    ASSUME CallInv, R!Next, NEW c \in Requests, R!Answered(c), gate
    PROVE  R!HitCache(c) \/ sent' = R!ShutdownReply
<1> USE DEF CallInv, Places, R!Answered
<1>1. ASSUME NEW b \in Requests,
             \/ R!Call(b) \/ R!PassGate(b) \/ R!MissCache(b) \/ R!LeadFlight(b)
             \/ R!JoinFlight(b) \/ R!Disconnect(b)
      PROVE  FALSE
  BY <1>1 DEF R!Call, R!PassGate, R!MissCache, R!LeadFlight, R!JoinFlight, R!Disconnect, R!Goto
<1>2. ASSUME NEW b \in Requests, R!RefuseAtGate(b) \/ R!RefuseAfterRound(b)
      PROVE  sent' = R!ShutdownReply
  BY <1>2 DEF R!RefuseAtGate, R!RefuseAfterRound, R!Answer
<1>3. ASSUME NEW b \in Requests, R!HitCache(b)
      PROVE  R!HitCache(c)
  BY <1>3 DEF R!HitCache, R!Answer
<1>4. ASSUME NEW b \in Requests
      PROVE  ~R!AnswerRound(b)
  BY DEF R!AnswerRound
<1>5. ~(R!ShareCache \/ R!BeginRound \/ R!Stamp \/ R!Publish)
  BY DEF R!ShareCache, R!BeginRound, R!Stamp, R!Publish, R!call
<1>6. ~R!Land
  BY DEF R!Land, R!Aboard
<1>7. ~\E d \in Deps : R!CheckReturns(d) \/ R!DepChange(d)
  BY DEF R!CheckReturns, R!DepChange, R!call
<1>8. ~(R!BeginShutdown \/ R!ClockStep \/ R!Tick \/ R!Rest)
  BY DEF R!BeginShutdown, R!ClockStep, R!Tick, R!Rest, R!call
<1>. QED
  BY <1>1, <1>2, <1>3, <1>4, <1>5, <1>6, <1>7, <1>8 DEF R!Next, R!CallerStep, R!FlightStep

\* FR-020 in the whole process: what is answered 200 once the first shutdown step has
\* set the gate was called before it and found the cache fresh.
THEOREM ServiceDrainIsFinal == ServiceSpec => R!DrainIsFinal
<1>1. RunInv /\ CallInv /\ [R!Next]_(R!vars) =>
         [\A c \in Requests :
             R!Answered(c) /\ gate /\ sent'.code = 200 => ~late[c] /\ at[c] = "probe"]_(R!vars)
  <2> SUFFICES ASSUME CallInv, R!Next, NEW c \in Requests, R!Answered(c), gate, sent'.code = 200
               PROVE  ~late[c] /\ at[c] = "probe"
    BY DEF R!vars, R!call, R!Answered
  <2>1. R!HitCache(c) \/ sent' = R!ShutdownReply
    BY AnsweredInside
  <2>2. R!ShutdownReply.code # 200
    BY DEF R!ShutdownReply, R!Refusal
  <2>. QED
    BY <2>1, <2>2 DEF R!HitCache, CallInv
<1>. QED
  BY ReadinessInside, RunInit, RunNext, CallInit, CallNext, <1>1, PTL DEF ServiceSpec, R!DrainIsFinal
=============================================================================
