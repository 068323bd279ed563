-------------------------- MODULE ReadinessProofs --------------------------
(* Proofs about Readiness, for every number of callers and dependencies and *)
(* every TTL, Timeout and Overrun the configuration admits.                 *)
EXTENDS Readiness, TLAPS

USE DEF Healthy, Failed, TimedOut, Cancelled, Running, Unchecked, Aboard, MayBegin, Stored
-----------------------------------------------------------------------------
(* Type correctness.  A response is built from the fields of a result, so   *)
(* its type rests on there being one: nobody lands without a value.         *)

TypeInv ==
    /\ TypeOK
    /\ skew \in -MaxSkew .. MaxSkew
    /\ phase \in {"stamped", "published"} => product # NoResult
    /\ \A c \in Callers : pc[c] = "landed" => val[c] # NoResult

\* Responses built from a result, and from whatever the cache holds, are replies.
LEMMA RespondType ==
    ASSUME NEW r \in Results
    PROVE  Respond(r) \in Replies
BY DEF Respond, Results, Replies, Outcomes

LEMMA ShutdownReplyType ==
    ASSUME cached \in Results \cup {NoResult}
    PROVE  ShutdownReply \in Replies
BY DEF ShutdownReply, Refusal, Results, Replies, Outcomes

\* The initial state is well typed.
LEMMA TypeInit == Init => TypeInv
<1> SUFFICES ASSUME Init PROVE TypeInv
  OBVIOUS
<1>1. now \in Nat /\ skew \in Int /\ skew \in -MaxSkew .. MaxSkew /\ began \in Int
  BY ReadinessAssumption DEF Init
<1>2. /\ up \in [Deps -> BOOLEAN] /\ since \in [Deps -> Nat]
      /\ gauge \in [Deps -> {"unset", "up", "down"}]
      /\ answers \in [Deps -> Outcomes \cup {Running}]
  BY DEF Init
<1>. QED
  BY <1>1, <1>2 DEF Init, TypeInv, TypeOK

\* An answer keeps the type if what is sent is a reply.
LEMMA AnswerType ==
    ASSUME TypeInv, NEW c \in Callers, NEW r \in Replies, Answer(c, r)
    PROVE  TypeInv'
BY DEF TypeInv, TypeOK, Answer, env, flight

LEMMA TypeNext == TypeInv /\ [Next]_vars => TypeInv'
<1> SUFFICES ASSUME TypeInv, [Next]_vars
             PROVE  TypeInv'
  OBVIOUS
<1> USE DEF TypeInv, TypeOK, Quiet, Goto, env, flight, call
<1>1. ASSUME NEW c \in Callers, Call(c)
      PROVE  TypeInv'
  BY <1>1 DEF Call
<1>2. ASSUME NEW c \in Callers, RefuseAtGate(c)
      PROVE  TypeInv'
  BY <1>2, ShutdownReplyType, AnswerType DEF RefuseAtGate
<1>3. ASSUME NEW c \in Callers, PassGate(c)
      PROVE  TypeInv'
  BY <1>3 DEF PassGate
<1>4. ASSUME NEW c \in Callers, HitCache(c)
      PROVE  TypeInv'
  BY <1>4, RespondType, AnswerType DEF HitCache, Fresh
<1>5. ASSUME NEW c \in Callers, MissCache(c)
      PROVE  TypeInv'
  BY <1>5 DEF MissCache
<1>6. ASSUME NEW c \in Callers, LeadFlight(c)
      PROVE  TypeInv'
  BY <1>6 DEF LeadFlight
<1>7. ASSUME NEW c \in Callers, JoinFlight(c)
      PROVE  TypeInv'
  BY <1>7 DEF JoinFlight
<1>8. CASE ShareCache
  BY <1>8 DEF ShareCache, Fresh
<1>9. CASE BeginRound
  BY <1>9 DEF BeginRound
<1>10. ASSUME NEW d \in Deps, CheckReturns(d)
       PROVE  TypeInv'
  BY <1>10 DEF CheckReturns
<1>11. CASE Stamp
  <2>1. answers \in [Deps -> Outcomes] /\ Wall \in Int
    BY <1>11 DEF Stamp, Wall
  <2>2. product' \in Results
    BY <1>11, <2>1 DEF Stamp, Results
  <2>3. gauge' \in [Deps -> {"unset", "up", "down"}]
    BY <1>11 DEF Stamp
  <2>. QED
    BY <1>11, <2>2, <2>3, ReadinessAssumption DEF Stamp
<1>12. CASE Publish
  BY <1>12 DEF Publish
<1>13. CASE Land
  BY <1>13 DEF Land
<1>14. ASSUME NEW c \in Callers, RefuseAfterRound(c)
       PROVE  TypeInv'
  BY <1>14, ShutdownReplyType, AnswerType DEF RefuseAfterRound
<1>15. ASSUME NEW c \in Callers, AnswerRound(c)
       PROVE  TypeInv'
  BY <1>15, RespondType, AnswerType DEF AnswerRound
<1>16. ASSUME NEW c \in Callers, Disconnect(c)
       PROVE  TypeInv'
  BY <1>16 DEF Disconnect
<1>17. CASE BeginShutdown
  BY <1>17 DEF BeginShutdown
<1>18. ASSUME NEW d \in Deps, DepChange(d)
       PROVE  TypeInv'
  BY <1>18 DEF DepChange
<1>19. CASE ClockStep
  BY <1>19, ReadinessAssumption DEF ClockStep
<1>20. CASE Tick
  BY <1>20 DEF Tick
<1>21. CASE Rest
  BY <1>21 DEF Rest
<1>22. CASE UNCHANGED vars
  BY <1>22 DEF vars
<1>. QED
  BY <1>1, <1>2, <1>3, <1>4, <1>5, <1>6, <1>7, <1>8, <1>9, <1>10, <1>11, <1>12,
     <1>13, <1>14, <1>15, <1>16, <1>17, <1>18, <1>19, <1>20, <1>21, <1>22
     DEF Next, CallerStep, FlightStep

\* Every variable keeps its type.
THEOREM TypeCorrect == Spec => []TypeOK
<1>1. TypeInv => TypeOK
  BY DEF TypeInv
<1>. QED
  BY TypeInit, TypeNext, <1>1, PTL DEF Spec
-----------------------------------------------------------------------------
(* Load: rounds of checks begin at least TTL apart.  The cache is stamped   *)
(* after its round began, so a stamp that is TTL old on the wall clock is   *)
(* TTL old in true time, but for forward corrections of the wall clock: the *)
(* two readings are then off by at most MaxSkew each.                       *)

NeverForwards == \A k \in ClockSteps : k <= 0

\* The least that a stamp was ahead of true time, and what is left of the TTL.
Behind == IF NeverForwards THEN skew ELSE -MaxSkew
Gap    == IF NeverForwards THEN TTL ELSE TTL - 2 * MaxSkew

\* Outside a round the cache holds the last round's result, stamped after the
\* round began; inside one, the result on its way to the cache is.
LoadInv ==
    /\ began <= now
    /\ phase \in {"none", "entered", "published"} =>
          IF cached = NoResult THEN began = -TTL ELSE began + Behind <= cached.at
    /\ phase = "stamped" => began + Behind <= product.at

LEMMA LoadInit == Init => LoadInv
BY ReadinessAssumption DEF Init, LoadInv

\* Steps of callers, and all that leaves the clocks, the cache and the flight alone.
LEMMA LoadQuiet ==
    ASSUME LoadInv, phase' = phase \/ (phase = "none" /\ phase' = "entered"),
           UNCHANGED <<now, skew, cached, began, product>>
    PROVE  LoadInv'
BY DEF LoadInv, Behind

LEMMA LoadNext == TypeInv /\ LoadInv /\ [Next]_vars => LoadInv'
<1> SUFFICES ASSUME TypeInv, LoadInv, [Next]_vars
             PROVE  LoadInv'
  OBVIOUS
<1> USE DEF env, flight, call
<1>1. ASSUME NEW c \in Callers, Call(c) \/ CallerStep(c) \/ Disconnect(c)
      PROVE  LoadInv'
  BY <1>1, LoadQuiet
     DEF Call, CallerStep, RefuseAtGate, PassGate, HitCache, MissCache, LeadFlight,
         JoinFlight, RefuseAfterRound, AnswerRound, Answer, Disconnect
<1>2. CASE ShareCache
  BY <1>2 DEF ShareCache, LoadInv, Behind
<1>3. CASE BeginRound
  BY <1>3 DEF BeginRound, LoadInv, TypeInv, TypeOK
<1>4. CASE Stamp
  <2>1. Behind <= skew /\ Behind \in Int
    BY ReadinessAssumption DEF Behind, TypeInv, TypeOK
  <2>2. product'.at = now + skew /\ UNCHANGED <<now, began, Behind>>
    BY <1>4 DEF Stamp, Wall, Behind
  <2>. QED
    BY <1>4, <2>1, <2>2 DEF Stamp, LoadInv, TypeInv, TypeOK
<1>5. CASE Publish
  BY <1>5 DEF Publish, LoadInv, Behind, TypeInv, TypeOK
<1>6. CASE Land
  BY <1>6 DEF Land, LoadInv, Behind
<1>7. ASSUME NEW d \in Deps, CheckReturns(d) \/ DepChange(d)
      PROVE  LoadInv'
  BY <1>7, LoadQuiet DEF CheckReturns, DepChange
<1>8. CASE BeginShutdown \/ Rest \/ UNCHANGED vars
  BY <1>8, LoadQuiet DEF BeginShutdown, Rest, vars
<1>9. CASE ClockStep
  <2>1. Behind' \in Int /\ Behind' <= Behind
    BY <1>9, ReadinessAssumption DEF ClockStep, Behind, NeverForwards, TypeInv, TypeOK
  <2>2. cached # NoResult => cached.at \in Int
    BY DEF TypeInv, TypeOK, Results
  <2>3. product # NoResult => product.at \in Int
    BY DEF TypeInv, TypeOK, Results
  <2>4. Behind \in Int /\ began \in Int
    BY ReadinessAssumption DEF Behind, TypeInv, TypeOK
  <2>. QED
    BY <1>9, <2>1, <2>2, <2>3, <2>4 DEF ClockStep, LoadInv, TypeInv
<1>10. CASE Tick
  BY <1>10 DEF Tick, LoadInv, Behind, TypeInv, TypeOK
<1>. QED
  BY <1>1, <1>2, <1>3, <1>4, <1>5, <1>6, <1>7, <1>8, <1>9, <1>10 DEF Next, FlightStep

\* A round begins only on a stale cache, hence that much after the last one began.
LEMMA LoadStep ==
    ASSUME TypeInv, LoadInv, [Next]_vars, phase = "entered", phase' = "checking"
    PROVE  now - began >= Gap
<1> USE DEF env, flight, call
<1>1. BeginRound
  BY DEF Next, CallerStep, FlightStep, Call, RefuseAtGate, PassGate, HitCache,
         MissCache, LeadFlight, JoinFlight, RefuseAfterRound, AnswerRound, Answer,
         Disconnect, ShareCache, Stamp, Publish, Land, CheckReturns, DepChange,
         BeginShutdown, ClockStep, Tick, Rest, vars
<1>2. CASE cached = NoResult
  BY <1>2, ReadinessAssumption DEF LoadInv, Gap, TypeInv, TypeOK
<1>3. CASE cached # NoResult
  <2>1. now + skew - cached.at >= TTL
    BY <1>1, <1>3, ReadinessAssumption DEF BeginRound, Fresh, Wall, TypeInv, TypeOK, Results
  <2>2. began + Behind <= cached.at
    BY <1>3 DEF LoadInv
  <2>3. now \in Int /\ skew \in Int /\ began \in Int /\ cached.at \in Int
    BY <1>3 DEF TypeInv, TypeOK, Results
  <2>4. Behind \in Int /\ Gap \in Int /\ Gap <= TTL + Behind - skew
    BY ReadinessAssumption DEF Behind, Gap, TypeInv, TypeOK
  <2>. QED
    BY <2>1, <2>2, <2>3, <2>4, ReadinessAssumption
<1>. QED
  BY <1>2, <1>3

\* FR-010: however many callers there are, the dependencies are probed at most
\* once per TTL, as long as the wall clock is not corrected forwards.
THEOREM LoadIsBounded ==
    ASSUME NeverForwards
    PROVE  Spec => RoundsSpaced
<1>1. TypeInv /\ LoadInv /\ [Next]_vars =>
         [phase = "entered" /\ phase' = "checking" => now - began >= TTL]_vars
  BY LoadStep DEF Gap
<1>. QED
  BY TypeInit, TypeNext, LoadInit, LoadNext, <1>1, PTL DEF Spec, RoundsSpaced

\* FR-010 on a machine whose clock is corrected either way: a correction shortens
\* the distance between two rounds by no more than the clock can be off, twice.
RoundsSpacedBySkew ==
    [][phase = "entered" /\ phase' = "checking" => now - began >= TTL - 2 * MaxSkew]_vars

THEOREM LoadIsBoundedBySkew == Spec => RoundsSpacedBySkew
<1>1. TypeInv /\ LoadInv /\ [Next]_vars =>
         [phase = "entered" /\ phase' = "checking" => now - began >= TTL - 2 * MaxSkew]_vars
  <2>1. TypeInv /\ now - began >= Gap => now - began >= TTL - 2 * MaxSkew
    BY ReadinessAssumption DEF Gap, TypeInv, TypeOK
  <2>. QED
    BY <2>1, LoadStep
<1>. QED
  BY TypeInit, TypeNext, LoadInit, LoadNext, <1>1, PTL DEF Spec, RoundsSpacedBySkew

-----------------------------------------------------------------------------
(* Freshness: what an answer says of a dependency was true of it no longer  *)
(* ago than the horizon, but for backward corrections of the wall clock.    *)

NeverBackwards == \A k \in ClockSteps : k >= 0

\* The most that a stamp was ahead of true time, and how far an answer may reach back.
Ahead == IF NeverBackwards THEN skew ELSE MaxSkew
Reach == Horizon + (IF NeverBackwards THEN 0 ELSE 2 * MaxSkew)

\* A status observed in a round that began at b: d was then as the status says,
\* so it still is, or has changed since.
Observed(d, outcome, b) ==
    /\ outcome = Healthy => up[d] \/ b <= since[d]
    /\ outcome \in {Failed, TimedOut} => ~up[d] \/ b <= since[d]

Span == Timeout + Overrun

\* A result observed by one round, stamped within its span.
Sound(r) ==
    r # NoResult =>
       /\ r.began <= now
       /\ r.at <= r.began + Span + Ahead
       /\ \A d \in Deps : Observed(d, r.deps[d], r.began)

FreshInv ==
    /\ began <= now
    /\ \A d \in Deps : since[d] <= now
    /\ Sound(cached) /\ Sound(product) /\ \A c \in Callers : Sound(val[c])
    /\ phase \in {"none", "entered"} => \A d \in Deps : answers[d] = Running
    /\ phase = "checking" =>
          now <= began + Span /\ \A d \in Deps : Observed(d, answers[d], began)
    /\ phase \in {"stamped", "published"} => now <= product.began + Reach
    /\ \A c \in Callers : pc[c] = "landed" => now <= val[c].began + Reach

LEMMA FreshInit == Init => FreshInv
BY ReadinessAssumption DEF Init, FreshInv, Sound

\* Steps that leave the world alone, keep what is known and learn nothing new.
LEMMA FreshQuiet ==
    ASSUME FreshInv, UNCHANGED <<now, skew, up, since, cached, product, began, answers>>,
           phase' = phase \/ (phase = "none" /\ phase' = "entered"),
           \A c \in Callers : val'[c] \in {val[c], NoResult},
           \A c \in Callers : pc'[c] = "landed" => pc[c] = "landed" /\ val'[c] = val[c]
    PROVE  FreshInv'
BY DEF FreshInv, Sound, Observed, Reach, Horizon, Span, Ahead

\* A fresh result is within reach.
LEMMA FreshReach ==
    ASSUME TypeInv, FreshInv, Fresh
    PROVE  cached \in Results /\ now <= cached.began + Reach
<1>1. cached \in Results
  BY DEF Fresh, TypeInv, TypeOK
<1>2. now + skew < cached.began + Span + Ahead + TTL
  BY <1>1, ReadinessAssumption
     DEF Fresh, Wall, FreshInv, Sound, Span, Ahead, TypeInv, TypeOK, Results
<1>3. Ahead \in Int /\ Reach \in Int /\ Span + Ahead + TTL <= Reach + skew
  BY ReadinessAssumption DEF Ahead, Reach, Horizon, Span, TypeInv, TypeOK
<1>. QED
  BY <1>1, <1>2, <1>3, ReadinessAssumption DEF Span, TypeInv, TypeOK, Results

LEMMA FreshNext == TypeInv /\ FreshInv /\ [Next]_vars => FreshInv'
<1> SUFFICES ASSUME TypeInv, FreshInv, [Next]_vars
             PROVE  FreshInv'
  OBVIOUS
<1> USE DEF env, flight, call
<1>1. ASSUME NEW c \in Callers, Call(c) \/ CallerStep(c) \/ Disconnect(c)
      PROVE  FreshInv'
  BY <1>1, FreshQuiet
     DEF Call, CallerStep, RefuseAtGate, PassGate, HitCache, MissCache, LeadFlight,
         JoinFlight, RefuseAfterRound, AnswerRound, Answer, Disconnect, Goto,
         TypeInv, TypeOK
<1>2. CASE ShareCache
  <2>1. now <= cached.began + Reach
    BY <1>2, FreshReach DEF ShareCache
  <2>. QED
    BY <1>2, <2>1 DEF ShareCache, FreshInv, Sound, Observed, Reach, Horizon, Span, Ahead
<1>3. CASE BeginRound
  <2>1. now' <= began' + Span
    BY <1>3, ReadinessAssumption DEF BeginRound, Span, TypeInv, TypeOK
  <2>2. \A d \in Deps : Observed(d, answers[d], began)'
    BY <1>3 DEF BeginRound, FreshInv, Observed
  <2>3. began' <= now'
    BY <1>3 DEF BeginRound, TypeInv, TypeOK
  <2>. QED
    BY <1>3, <2>1, <2>2, <2>3 DEF BeginRound, FreshInv, Sound, Observed, Reach, Horizon, Span, Ahead
<1>4. ASSUME NEW d \in Deps, CheckReturns(d)
      PROVE  FreshInv'
  <2>1. \A e \in Deps : Observed(e, answers[e], began)'
    <3>1. PICK outcome \in Outcomes :
             CanReturn(d, outcome) /\ answers' = [answers EXCEPT ![d] = outcome]
      BY <1>4 DEF CheckReturns
    <3>2. Observed(d, outcome, began)
      BY <3>1 DEF CanReturn, Steady, Observed, FreshInv, TypeInv, TypeOK
    <3>. QED
      BY <1>4, <3>1, <3>2 DEF CheckReturns, FreshInv, Observed, TypeInv, TypeOK
  <2>. QED
    BY <1>4, <2>1 DEF CheckReturns, FreshInv, Sound, Observed, Reach, Horizon, Span, Ahead
<1>5. CASE Stamp
  <2>1. /\ product' = [at |-> Wall, began |-> began, deps |-> answers]
        /\ UNCHANGED <<now, skew, up, since, began, cached, val, pc, answers>>
        /\ phase = "checking" /\ phase' = "stamped"
    BY <1>5 DEF Stamp
  <2>2. Sound(product)'
    <3>1. /\ product'.began <= now'
          /\ product'.at <= product'.began + Span + Ahead'
      BY <2>1, ReadinessAssumption DEF FreshInv, Wall, Span, Ahead, TypeInv, TypeOK
    <3>2. \A d \in Deps : Observed(d, product.deps[d], product.began)'
      BY <2>1 DEF FreshInv, Observed
    <3>. QED
      BY <3>1, <3>2 DEF Sound, Span
  <2>3. now' <= product'.began + Reach
    BY <2>1, ReadinessAssumption DEF FreshInv, Span, Reach, Horizon, TypeInv, TypeOK
  <2>. QED
    BY <2>1, <2>2, <2>3 DEF FreshInv, Sound, Observed, Reach, Horizon, Span, Ahead
<1>6. CASE Publish
  BY <1>6 DEF Publish, FreshInv, Sound, Observed, Reach, Horizon, Span, Ahead
<1>7. CASE Land
  BY <1>7 DEF Land, FreshInv, Sound, Observed, Reach, Horizon, Span, Ahead
<1>8. ASSUME NEW d \in Deps, DepChange(d)
      PROVE  FreshInv'
  <2>1. \A e \in Deps : now <= since'[e] \/ UNCHANGED <<up[e], since[e]>>
    BY <1>8 DEF DepChange, TypeInv, TypeOK
  <2>2. \A e \in Deps, b \in Int :
           b <= now => \A o : Observed(e, o, b) => Observed(e, o, b)'
    BY <2>1, <1>8 DEF DepChange, Observed, TypeInv, TypeOK
  <2>3. ASSUME NEW r \in Results \cup {NoResult}, Sound(r)
        PROVE  Sound(r)'
    BY <1>8, <2>2, <2>3 DEF DepChange, Sound, Results, Ahead
  <2>4. Sound(cached)' /\ Sound(product)' /\ \A c \in Callers : Sound(val[c])'
    BY <1>8, <2>3 DEF DepChange, FreshInv, TypeInv, TypeOK
  <2>5. \A e \in Deps : since'[e] <= now
    BY <1>8 DEF DepChange, FreshInv, TypeInv, TypeOK
  <2>6. phase = "checking" => \A e \in Deps : Observed(e, answers[e], began)'
    BY <1>8, <2>2 DEF DepChange, FreshInv, TypeInv, TypeOK
  <2>. QED
    BY <1>8, <2>4, <2>5, <2>6 DEF DepChange, FreshInv, Reach, Horizon, Span, Ahead
<1>9. CASE BeginShutdown \/ Rest \/ UNCHANGED vars
  BY <1>9, FreshQuiet DEF BeginShutdown, Rest, vars
<1>10. CASE ClockStep
  <2>1. Ahead \in Int /\ Ahead' \in Int /\ Ahead <= Ahead'
    BY <1>10, ReadinessAssumption DEF ClockStep, Ahead, NeverBackwards, TypeInv, TypeOK
  <2>2. ASSUME NEW r \in Results \cup {NoResult}, Sound(r)
        PROVE  Sound(r)'
    BY <1>10, <2>1, <2>2, ReadinessAssumption
       DEF ClockStep, Sound, Observed, Span, Results, TypeInv, TypeOK
  <2>3. Sound(cached)' /\ Sound(product)' /\ \A c \in Callers : Sound(val[c])'
    BY <1>10, <2>2 DEF ClockStep, FreshInv, TypeInv, TypeOK
  <2>. QED
    BY <1>10, <2>3 DEF ClockStep, FreshInv, Observed, Reach, Horizon, Span, Ahead
<1>11. CASE Tick
  <2>1. /\ now' = now + 1
        /\ UNCHANGED <<skew, up, since, cached, product, val, pc, phase, began, answers>>
    BY <1>11 DEF Tick
  <2>2. ASSUME NEW r \in Results \cup {NoResult}, Sound(r)
        PROVE  Sound(r)'
    BY <2>1, <2>2 DEF Sound, Observed, Results, Ahead, TypeInv, TypeOK
  <2>3. Sound(cached)' /\ Sound(product)' /\ \A c \in Callers : Sound(val[c])'
    BY <2>1, <2>2 DEF FreshInv, TypeInv, TypeOK
  <2>4. phase = "checking" => now + 1 <= began + Span
    BY <1>11, ReadinessAssumption DEF Tick, Prompt, HardStop, Span, TypeInv, TypeOK
  <2>5. now + 1 >= began /\ \A d \in Deps : since[d] <= now + 1
    BY DEF FreshInv, TypeInv, TypeOK
  <2>6. phase \notin {"stamped", "published"} /\ \A c \in Callers : pc[c] # "landed"
    BY <1>11 DEF Tick, Prompt
  <2>. QED
    BY <2>1, <2>3, <2>4, <2>5, <2>6 DEF FreshInv, Observed, Reach, Horizon, Span, Ahead
<1>. QED
  BY <1>1, <1>2, <1>3, <1>4, <1>5, <1>6, <1>7, <1>8, <1>9, <1>10, <1>11
     DEF Next, FlightStep

\* A call ends with the cached result, with its round's, or refused.
LEMMA AnsweredHow ==
    ASSUME TypeInv, [Next]_vars, NEW c \in Callers, Answered(c)
    PROVE  HitCache(c) \/ AnswerRound(c) \/ sent' = ShutdownReply
<1> USE DEF env, flight, call, TypeInv, TypeOK, Answered
<1>1. ASSUME NEW b \in Callers, Call(b) \/ CallerStep(b) \/ Disconnect(b)
      PROVE  HitCache(c) \/ AnswerRound(c) \/ sent' = ShutdownReply
  BY <1>1 DEF Call, CallerStep, RefuseAtGate, PassGate, HitCache, MissCache, LeadFlight,
              JoinFlight, RefuseAfterRound, AnswerRound, Answer, Goto, Disconnect
<1>2. ~FlightStep
  BY DEF FlightStep, ShareCache, BeginRound, Stamp, Publish, Land
<1>3. ~\E d \in Deps : CheckReturns(d) \/ DepChange(d)
  BY DEF CheckReturns, DepChange
<1>4. ~(BeginShutdown \/ ClockStep \/ Tick \/ Rest \/ UNCHANGED vars)
  BY DEF BeginShutdown, ClockStep, Tick, Rest, vars
<1>. QED
  BY <1>1, <1>2, <1>3, <1>4 DEF Next

\* What is sent, other than a shutdown reply, is a sound result within its horizon.
LEMMA SentIsSound ==
    ASSUME TypeInv, FreshInv, [Next]_vars, NEW c \in Callers, Answered(c),
           ~sent'.shuttingDown
    PROVE  \E r \in Results : /\ Sound(r) /\ now <= r.began + Reach
                              /\ sent' = Respond(r)
<1> USE DEF env, flight, call
<1>1. HitCache(c) \/ AnswerRound(c) \/ sent' = ShutdownReply
  BY AnsweredHow
<1>2. CASE HitCache(c)
  <2>1. cached \in Results /\ now <= cached.began + Reach /\ sent' = Respond(cached)
    BY <1>2, FreshReach DEF HitCache, Answer
  <2>. QED
    BY <2>1 DEF FreshInv
<1>3. CASE AnswerRound(c)
  BY <1>3 DEF AnswerRound, Answer, FreshInv, TypeInv, TypeOK
<1>4. CASE sent' = ShutdownReply
  BY <1>4 DEF ShutdownReply, Refusal
<1>. QED
  BY <1>1, <1>2, <1>3, <1>4

\* The status an answer gives for a dependency was its status within its reach.
LEMMA SentIsRecent ==
    ASSUME TypeInv, FreshInv, [Next]_vars, NEW c \in Callers, NEW d \in Deps,
           Answered(c), ~sent'.shuttingDown
    PROVE  /\ sent'.deps[d] = Healthy => up[d] \/ now - since[d] <= Reach
           /\ sent'.deps[d] \in {Failed, TimedOut} => ~up[d] \/ now - since[d] <= Reach
<1>1. PICK r \in Results : /\ Sound(r) /\ now <= r.began + Reach
                           /\ sent' = Respond(r)
  BY SentIsSound
<1>2. Observed(d, sent'.deps[d], r.began)
  BY <1>1, ReadinessAssumption DEF Sound, Respond
<1>3. r.began <= since[d] => now - since[d] <= Reach
  BY <1>1, ReadinessAssumption DEF Reach, Horizon, TypeInv, TypeOK, Results
<1>. QED
  BY <1>2, <1>3 DEF Observed

\* SC-002: an outage shows within Timeout + Overrun + TTL, as long as the wall
\* clock is not corrected backwards.
THEOREM OutageShows ==
    ASSUME NeverBackwards
    PROVE  Spec => OutageIsSeen
<1>0. Reach = Horizon
  BY ReadinessAssumption DEF Reach, Horizon
<1>1. TypeInv /\ FreshInv /\ [Next]_vars =>
         [\A c \in Callers, d \in Deps :
             Answered(c) /\ ~sent'.shuttingDown /\ sent'.deps[d] = Healthy
                => up[d] \/ Recent(d)]_vars
  BY <1>0, SentIsRecent DEF Recent
<1>. QED
  BY TypeInit, TypeNext, FreshInit, FreshNext, <1>1, PTL DEF Spec, OutageIsSeen

\* SC-004: a recovery shows within the same bound, under the same proviso.
THEOREM RecoveryShows ==
    ASSUME NeverBackwards
    PROVE  Spec => RecoveryIsSeen
<1>0. Reach = Horizon
  BY ReadinessAssumption DEF Reach, Horizon
<1>1. TypeInv /\ FreshInv /\ [Next]_vars =>
         [\A c \in Callers, d \in Deps :
             Answered(c) /\ ~sent'.shuttingDown /\ sent'.deps[d] \in {Failed, TimedOut}
                => ~up[d] \/ Recent(d)]_vars
  BY <1>0, SentIsRecent DEF Recent
<1>. QED
  BY TypeInit, TypeNext, FreshInit, FreshNext, <1>1, PTL DEF Spec, RecoveryIsSeen

\* Both without the proviso: backward corrections keep a result alive, a failure as
\* well as a success, for no longer than the clock can be off, twice (an error to
\* either side).
AnswersRecentBySkew ==
    [][\A c \in Callers, d \in Deps :
          Answered(c) /\ ~sent'.shuttingDown =>
             LET recent == now - since[d] <= Horizon + 2 * MaxSkew
             IN  /\ sent'.deps[d] = Healthy => up[d] \/ recent
                 /\ sent'.deps[d] \in {Failed, TimedOut} => ~up[d] \/ recent]_vars

THEOREM AnswersAreRecentBySkew == Spec => AnswersRecentBySkew
<1>1. ASSUME TypeInv, NEW d \in Deps, now - since[d] <= Reach
      PROVE  now - since[d] <= Horizon + 2 * MaxSkew
  BY <1>1, ReadinessAssumption DEF Reach, Horizon, TypeInv, TypeOK
<1>2. TypeInv /\ FreshInv /\ [Next]_vars =>
         [\A c \in Callers, d \in Deps :
             Answered(c) /\ ~sent'.shuttingDown =>
                LET recent == now - since[d] <= Horizon + 2 * MaxSkew
                IN  /\ sent'.deps[d] = Healthy => up[d] \/ recent
                    /\ sent'.deps[d] \in {Failed, TimedOut} => ~up[d] \/ recent]_vars
  BY <1>1, SentIsRecent
<1>. QED
  BY TypeInit, TypeNext, FreshInit, FreshNext, <1>2, PTL DEF Spec, AnswersRecentBySkew

-----------------------------------------------------------------------------
(* Drain and metrics.                                                       *)

\* The gate is never cleared, and who found it set went no further than it.
DrainInv ==
    \A c \in Callers : late[c] => gate /\ pc[c] \in {"idle", "entered"}

LEMMA DrainInit == Init => DrainInv
BY DEF Init, DrainInv

LEMMA DrainNext == TypeInv /\ DrainInv /\ [Next]_vars => DrainInv'
<1> SUFFICES ASSUME TypeInv, DrainInv, [Next]_vars
             PROVE  DrainInv'
  OBVIOUS
<1> USE DEF env, flight, call, DrainInv, TypeInv, TypeOK
<1>1. ASSUME NEW c \in Callers, Call(c) \/ CallerStep(c) \/ Disconnect(c)
      PROVE  DrainInv'
  BY <1>1 DEF Call, CallerStep, RefuseAtGate, PassGate, HitCache, MissCache, LeadFlight,
              JoinFlight, RefuseAfterRound, AnswerRound, Answer, Goto, Disconnect
<1>2. CASE FlightStep
  BY <1>2 DEF FlightStep, ShareCache, BeginRound, Stamp, Publish, Land
<1>3. ASSUME NEW d \in Deps, CheckReturns(d) \/ DepChange(d)
      PROVE  DrainInv'
  BY <1>3 DEF CheckReturns, DepChange
<1>4. CASE BeginShutdown \/ ClockStep \/ Tick \/ Rest \/ UNCHANGED vars
  BY <1>4 DEF BeginShutdown, ClockStep, Tick, Rest, vars
<1>. QED
  BY <1>1, <1>2, <1>3, <1>4 DEF Next

\* A 200 sent with the gate set comes from the cache: the second look at the gate
\* stops everyone who waited for a round.
LEMMA DrainStep ==
    ASSUME TypeInv, DrainInv, [Next]_vars, NEW c \in Callers, Answered(c), gate,
           sent'.code = 200
    PROVE  ~late[c] /\ pc[c] = "probe"
<1> USE DEF env, flight, call
<1>1. HitCache(c) \/ sent' = ShutdownReply
  BY AnsweredHow DEF AnswerRound
<1>2. ShutdownReply.code # 200
  BY DEF ShutdownReply, Refusal
<1>. QED
  BY <1>1, <1>2 DEF HitCache, DrainInv

\* FR-020: once the gate is set only a caller that passed it earlier and finds a
\* fresh cache is still answered 200.
THEOREM DrainHolds == Spec => DrainIsFinal
<1>1. TypeInv /\ DrainInv /\ [Next]_vars =>
         [\A c \in Callers :
             Answered(c) /\ gate /\ sent'.code = 200 => ~late[c] /\ pc[c] = "probe"]_vars
  BY DrainStep
<1>. QED
  BY TypeInit, TypeNext, DrainInit, DrainNext, <1>1, PTL DEF Spec, DrainIsFinal

\* The gauges tell of r, or of nothing yet.
Shows(r) ==
    \A d \in Deps :
       gauge[d] = CASE r = NoResult -> "unset"
                    [] r # NoResult /\ r.deps[d] = Healthy -> "up"
                    [] OTHER -> "down"

\* They run ahead of the cache only between a round's end and its publication.
GaugeInv == Shows(IF phase = "stamped" THEN product ELSE cached)

LEMMA GaugeInit == Init => GaugeInv
BY DEF Init, GaugeInv, Shows

LEMMA GaugeNext == TypeInv /\ GaugeInv /\ [Next]_vars => GaugeInv'
<1> SUFFICES ASSUME TypeInv, GaugeInv, [Next]_vars
             PROVE  GaugeInv'
  OBVIOUS
<1> USE DEF env, flight, call, GaugeInv, Shows
<1>1. ASSUME NEW c \in Callers, Call(c) \/ CallerStep(c) \/ Disconnect(c)
      PROVE  GaugeInv'
  BY <1>1 DEF Call, CallerStep, RefuseAtGate, PassGate, HitCache, MissCache, LeadFlight,
              JoinFlight, RefuseAfterRound, AnswerRound, Answer, Disconnect
<1>2. CASE ShareCache \/ BeginRound \/ Land
  BY <1>2 DEF ShareCache, BeginRound, Land
<1>3. CASE Stamp
  <2>1. product' # NoResult /\ product'.deps = answers
    BY <1>3, TypeNext DEF Stamp, TypeInv
  <2>. QED
    BY <1>3, <2>1 DEF Stamp
<1>4. CASE Publish
  BY <1>4 DEF Publish
<1>5. ASSUME NEW d \in Deps, CheckReturns(d) \/ DepChange(d)
      PROVE  GaugeInv'
  BY <1>5 DEF CheckReturns, DepChange
<1>6. CASE BeginShutdown \/ ClockStep \/ Tick \/ Rest \/ UNCHANGED vars
  BY <1>6 DEF BeginShutdown, ClockStep, Tick, Rest, vars
<1>. QED
  BY <1>1, <1>2, <1>3, <1>4, <1>5, <1>6 DEF Next, FlightStep

\* Outside a round, the gauges and the cached result agree.
THEOREM GaugesAgree == Spec => []MetricsAgree
<1>1. GaugeInv => MetricsAgree
  BY DEF GaugeInv, Shows, MetricsAgree
<1>. QED
  BY TypeInit, TypeNext, GaugeInit, GaugeNext, <1>1, PTL DEF Spec
-----------------------------------------------------------------------------
(* Waiting.  A flight is led by a caller that cannot leave before it lands, *)
(* and landing releases everyone in it.                                     *)

LEMMA WaitInit == Init => NobodyForgotten
BY DEF Init, NobodyForgotten

\* Whatever leaves the callers where they are, and the flight in progress if it is.
LEMMA WaitQuiet ==
    ASSUME NobodyForgotten, UNCHANGED <<pc, leader>>, phase' = "none" <=> phase = "none"
    PROVE  NobodyForgotten'
BY DEF NobodyForgotten

LEMMA WaitNext == TypeInv /\ NobodyForgotten /\ [Next]_vars => NobodyForgotten'
<1> SUFFICES ASSUME TypeInv, NobodyForgotten, [Next]_vars
             PROVE  NobodyForgotten'
  OBVIOUS
<1> USE DEF env, flight, call
<1>1. ASSUME NEW c \in Callers, Call(c)
      PROVE  NobodyForgotten'
  BY <1>1 DEF Call, NobodyForgotten, TypeInv, TypeOK
<1>2. ASSUME NEW c \in Callers,
             RefuseAtGate(c) \/ HitCache(c) \/ RefuseAfterRound(c) \/ AnswerRound(c)
      PROVE  NobodyForgotten'
  BY <1>2 DEF RefuseAtGate, HitCache, RefuseAfterRound, AnswerRound, Answer,
              NobodyForgotten, TypeInv, TypeOK
<1>3. ASSUME NEW c \in Callers, PassGate(c) \/ MissCache(c) \/ JoinFlight(c)
      PROVE  NobodyForgotten'
  BY <1>3 DEF PassGate, MissCache, JoinFlight, Goto, NobodyForgotten, TypeInv, TypeOK
<1>4. ASSUME NEW c \in Callers, LeadFlight(c)
      PROVE  NobodyForgotten'
  BY <1>4 DEF LeadFlight, Goto, NobodyForgotten, TypeInv, TypeOK
<1>5. ASSUME NEW c \in Callers, Disconnect(c)
      PROVE  NobodyForgotten'
  BY <1>5, WaitQuiet DEF Disconnect
<1>6. CASE ShareCache \/ BeginRound \/ Stamp \/ Publish
  BY <1>6, WaitQuiet DEF ShareCache, BeginRound, Stamp, Publish
<1>7. CASE Land
  BY <1>7 DEF Land, NobodyForgotten
<1>8. ASSUME NEW d \in Deps, CheckReturns(d) \/ DepChange(d)
      PROVE  NobodyForgotten'
  BY <1>8, WaitQuiet DEF CheckReturns, DepChange
<1>9. CASE BeginShutdown \/ ClockStep \/ Tick \/ Rest \/ UNCHANGED vars
  BY <1>9, WaitQuiet DEF BeginShutdown, ClockStep, Tick, Rest, vars
<1>. QED
  BY <1>1, <1>2, <1>3, <1>4, <1>5, <1>6, <1>7, <1>8, <1>9 DEF Next, CallerStep, FlightStep

\* Nobody waits for a round that is over, and none runs without its leader.
THEOREM WaitersHold == Spec => []NobodyForgotten
  BY TypeInit, TypeNext, WaitInit, WaitNext, PTL DEF Spec

-----------------------------------------------------------------------------
(* Refinement: every step of the readiness path is a step of Probe.         *)

\* What a round is about to hand out is what the cache holds.
CarryInv == phase = "published" => product = cached

LEMMA CarryInit == Init => CarryInv
BY DEF Init, CarryInv

LEMMA CarryNext == TypeInv /\ CarryInv /\ [Next]_vars => CarryInv'
<1> SUFFICES ASSUME TypeInv, CarryInv, [Next]_vars
             PROVE  CarryInv'
  OBVIOUS
<1> USE DEF env, flight, call, CarryInv
<1>1. ASSUME NEW c \in Callers, Call(c) \/ CallerStep(c) \/ Disconnect(c)
      PROVE  CarryInv'
  BY <1>1 DEF Call, CallerStep, RefuseAtGate, PassGate, HitCache, MissCache, LeadFlight,
              JoinFlight, RefuseAfterRound, AnswerRound, Answer, Disconnect
<1>2. CASE FlightStep
  BY <1>2 DEF FlightStep, ShareCache, BeginRound, Stamp, Publish, Land
<1>3. ASSUME NEW d \in Deps, CheckReturns(d) \/ DepChange(d)
      PROVE  CarryInv'
  BY <1>3 DEF CheckReturns, DepChange
<1>4. CASE BeginShutdown \/ ClockStep \/ Tick \/ Rest \/ UNCHANGED vars
  BY <1>4 DEF BeginShutdown, ClockStep, Tick, Rest, vars
<1>. QED
  BY <1>1, <1>2, <1>3, <1>4 DEF Next

Open == {c \in Callers : pc[c] # "idle"}

LEMMA ProbeInit == Init => P!Init
BY DEF Init, P!Init

\* A step that sends nothing, ends and begins no call and leaves alone what Probe
\* speaks of is internal.
LEMMA ProbeInternal ==
    ASSUME UNCHANGED <<cached, val, gate, late>>, sent' = NoReply, Open' = Open
    PROVE  P!Next
BY DEF P!Next, P!Internal, Open

LEMMA ProbeAnswer ==
    ASSUME TypeInv, NEW c \in Callers, pc[c] # "idle", pc' = [pc EXCEPT ![c] = "idle"]
    PROVE  c \in Open /\ Open' = Open \ {c}
BY DEF Open, TypeInv, TypeOK

LEMMA ProbeCaller ==
    ASSUME TypeInv, DrainInv, NEW c \in Callers,
           Call(c) \/ CallerStep(c) \/ Disconnect(c)
    PROVE  P!Next
<1> USE DEF env, flight, call, Quiet
<1>1. CASE Call(c)
  <2>1. Open' = Open \cup {c} /\ c \notin Open
    BY <1>1 DEF Call, Open, TypeInv, TypeOK
  <2>. QED
    BY <1>1, <2>1 DEF Call, P!Next, P!Arrive, Open
<1>2. CASE RefuseAtGate(c) \/ RefuseAfterRound(c)
  <2>1. P!Refuse(c)
    BY <1>2, ProbeAnswer
       DEF RefuseAtGate, RefuseAfterRound, ShutdownReply, Answer, P!Refuse, P!Leave, Open
  <2>. QED
    BY <2>1 DEF P!Next
<1>3. CASE HitCache(c)
  <2>1. P!ReportCurrent(c)
    BY <1>3, ProbeAnswer
       DEF HitCache, Fresh, DrainInv, Answer, P!ReportCurrent, P!Leave, Open
  <2>. QED
    BY <2>1 DEF P!Next
<1>4. CASE AnswerRound(c)
  <2>1. P!ReportSeen(c)
    BY <1>4, ProbeAnswer DEF AnswerRound, TypeInv, Answer, P!ReportSeen, P!Leave, Open
  <2>. QED
    BY <2>1 DEF P!Next
<1>5. CASE PassGate(c) \/ MissCache(c) \/ LeadFlight(c) \/ JoinFlight(c)
  <2>1. Open' = Open
    BY <1>5 DEF PassGate, MissCache, LeadFlight, JoinFlight, Goto, Open, TypeInv, TypeOK
  <2>. QED
    BY <1>5, <2>1, ProbeInternal DEF PassGate, MissCache, LeadFlight, JoinFlight, Goto
<1>6. CASE Disconnect(c)
  BY <1>6, ProbeInternal DEF Disconnect, Open
<1>. QED
  BY <1>1, <1>2, <1>3, <1>4, <1>5, <1>6 DEF CallerStep

\* Everyone aboard lands with the product, which is the current result.
LEMMA ProbeLand ==
    ASSUME TypeInv, CarryInv, Land
    PROVE  P!Adopt
<1> DEFINE S == {c \in Callers : Aboard(c)}
<1>1. S \in SUBSET Open
  BY DEF Open
<1>2. Open' = Open
  BY DEF Land, Open, TypeInv, TypeOK
<1>3. cached # NoResult /\ product = cached
  BY DEF Land, CarryInv, TypeInv
<1>4. val' = [c \in Callers |-> IF c \in S THEN cached ELSE val[c]]
  BY <1>3 DEF Land
<1>5. sent' = NoReply /\ UNCHANGED <<cached, gate, late>>
  BY DEF Land, Quiet
<1>. QED
  BY <1>1, <1>2, <1>3, <1>4, <1>5 DEF P!Adopt, Open

LEMMA ProbeNext ==
    TypeInv /\ DrainInv /\ CarryInv /\ [Next]_vars => [P!Next]_P!vars
<1> SUFFICES ASSUME TypeInv, DrainInv, CarryInv, [Next]_vars
             PROVE  P!Next \/ UNCHANGED P!vars
  BY DEF P!vars
<1> USE DEF env, flight, call, Quiet
<1>1. ASSUME NEW c \in Callers, Call(c) \/ CallerStep(c) \/ Disconnect(c)
      PROVE  P!Next
  BY <1>1, ProbeCaller
<1>2. CASE ShareCache \/ BeginRound \/ Stamp
  BY <1>2, ProbeInternal DEF ShareCache, BeginRound, Stamp, Open
<1>3. CASE Publish
  <2>1. cached' \in Results
    BY <1>3 DEF Publish, TypeInv, TypeOK
  <2>. QED
    BY <1>3, <2>1 DEF Publish, P!Next, P!Renew
<1>4. CASE Land
  BY <1>4, ProbeLand DEF P!Next
<1>5. ASSUME NEW d \in Deps, CheckReturns(d) \/ DepChange(d)
      PROVE  P!Next
  BY <1>5, ProbeInternal DEF CheckReturns, DepChange, Open
<1>6. CASE BeginShutdown
  BY <1>6 DEF BeginShutdown, P!Next, P!CloseGate
<1>7. CASE ClockStep \/ Tick \/ Rest
  BY <1>7, ProbeInternal DEF ClockStep, Tick, Rest, Open
<1>8. CASE UNCHANGED vars
  BY <1>8 DEF vars, P!vars
<1>. QED
  BY <1>1, <1>2, <1>3, <1>4, <1>5, <1>6, <1>7, <1>8 DEF Next, FlightStep

\* Every behaviour of the readiness path is one that Probe allows.
THEOREM PromiseKept == Spec => KeepsPromise
<1>1. TypeInv /\ DrainInv /\ CarryInv /\ [Next]_vars => [P!Next]_P!vars
  BY ProbeNext
<1>. QED
  BY TypeInit, TypeNext, DrainInit, DrainNext, CarryInit, CarryNext, ProbeInit, <1>1, PTL
     DEF Spec, KeepsPromise, P!Spec
=============================================================================
