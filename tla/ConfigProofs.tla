---------------------------- MODULE ConfigProofs ----------------------------
(***************************************************************************)
(* Load agrees with the contract of contracts/configuration.md for every   *)
(* environment, not only those of the model-checked instance.              *)
(*                                                                         *)
(* The inductive invariant says what the list of problems means half way:  *)
(* it is empty exactly when every setting read so far could be read and    *)
(* every rule applied so far passed.                                       *)
(***************************************************************************)
EXTENDS Config, TLAPS, FiniteSetTheorems

Outcomes == {"none", "config", "error"}

Counters ==
    /\ read \in 0 .. 15 /\ applied \in 0 .. 14
    /\ applied > 0 => read = 15

TypeInv ==
    /\ Counters
    /\ DOMAIN env = Settings /\ DOMAIN cfg = Settings
    /\ problems \in Seq([variable : Settings, want : Kinds])
    /\ outcome \in Outcomes

\* The text of s is there and makes no sense.
Unreadable(s) ==
    /\ Present(s)
    /\ \/ s \in Numbers /\ env[s] = Malformed
       \/ s = "KAFKA_BROKERS" /\ Entries(env[s]) = {}

\* What is in the configuration once s has been read.
Settled(s) ==
    IF ~Present(s) \/ Unreadable(s) THEN Default[s]
    ELSE IF s = "KAFKA_BROKERS" THEN Entries(env[s]) ELSE env[s]

\* Rule r finds nothing to complain about.
Passes(r) ==
    /\ r \in Names     => cfg[r] # Blank
    /\ r \in Choices   => cfg[r] \in Allowed[r]
    /\ r \in Addresses => HostPort(cfg[r])
    /\ r \in Durations => DurationFits(r, cfg[r])
    /\ r = "HTTP_PORT" => cfg[r] \in MinPort .. MaxPort
    /\ r = "KAFKA_BROKERS" => \A b \in cfg[r] : HostPort(b)
    /\ r = CrossField  => ~(cfg["HEALTH_CACHE_TTL"] >= cfg["HEALTH_CHECK_TIMEOUT"])

ReadInv ==
    /\ env \in Environments
    /\ \A i \in 1 .. 15 : i <= read => cfg[ReadOrder[i]] = Settled(ReadOrder[i])

ProblemInv ==
    problems = <<>> <=>
       /\ \A i \in 1 .. 15 : i <= read => ~Unreadable(ReadOrder[i])
       /\ \A j \in 1 .. 14 : j <= applied => Passes(RuleOrder[j])

OutcomeInv ==
    /\ outcome = "config" => applied = 14 /\ problems = <<>>
    /\ outcome = "error" => applied = 14 /\ problems # <<>>

\* The setting that rule r complains of.
Target(r) == IF r = CrossField THEN "HEALTH_CACHE_TTL" ELSE r

Inv == TypeInv /\ ReadInv /\ ProblemInv /\ OutcomeInv

-----------------------------------------------------------------------------
LEMMA Lengths == Len(ReadOrder) = 15 /\ Len(RuleOrder) = 14
BY DEF ReadOrder, RuleOrder

LEMMA EverySettingRead == \A s \in Settings : \E i \in 1 .. 15 : ReadOrder[i] = s
BY DEF Settings, Texts, Names, Choices, Addresses, Secrets, Numbers, Durations, ReadOrder

LEMMA OnlySettingsRead == \A i \in 1 .. 15 : ReadOrder[i] \in Settings
BY DEF Settings, Texts, Names, Choices, Addresses, Secrets, Numbers, Durations, ReadOrder

LEMMA EverySettingRuled ==
    \A s \in (Settings \ Secrets) \cup {CrossField} : \E j \in 1 .. 14 : RuleOrder[j] = s
BY DEF Settings, Texts, Names, Choices, Addresses, Secrets, Numbers, Durations, RuleOrder, CrossField

LEMMA OnlySettingsRuled ==
    \A j \in 1 .. 14 : RuleOrder[j] \in (Settings \ Secrets) \cup {CrossField}
BY DEF Settings, Texts, Names, Choices, Addresses, Secrets, Numbers, Durations, RuleOrder, CrossField

LEMMA CrossFieldIsNoSetting == CrossField \notin Settings
BY DEF Settings, Texts, Names, Choices, Addresses, Secrets, Numbers, Durations, CrossField

-----------------------------------------------------------------------------
(* What the steps have in common.                                          *)

\* Every way of reading a setting leaves it settled, and complains of it exactly
\* when its text makes no sense.
ReadOne(s) ==
    /\ Reading(s)
    /\ cfg' = [cfg EXCEPT ![s] = Settled(s)]
    /\ problems' = IF Unreadable(s) THEN Append(problems, Problem(s, "format"))
                                    ELSE problems

LEMMA ReadStep == Read => \E s \in Settings : ReadOne(s)
<1> SUFFICES ASSUME NEW s \in Settings, ReadString(s) \/ ReadParsed(s) \/ ReadList(s)
             PROVE  ReadOne(s)
  BY DEF Read
<1>1. CASE ReadString(s)
  <2>1. s \notin Numbers /\ s # "KAFKA_BROKERS"
    BY <1>1 DEF ReadString, Numbers, Texts, Names, Choices, Addresses, Secrets, Numbers, Durations
  <2> QED
    BY <1>1, <2>1 DEF ReadString, Take, ReadOne, Settled, Unreadable
<1>2. CASE ReadParsed(s)
  <2>1. s \in Numbers /\ s # "KAFKA_BROKERS"
    BY <1>2 DEF ReadParsed, Numbers, Durations
  <2> QED
    BY <1>2, <2>1 DEF ReadParsed, Take, Complain, ReadOne, Settled, Unreadable
<1>3. CASE ReadList(s)
  <2>1. s = "KAFKA_BROKERS" /\ s \notin Numbers
    BY <1>3 DEF ReadList, Numbers, Durations
  <2> QED
    BY <1>3, <2>1 DEF ReadList, Take, Complain, ReadOne, Settled, Unreadable
<1> QED
  BY <1>1, <1>2, <1>3

\* A finite list has only finitely many bad brokers.
LEMMA BrokersFinite ==
    ASSUME env \in Environments
    PROVE  IsFiniteSet(Settled("KAFKA_BROKERS"))
<1> DEFINE k == "KAFKA_BROKERS"
<1>1. IsFiniteSet(Default[k])
  <2>1. Default[k] = {Local(9092)}
    BY DEF Default
  <2>2. IsFiniteSet({Local(9092)})
    BY FS_Singleton
  <2> QED
    BY <2>1, <2>2
<1>2. ASSUME Present(k) PROVE IsFiniteSet(Entries(env[k]))
  <2>1. IsFiniteSet(env[k])
    BY <1>2, ConfigAssumption DEF Present
  <2> QED
    BY <2>1, FS_Subset DEF Entries
<1>3. CASE Settled(k) = Default[k]
  BY <1>1, <1>3
<1>4. CASE Settled(k) # Default[k]
  <2>1. Present(k) /\ Settled(k) = Entries(env[k])
    BY <1>4 DEF Settled
  <2> QED
    BY <1>2, <2>1
<1> QED
  BY <1>3, <1>4

\* Every rule adds problems exactly when it does not pass.
LEMMA ValidateStep ==
    ASSUME TypeInv, ReadInv, Validate
    PROVE  \E r \in (Settings \ Secrets) \cup {CrossField}, n \in Nat, want \in Kinds :
              Require(r, Target(r), n, want) /\ (n = 0 <=> Passes(r))
<1>1. ASSUME NEW s \in Settings, RequireNonEmpty(s)
      PROVE  Require(s, s, If(cfg[s] = Blank), "text") /\ (If(cfg[s] = Blank) = 0 <=> Passes(s))
            /\ s \notin Secrets
  BY <1>1 DEF RequireNonEmpty, If, Passes, Names, Choices, Addresses, Durations, Secrets, CrossField
<1>2. ASSUME NEW s \in Settings, RequireOneOf(s)
      PROVE  /\ Require(s, s, If(cfg[s] \notin Allowed[s]), "choice")
             /\ If(cfg[s] \notin Allowed[s]) = 0 <=> Passes(s)
             /\ s \notin Secrets
  BY <1>2 DEF RequireOneOf, If, Passes, Names, Choices, Addresses, Durations, Secrets, CrossField
<1>3. ASSUME NEW s \in Settings, RequirePort(s)
      PROVE  /\ Require(s, s, If(cfg[s] \notin MinPort .. MaxPort), "range")
             /\ If(cfg[s] \notin MinPort .. MaxPort) = 0 <=> Passes(s)
             /\ s \notin Secrets
  BY <1>3 DEF RequirePort, If, Passes, Names, Choices, Addresses, Durations, Secrets, CrossField
<1>4. ASSUME NEW s \in Settings, RequireDuration(s)
      PROVE  /\ Require(s, s, If(~DurationFits(s, cfg[s])), "range")
             /\ If(~DurationFits(s, cfg[s])) = 0 <=> Passes(s)
             /\ s \notin Secrets
  BY <1>4 DEF RequireDuration, If, Passes, Names, Choices, Addresses, Durations, Secrets, CrossField
<1>5. ASSUME NEW s \in Settings, RequireHostPort(s)
      PROVE  /\ Require(s, s, If(~HostPort(cfg[s])), "address")
             /\ If(~HostPort(cfg[s])) = 0 <=> Passes(s)
             /\ s \notin Secrets
  BY <1>5 DEF RequireHostPort, If, Passes, Names, Choices, Addresses, Durations, Secrets, CrossField
<1>6. ASSUME NEW s \in Settings, RequireBrokers(s)
      PROVE  \E n \in Nat :
                Require(s, s, n, "address") /\ (n = 0 <=> Passes(s)) /\ s \notin Secrets
  <2> DEFINE Bad == {b \in cfg[s] : ~HostPort(b)}
  <2>1. s = "KAFKA_BROKERS" /\ Require(s, s, Cardinality(Bad), "address")
    BY <1>6 DEF RequireBrokers
  <2>2. cfg[s] = Settled(s)
    <3>1. read = 15
      BY <2>1, Lengths DEF Require
    <3>2. PICK i \in 1 .. 15 : ReadOrder[i] = s
      BY EverySettingRead
    <3> QED
      BY <3>1, <3>2 DEF ReadInv
  <2>3. IsFiniteSet(Bad)
    BY <2>1, <2>2, BrokersFinite, FS_Subset DEF ReadInv
  <2>4. Cardinality(Bad) \in Nat /\ (Cardinality(Bad) = 0 <=> Bad = {})
    BY <2>3, FS_CardinalityType, FS_EmptySet
  <2>5. Bad = {} <=> Passes(s)
    BY <2>1 DEF Passes, Names, Choices, Addresses, Durations, CrossField
  <2> QED
    BY <2>1, <2>4, <2>5 DEF Secrets
<1>7. ASSUME RequireBelow
      PROVE  \E n \in Nat : /\ Require(CrossField, "HEALTH_CACHE_TTL", n, "order")
                            /\ n = 0 <=> Passes(CrossField)
  <2> DEFINE n == If(cfg["HEALTH_CACHE_TTL"] >= cfg["HEALTH_CHECK_TIMEOUT"])
  <2>1. n = 0 <=> Passes(CrossField)
    BY DEF If, Passes, CrossField, Names, Choices, Addresses, Durations
  <2>2. n \in Nat
    BY DEF If
  <2> QED
    BY <1>7, <2>1, <2>2 DEF RequireBelow
<1>8. Target(CrossField) = "HEALTH_CACHE_TTL" /\ \A s \in Settings : Target(s) = s
  BY CrossFieldIsNoSetting DEF Target
<1>9. {"text", "choice", "range", "address", "order"} \subseteq Kinds
  BY DEF Kinds
<1>10. \A s \in Settings : If(cfg[s] = Blank) \in Nat /\ If(cfg[s] \notin Allowed[s]) \in Nat
         /\ If(cfg[s] \notin MinPort .. MaxPort) \in Nat /\ If(~DurationFits(s, cfg[s])) \in Nat
         /\ If(~HostPort(cfg[s])) \in Nat
  BY DEF If
<1>11. CASE \E s \in Settings : RequireNonEmpty(s)
  BY <1>11, <1>1, <1>8, <1>9, <1>10
<1>12. CASE \E s \in Settings : RequireOneOf(s)
  BY <1>12, <1>2, <1>8, <1>9, <1>10
<1>13. CASE \E s \in Settings : RequirePort(s)
  BY <1>13, <1>3, <1>8, <1>9, <1>10
<1>14. CASE \E s \in Settings : RequireDuration(s)
  BY <1>14, <1>4, <1>8, <1>9, <1>10
<1>15. CASE \E s \in Settings : RequireHostPort(s)
  BY <1>15, <1>5, <1>8, <1>9, <1>10
<1>16. CASE \E s \in Settings : RequireBrokers(s)
  BY <1>16, <1>6, <1>8, <1>9
<1>17. CASE RequireBelow
  BY <1>17, <1>7, <1>8, <1>9
<1> QED
  BY <1>11, <1>12, <1>13, <1>14, <1>15, <1>16, <1>17 DEF Validate

-----------------------------------------------------------------------------
(* The inductive invariant.                                                *)

LEMMA InitInv == Init => Inv
BY ConfigAssumption, Lengths
   DEF Init, Inv, TypeInv, Counters, ReadInv, ProblemInv, OutcomeInv, Outcomes, Default,
       Settings, Texts, Names, Choices, Addresses, Secrets, Numbers, Durations

LEMMA ReadKeepsInv ==
    ASSUME Inv, NEW s \in Settings, ReadOne(s)
    PROVE  Inv'
<1>1. read \in 0 .. 14 /\ read' = read + 1 /\ s = ReadOrder[read + 1] /\ applied = 0
  BY Lengths DEF ReadOne, Reading, Inv, TypeInv, Counters
<1>2. UNCHANGED <<env, applied, outcome>> /\ outcome = "none"
  BY DEF ReadOne, Reading
<1>3. \A t \in Settings : Settled(t)' = Settled(t) /\ Unreadable(t)' = Unreadable(t)
  BY <1>2 DEF Settled, Unreadable, Present
<1>4. TypeInv'
  <2>1. problems' \in Seq([variable : Settings, want : Kinds])
    <3>1. Problem(s, "format") \in [variable : Settings, want : Kinds]
      BY DEF Problem, Kinds
    <3>2. problems \in Seq([variable : Settings, want : Kinds])
      BY DEF Inv, TypeInv
    <3>3. problems' = problems \/ problems' = Append(problems, Problem(s, "format"))
      BY DEF ReadOne
    <3>4. \A P : \A q \in Seq(P), x \in P : Append(q, x) \in Seq(P)
      OBVIOUS
    <3>5. Append(problems, Problem(s, "format")) \in Seq([variable : Settings, want : Kinds])
      BY <3>1, <3>2, <3>4, Zenon
    <3> QED
      BY <3>2, <3>3, <3>5, Zenon
  <2> QED
    BY <1>1, <1>2, <2>1 DEF ReadOne, Inv, TypeInv, Counters
<1>5. ReadInv'
  <2> SUFFICES ASSUME NEW i \in 1 .. 15, i <= read'
               PROVE  cfg'[ReadOrder[i]] = Settled(ReadOrder[i])
    BY <1>2, <1>3, OnlySettingsRead DEF ReadInv, Inv
  <2>1. ReadOrder[i] \in DOMAIN cfg
    BY OnlySettingsRead DEF Inv, TypeInv
  <2>2. CASE ReadOrder[i] = s
    BY <2>1, <2>2 DEF ReadOne
  <2>3. CASE ReadOrder[i] # s
    BY <1>1, <2>1, <2>3 DEF ReadOne, Inv, ReadInv
  <2> QED
    BY <2>2, <2>3
<1>6. ProblemInv'
  <2>1. (\A i \in 1 .. 15 : i <= read' => ~Unreadable(ReadOrder[i])')
        <=> (\A i \in 1 .. 15 : i <= read => ~Unreadable(ReadOrder[i])) /\ ~Unreadable(s)
    BY <1>1, <1>3, OnlySettingsRead
  <2>2. problems' = <<>> <=> problems = <<>> /\ ~Unreadable(s)
    BY DEF ReadOne, Inv, TypeInv
  <2> QED
    BY <1>1, <1>2, <2>1, <2>2 DEF Inv, ProblemInv
<1>7. OutcomeInv'
  BY <1>2 DEF OutcomeInv
<1> QED
  BY <1>4, <1>5, <1>6, <1>7 DEF Inv

LEMMA TargetIsSetting ==
    \A r \in (Settings \ Secrets) \cup {CrossField} : Target(r) \in Settings
BY DEF Target, Settings, Numbers, Durations

LEMMA RequireKeepsInv ==
    ASSUME Inv, NEW r \in (Settings \ Secrets) \cup {CrossField}, NEW s \in Settings,
           NEW n \in Nat, NEW want \in Kinds, Require(r, s, n, want), n = 0 <=> Passes(r)
    PROVE  Inv'
<1> DEFINE added == [i \in 1 .. n |-> Problem(s, want)]
<1>1. /\ applied \in 0 .. 13 /\ applied' = applied + 1 /\ r = RuleOrder[applied + 1]
      /\ read = 15
  BY Lengths DEF Require, Inv, TypeInv, Counters
<1>2. UNCHANGED <<env, read, cfg, outcome>> /\ outcome = "none"
  BY DEF Require
<1>3. added \in Seq([variable : Settings, want : Kinds]) /\ (added = <<>> <=> n = 0)
  BY DEF Problem
<1>4. problems' = problems \o added
  BY DEF Require
<1>5. TypeInv'
  BY <1>1, <1>2, <1>3, <1>4 DEF Inv, TypeInv, Counters
<1>6. ReadInv'
  BY <1>2 DEF Inv, ReadInv, Settled, Unreadable, Present
<1>7. ProblemInv'
  <2>1. (\A j \in 1 .. 14 : j <= applied' => Passes(RuleOrder[j])')
        <=> (\A j \in 1 .. 14 : j <= applied => Passes(RuleOrder[j])) /\ Passes(r)
    <3>1. \A q : Passes(q)' = Passes(q)
      BY <1>2 DEF Passes
    <3> QED
      BY <1>1, <3>1
  <2>2. problems' = <<>> <=> problems = <<>> /\ Passes(r)
    BY <1>3, <1>4 DEF Inv, TypeInv
  <2>3. \A i \in 1 .. 15 : (i <= read' => ~Unreadable(ReadOrder[i])')
                           <=> (i <= read => ~Unreadable(ReadOrder[i]))
    BY <1>2 DEF Unreadable, Present
  <2> QED
    BY <2>1, <2>2, <2>3 DEF Inv, ProblemInv
<1>8. OutcomeInv'
  BY <1>2 DEF OutcomeInv
<1> QED
  BY <1>5, <1>6, <1>7, <1>8 DEF Inv

LEMMA NextInv == Inv /\ [Next]_vars => Inv'
<1> SUFFICES ASSUME Inv, [Next]_vars PROVE Inv'
  OBVIOUS
<1>1. CASE Read
  BY <1>1, ReadStep, ReadKeepsInv
<1>2. CASE Validate
  <2>1. PICK r \in (Settings \ Secrets) \cup {CrossField}, n \in Nat, want \in Kinds :
           Require(r, Target(r), n, want) /\ (n = 0 <=> Passes(r))
    BY <1>2, ValidateStep DEF Inv
  <2> QED
    BY <2>1, TargetIsSetting, RequireKeepsInv
<1>3. CASE ReturnError \/ ReturnConfig
  <2>1. UNCHANGED <<env, read, applied, cfg, problems>>
    BY <1>3 DEF ReturnError, ReturnConfig
  <2>2. TypeInv' /\ OutcomeInv'
    BY <1>3, <2>1, Lengths
       DEF ReturnError, ReturnConfig, Inv, TypeInv, Counters, Outcomes, OutcomeInv
  <2>3. ReadInv' /\ ProblemInv'
    BY <2>1 DEF Inv, ReadInv, ProblemInv, Settled, Unreadable, Present, Passes
  <2> QED
    BY <2>2, <2>3 DEF Inv
<1>4. CASE UNCHANGED vars
  BY <1>4 DEF vars, Inv, TypeInv, Counters, ReadInv, ProblemInv, OutcomeInv, Settled,
              Unreadable, Present, Passes
<1> QED
  BY <1>1, <1>2, <1>3, <1>4 DEF Next, Returned

THEOREM InvHolds == Spec => []Inv
BY InitInv, NextInv, PTL DEF Spec

-----------------------------------------------------------------------------
\* Type correctness of Load.
THEOREM TypeCorrect == Spec => []TypeOK
<1>1. Inv => TypeOK
  BY Lengths DEF Inv, TypeInv, Counters, Outcomes, TypeOK
<1> QED
  BY <1>1, InvHolds, PTL

-----------------------------------------------------------------------------
(* From the invariant at the end of Load to the contract.                  *)

LEMMA Bounds ==
    /\ MinPort = 1 /\ MaxPort = LastPort /\ MaxGracePeriod = LongestGrace
    /\ MaxHealthTimeout = LongestTimeout /\ MaxPort \in Int /\ MaxHealthTimeout \in Int
BY DEF MinPort, MaxPort, LastPort, MaxGracePeriod, LongestGrace, MaxHealthTimeout,
       LongestTimeout

LEMMA DefaultsKept ==
    Default["KAFKA_BROKERS"] # {} /\ \A s \in Numbers : Default[s] # Malformed
<1>1. Default["KAFKA_BROKERS"] = {Local(9092)}
  BY DEF Default
<1>2. \A s \in Numbers : Default[s] \in Int
  <2>1. Default["HTTP_PORT"] \in Int
    <3>1. Default["HTTP_PORT"] = DefaultPort
      BY DEF Default
    <3> QED
      BY <3>1, Bounds, ConfigAssumption
  <2>2. \A s \in Durations : Default[s] \in {30000, 2000, 1000}
    BY DEF Default, Durations
  <2> QED
    BY <2>1, <2>2 DEF Numbers
<1> QED
  BY <1>1, <1>2, ConfigAssumption

LEMMA AllPass ==
    ASSUME Inv, applied = 14
    PROVE  /\ \A s \in Settings : cfg[s] = Settled(s)
           /\ problems = <<>> <=>
                 /\ \A s \in Settings : ~Unreadable(s)
                 /\ \A r \in (Settings \ Secrets) \cup {CrossField} : Passes(r)
<1>1. read = 15
  BY DEF Inv, TypeInv, Counters
<1>2. \A s \in Settings : cfg[s] = Settled(s)
  BY <1>1, EverySettingRead DEF Inv, ReadInv
<1>3. (\A s \in Settings : ~Unreadable(s)) <=> \A i \in 1 .. 15 : ~Unreadable(ReadOrder[i])
  BY EverySettingRead, OnlySettingsRead
<1>4. (\A r \in (Settings \ Secrets) \cup {CrossField} : Passes(r))
      <=> \A j \in 1 .. 14 : Passes(RuleOrder[j])
  BY EverySettingRuled, OnlySettingsRuled
<1> QED
  BY <1>1, <1>2, <1>3, <1>4 DEF Inv, ProblemInv

InRange(s, value) ==
    /\ s \in Durations => DurationFits(s, value)
    /\ s = "HTTP_PORT" => value \in MinPort .. MaxPort

\* A setting that is readable and passes its rule keeps its row, and conversely.
LEMMA RowIffPasses ==
    ASSUME NEW s \in Settings, cfg[s] = Settled(s)
    PROVE  Row(s, Effective(env, s))
           <=> ~Unreadable(s) /\ (s \in Secrets \/ Passes(s))
<1>1. CASE s = "KAFKA_BROKERS"
  <2> DEFINE AllGood(S) == \A b \in S : HostPort(b)
  <2>1. Passes(s) <=> AllGood(cfg[s])
    BY <1>1 DEF Passes, Names, Choices, Addresses, Durations, CrossField
  <2>2. \A v : Row(s, v) <=> Entries(v) # {} /\ AllGood(Entries(v))
    BY <1>1 DEF Row, Names, Choices, Addresses, Numbers, Durations
  <2>3. s \notin Secrets /\ s \notin Numbers
    BY <1>1 DEF Secrets, Numbers, Durations
  <2>4. CASE ~Present(s)
    <3>1. ~Unreadable(s) /\ cfg[s] = Default[s] /\ Effective(env, s) = Default[s]
      BY <2>4 DEF Unreadable, Settled, Effective, Present
    <3>2. Default[s] = {Local(9092)}
      BY <1>1 DEF Default
    <3>3. CASE Blank \in Default[s]
      <4>1. Entries(Default[s]) = {} /\ ~AllGood(Default[s])
        BY <3>2, <3>3 DEF Entries, HostPort
      <4> QED
        BY <2>1, <2>2, <2>3, <3>1, <4>1
    <3>4. CASE Blank \notin Default[s]
      <4>1. Entries(Default[s]) = Default[s] /\ Default[s] # {}
        BY <3>2, <3>4 DEF Entries
      <4> QED
        BY <2>1, <2>2, <2>3, <3>1, <4>1
    <3> QED
      BY <3>3, <3>4
  <2>5. CASE Present(s)
    <3>1. Effective(env, s) = env[s]
      BY <2>5 DEF Effective, Present
    <3>2. Unreadable(s) <=> Entries(env[s]) = {}
      BY <1>1, <2>3, <2>5 DEF Unreadable
    <3>3. ~Unreadable(s) => cfg[s] = Entries(env[s])
      BY <1>1, <2>5 DEF Settled
    <3> QED
      BY <2>1, <2>2, <2>3, <3>1, <3>2, <3>3
  <2> QED
    BY <2>4, <2>5
<1>2. CASE s \in Numbers
  <2>1. s \notin Secrets /\ s # "KAFKA_BROKERS"
    BY <1>2 DEF Secrets, Numbers, Durations
  <2>2. \A v : Row(s, v) <=> v # Malformed /\ InRange(s, v)
    <3>1. s \notin Names \cup Choices \cup Addresses /\ s # "KAFKA_BROKERS"
      BY <1>2 DEF Numbers, Durations, Names, Choices, Addresses
    <3>2. ASSUME NEW v PROVE InSpan(s, v) <=> InRange(s, v)
      BY <1>2, Bounds DEF Numbers, Durations, InSpan, InRange, DurationFits
    <3> QED
      BY <1>2, <3>1, <3>2 DEF Row
  <2>3. Passes(s) <=> InRange(s, cfg[s])
    BY <1>2 DEF Passes, InRange, Numbers, Names, Choices, Addresses, Durations, CrossField
  <2>4. CASE ~Present(s)
    <3>1. ~Unreadable(s) /\ cfg[s] = Default[s] /\ Effective(env, s) = Default[s]
      BY <2>4 DEF Unreadable, Settled, Effective, Present
    <3>2. Default[s] # Malformed
      BY <1>2, DefaultsKept
    <3> QED
      BY <2>1, <2>2, <2>3, <3>1, <3>2
  <2>5. CASE Present(s)
    <3>1. Effective(env, s) = env[s]
      BY <2>5 DEF Effective, Present
    <3>2. Unreadable(s) <=> env[s] = Malformed
      BY <1>2, <2>1, <2>5 DEF Unreadable
    <3>3. ~Unreadable(s) => cfg[s] = env[s]
      BY <2>1, <2>5 DEF Settled
    <3> QED
      BY <2>1, <2>2, <2>3, <3>1, <3>2, <3>3
  <2> QED
    BY <2>4, <2>5
<1>3. CASE s \in Texts
  <2>1. s # "KAFKA_BROKERS" /\ s \notin Numbers
    BY <1>3 DEF Texts, Names, Choices, Addresses, Secrets, Numbers, Durations
  <2>2. ~Unreadable(s) /\ cfg[s] = Effective(env, s)
    BY <2>1 DEF Unreadable, Settled, Effective, Present
  <2>3. s # "HTTP_PORT" /\ s # CrossField /\ s \notin Durations /\ s \notin Numbers
    BY <1>3 DEF Texts, Names, Choices, Addresses, Secrets, Numbers, Durations, CrossField
  <2>4. CASE s \in Names
    <3>1. s \notin Choices \cup Addresses \cup Secrets
      BY <2>4 DEF Names, Choices, Addresses, Secrets
    <3> QED
      BY <2>1, <2>2, <2>3, <2>4, <3>1 DEF Row, Passes
  <2>5. CASE s \in Choices
    <3>1. s \notin Names \cup Addresses \cup Secrets
      BY <2>5 DEF Names, Choices, Addresses, Secrets
    <3> QED
      BY <2>1, <2>2, <2>3, <2>5, <3>1 DEF Row, Passes
  <2>6. CASE s \in Addresses
    <3>1. s \notin Names \cup Choices \cup Secrets
      BY <2>6 DEF Names, Choices, Addresses, Secrets
    <3> QED
      BY <2>1, <2>2, <2>3, <2>6, <3>1 DEF Row, Passes
  <2>7. CASE s \in Secrets
    <3>1. s \notin Names \cup Choices \cup Addresses
      BY <2>7 DEF Names, Choices, Addresses, Secrets
    <3> QED
      BY <2>1, <2>2, <2>3, <2>7, <3>1 DEF Row
  <2> QED
    BY <1>3, <2>4, <2>5, <2>6, <2>7 DEF Texts
<1> QED
  BY <1>1, <1>2, <1>3 DEF Settings

\* A service starts only with an environment the contract permits, and is refused
\* only one that it does not.
THEOREM ContractHolds == Spec => []StartsIffPermitted
<1>1. ASSUME Inv PROVE StartsIffPermitted
  <2> DEFINE l == "HEALTH_CACHE_TTL"
             t == "HEALTH_CHECK_TIMEOUT"
  <2> SUFFICES ASSUME applied = 14
               PROVE  Permitted(env) <=> problems = <<>>
    BY <1>1 DEF Inv, OutcomeInv, StartsIffPermitted
  <2>1. \A s \in Settings : cfg[s] = Settled(s)
    BY <1>1, AllPass
  <2>2. Mistakes(env) = {} <=> \A s \in Settings : ~Unreadable(s) /\ (s \in Secrets \/ Passes(s))
    BY <2>1, RowIffPasses DEF Mistakes
  <2>3. l \in Numbers /\ t \in Numbers /\ l \in Settings \ Secrets /\ t \in Settings \ Secrets
    BY DEF Numbers, Durations, Settings, Secrets
  <2>4. Mistakes(env) = {} => cfg[l] = Fallback(env, l) /\ cfg[t] = Fallback(env, t)
    BY <2>1, <2>2, <2>3 DEF Fallback, Effective, Settled, Unreadable, Present, Numbers
  <2>5. Mistakes(env) = {} => cfg[l] \in Int /\ cfg[t] \in Int
    <3>1. ASSUME Passes(l) PROVE cfg[l] \in Int
      <4>1. l \in Durations
        BY DEF Durations
      <4>2. DurationFits(l, cfg[l])
        BY <3>1, <4>1 DEF Passes
      <4>3. \A v : DurationFits(l, v) => v \in Int
        BY Bounds DEF DurationFits
      <4> QED
        BY <4>2, <4>3, Zenon
    <3>2. ASSUME Passes(t) PROVE cfg[t] \in Int
      <4>1. t \in Durations
        BY DEF Durations
      <4>2. DurationFits(t, cfg[t])
        BY <3>2, <4>1 DEF Passes
      <4>3. \A v : DurationFits(t, v) => v \in Int
        BY Bounds DEF DurationFits
      <4> QED
        BY <4>2, <4>3, Zenon
    <3> QED
      BY <2>2, <2>3, <3>1, <3>2
  <2>6. Mistakes(env) = {} => (InOrder(env) <=> Passes(CrossField))
    <3>1. Passes(CrossField) <=> ~(cfg[l] >= cfg[t])
      BY DEF Passes, CrossField, Names, Choices, Addresses, Durations
    <3> QED
      BY <2>4, <2>5, <3>1 DEF InOrder
  <2> QED
    BY <1>1, <2>2, <2>6, AllPass DEF Permitted
<1> QED
  BY <1>1, InvHolds, PTL
-----------------------------------------------------------------------------
(* The report.  Half way, the list names the settings that could not be     *)
(* read so far and those that the rules applied so far complain of.         *)

Blamed ==
    {ReadOrder[i] : i \in {k \in 1 .. 15 : k <= read /\ Unreadable(ReadOrder[k])}}
    \cup {Target(RuleOrder[j]) : j \in {k \in 1 .. 14 : k <= applied /\ ~Passes(RuleOrder[k])}}

NamedInv == Named = Blamed

LEMMA NamedInit == Init => NamedInv
<1> SUFFICES ASSUME Init PROVE Named = {} /\ Blamed = {}
  BY DEF NamedInv
<1>1. read = 0 /\ applied = 0 /\ problems = <<>>
  BY DEF Init
<1>2. Named = {}
  BY <1>1 DEF Named
<1>3. Blamed = {}
  BY <1>1 DEF Blamed
<1> QED
  BY <1>2, <1>3

LEMMA NamedRead ==
    ASSUME Inv, NamedInv, NEW s \in Settings, ReadOne(s)
    PROVE  NamedInv'
<1>1. read \in 0 .. 14 /\ read' = read + 1 /\ s = ReadOrder[read + 1] /\ applied' = 0 /\ applied = 0
  BY Lengths DEF ReadOne, Reading, Inv, TypeInv, Counters
<1>2. \A t : Unreadable(t)' <=> Unreadable(t)
  BY DEF ReadOne, Reading, Unreadable, Present
<1>3. Blamed' = Blamed \cup {t \in {s} : Unreadable(t)}
  <2>1. \A x : x \in Blamed <=> \E i \in 1 .. 15 : i <= read /\ Unreadable(ReadOrder[i]) /\ x = ReadOrder[i]
    BY <1>1 DEF Blamed
  <2>2. \A x : x \in Blamed' <=> \E i \in 1 .. 15 : i <= read + 1 /\ Unreadable(ReadOrder[i]) /\ x = ReadOrder[i]
    BY <1>1, <1>2 DEF Blamed
  <2>3. \A x : x \in Blamed' => x \in Blamed \/ (x = s /\ Unreadable(s))
    BY <1>1, <2>1, <2>2
  <2>4. \A x \in Blamed : x \in Blamed'
    BY <1>1, <2>1, <2>2
  <2>5. Unreadable(s) => s \in Blamed'
    BY <1>1, <2>2
  <2> QED
    BY <2>3, <2>4, <2>5
<1>4. Named' = Named \cup {t \in {s} : Unreadable(t)}
  <2>1. CASE Unreadable(s)
    <3>1. problems' = Append(problems, Problem(s, "format"))
      BY <2>1 DEF ReadOne
    <3>2. /\ DOMAIN problems' = 1 .. Len(problems) + 1 /\ DOMAIN problems = 1 .. Len(problems)
          /\ Len(problems) \in Nat
          /\ \A i \in 1 .. Len(problems) : problems'[i] = problems[i]
          /\ problems'[Len(problems) + 1].variable = s
      BY <3>1 DEF Inv, TypeInv, Problem
    <3>3. Named' = Named \cup {s}
      BY <3>2 DEF Named
    <3> QED
      BY <2>1, <3>3
  <2>2. CASE ~Unreadable(s)
    BY <2>2 DEF ReadOne, Named
  <2> QED
    BY <2>1, <2>2
<1> QED
  BY <1>3, <1>4 DEF NamedInv

LEMMA NamedRequire ==
    ASSUME Inv, NamedInv, NEW r \in (Settings \ Secrets) \cup {CrossField}, NEW n \in Nat,
           NEW want \in Kinds, Require(r, Target(r), n, want), n = 0 <=> Passes(r)
    PROVE  NamedInv'
<1> DEFINE added == [i \in 1 .. n |-> Problem(Target(r), want)]
<1>1. /\ applied \in 0 .. 13 /\ applied' = applied + 1 /\ r = RuleOrder[applied + 1]
      /\ read' = read
  BY Lengths DEF Require, Inv, TypeInv, Counters
<1>2. (\A t : Unreadable(t)' <=> Unreadable(t)) /\ (\A t : Passes(t)' <=> Passes(t))
  BY DEF Require, Unreadable, Present, Passes
<1>3. Blamed' = Blamed \cup {t \in {Target(r)} : ~Passes(r)}
  <2>1. \A x : x \in Blamed <=>
           \/ \E i \in 1 .. 15 : i <= read /\ Unreadable(ReadOrder[i]) /\ x = ReadOrder[i]
           \/ \E j \in 1 .. 14 : j <= applied /\ ~Passes(RuleOrder[j]) /\ x = Target(RuleOrder[j])
    BY DEF Blamed
  <2>2. \A x : x \in Blamed' <=>
           \/ \E i \in 1 .. 15 : i <= read /\ Unreadable(ReadOrder[i]) /\ x = ReadOrder[i]
           \/ \E j \in 1 .. 14 : j <= applied + 1 /\ ~Passes(RuleOrder[j]) /\ x = Target(RuleOrder[j])
    BY <1>1, <1>2 DEF Blamed, Target
  <2>3. \A x : x \in Blamed' => x \in Blamed \/ (x = Target(r) /\ ~Passes(r))
    BY <1>1, <2>1, <2>2
  <2>4. \A x \in Blamed : x \in Blamed'
    BY <1>1, <2>1, <2>2
  <2>5. ~Passes(r) => Target(r) \in Blamed'
    BY <1>1, <2>2
  <2> QED
    BY <2>3, <2>4, <2>5
<1>4. Named' = Named \cup {t \in {Target(r)} : ~Passes(r)}
  <2>1. problems' = problems \o added /\ problems \in Seq([variable : Settings, want : Kinds])
    BY DEF Require, Inv, TypeInv
  <2>2. added \in Seq([variable : Settings, want : Kinds]) /\ Len(added) = n
    BY TargetIsSetting DEF Problem
  <2>3. /\ DOMAIN problems' = 1 .. Len(problems) + n /\ DOMAIN problems = 1 .. Len(problems)
        /\ Len(problems) \in Nat
        /\ \A i \in 1 .. Len(problems) : problems'[i] = problems[i]
        /\ \A i \in Len(problems) + 1 .. Len(problems) + n : problems'[i].variable = Target(r)
    BY <2>1, <2>2 DEF Problem
  <2>4. CASE n = 0
    <3>1. Named' = Named
      BY <2>3, <2>4 DEF Named
    <3> QED
      BY <2>4, <3>1
  <2>5. CASE n > 0
    <3>1. Named' = Named \cup {Target(r)}
      <4>1. \A x \in Named' : x \in Named \cup {Target(r)}
        BY <2>3 DEF Named
      <4>2. \A x \in Named : x \in Named'
        BY <2>3 DEF Named
      <4>3. Target(r) \in Named'
        BY <2>3, <2>5 DEF Named
      <4> QED
        BY <4>1, <4>2, <4>3
    <3> QED
      BY <2>5, <3>1
  <2> QED
    BY <2>4, <2>5
<1> QED
  BY <1>3, <1>4 DEF NamedInv

LEMMA NamedNext == Inv /\ NamedInv /\ [Next]_vars => NamedInv'
<1> SUFFICES ASSUME Inv, NamedInv, [Next]_vars PROVE NamedInv'
  OBVIOUS
<1>1. CASE Read
  BY <1>1, ReadStep, NamedRead
<1>2. CASE Validate
  <2>1. PICK r \in (Settings \ Secrets) \cup {CrossField}, n \in Nat, want \in Kinds :
           Require(r, Target(r), n, want) /\ (n = 0 <=> Passes(r))
    BY <1>2, ValidateStep DEF Inv
  <2> QED
    BY <2>1, NamedRequire
<1>3. CASE ReturnError \/ ReturnConfig \/ UNCHANGED vars
  <2>1. UNCHANGED <<env, read, applied, cfg, problems>>
    BY <1>3 DEF ReturnError, ReturnConfig, vars
  <2>2. (\A t : Unreadable(t)' <=> Unreadable(t)) /\ (\A t : Passes(t)' <=> Passes(t))
    BY <2>1 DEF Unreadable, Present, Passes
  <2> QED
    BY <2>1, <2>2 DEF NamedInv, Named, Blamed, Target
<1> QED
  BY <1>1, <1>2, <1>3 DEF Next, Returned

\* The two numbers that the last rule compares are those in effect.
LEMMA NumberInEffect ==
    ASSUME Inv, NEW s \in Numbers, cfg[s] = Settled(s)
    PROVE  cfg[s] = Fallback(env, s) /\ cfg[s] \in Int
<1>1. s # "KAFKA_BROKERS" /\ s \in Settings
  BY DEF Numbers, Durations, Settings
<1>2. cfg[s] = Fallback(env, s)
  BY <1>1 DEF Settled, Unreadable, Present, Fallback, Effective
<1>3. env[s] \in Int \cup {Unset, Empty, Malformed}
  BY ConfigAssumption DEF Inv, ReadInv
<1>4. Default[s] \in Int
  <2>1. Default["HTTP_PORT"] = DefaultPort
    BY DEF Default
  <2>2. \A d \in Durations : Default[d] \in {30000, 2000, 1000}
    BY DEF Default, Durations
  <2> QED
    BY <2>1, <2>2, Bounds, ConfigAssumption DEF Numbers
<1> QED
  BY <1>1, <1>2, <1>3, <1>4 DEF Settled, Unreadable, Present

\* SC-005: one report names every setting at fault, and no other.
THEOREM ReportHolds == Spec => []ReportIsExact
<1>1. ASSUME Inv, NamedInv PROVE ReportIsExact
  <2> DEFINE l == "HEALTH_CACHE_TTL"
             t == "HEALTH_CHECK_TIMEOUT"
  <2> SUFFICES ASSUME applied = 14
               PROVE  Named = Mistakes(env) \cup (IF InOrder(env) THEN {} ELSE {l})
    BY <1>1 DEF Inv, OutcomeInv, ReportIsExact
  <2>1. (\A s \in Settings : cfg[s] = Settled(s)) /\ read = 15
    BY <1>1, AllPass DEF Inv, TypeInv, Counters
  <2>2. \A s : s \in Mistakes(env) <=>
           s \in Settings /\ (Unreadable(s) \/ (s \notin Secrets /\ ~Passes(s)))
    BY <2>1, RowIffPasses DEF Mistakes
  <2>3. l \in Numbers /\ t \in Numbers /\ l \in Settings \ Secrets /\ t \in Settings \ Secrets
    BY DEF Numbers, Durations, Settings, Secrets
  <2>4. InOrder(env) <=> Passes(CrossField)
    <3>1. Passes(CrossField) <=> ~(cfg[l] >= cfg[t])
      BY DEF Passes, CrossField, Names, Choices, Addresses, Durations
    <3>2. /\ cfg[l] = Fallback(env, l) /\ cfg[l] \in Int
          /\ cfg[t] = Fallback(env, t) /\ cfg[t] \in Int
      BY <1>1, <2>1, <2>3, NumberInEffect
    <3> QED
      BY <3>1, <3>2 DEF InOrder
  <2>5. \A x : x \in Blamed <=>
           \/ \E s \in Settings : Unreadable(s) /\ x = s
           \/ \E r \in (Settings \ Secrets) \cup {CrossField} : ~Passes(r) /\ x = Target(r)
    <3>1. \A x : x \in Blamed <=>
             \/ \E i \in 1 .. 15 : Unreadable(ReadOrder[i]) /\ x = ReadOrder[i]
             \/ \E j \in 1 .. 14 : ~Passes(RuleOrder[j]) /\ x = Target(RuleOrder[j])
      BY <2>1 DEF Blamed
    <3>2. \A x : (\E i \in 1 .. 15 : Unreadable(ReadOrder[i]) /\ x = ReadOrder[i])
                 <=> (\E s \in Settings : Unreadable(s) /\ x = s)
      BY EverySettingRead, OnlySettingsRead
    <3>3. \A x : (\E j \in 1 .. 14 : ~Passes(RuleOrder[j]) /\ x = Target(RuleOrder[j]))
                 <=> (\E r \in (Settings \ Secrets) \cup {CrossField} : ~Passes(r) /\ x = Target(r))
      BY EverySettingRuled, OnlySettingsRuled
    <3> QED
      BY <3>1, <3>2, <3>3
  <2>6. \A x : (\E r \in (Settings \ Secrets) \cup {CrossField} : ~Passes(r) /\ x = Target(r))
               <=> (x \in Settings \ Secrets /\ ~Passes(x)) \/ (x = l /\ ~Passes(CrossField))
    BY CrossFieldIsNoSetting DEF Target
  <2>7. \A x : x \in Named <=> x \in Mistakes(env) \/ (x = l /\ ~InOrder(env))
    BY <1>1, <2>2, <2>4, <2>5, <2>6 DEF NamedInv
  <2> QED
    BY <2>7
<1> QED
  BY <1>1, InvHolds, InitInv, NextInv, NamedInit, NamedNext, PTL DEF Spec
=============================================================================
