------------------------------- MODULE Config -------------------------------
(***************************************************************************)
(* config.Load (internal/config): every setting is read from the           *)
(* environment in a fixed order, then every rule is applied in a fixed     *)
(* order, and each step only adds to the list of problems; at the end      *)
(* either the configuration or the list is returned.                       *)
(*                                                                         *)
(* A raw value is what strconv, time, strings and net make of the text:    *)
(* Unset or Empty, Blank (only white space), Malformed (they reject it, an *)
(* overflow included), or the value itself.  Durations are milliseconds, a *)
(* list is the set of its trimmed entries, an address its host and port.   *)
(***************************************************************************)
EXTENDS Integers, Sequences, FiniteSets

CONSTANTS
    Environments,    \* the environments a process may be started in
    DefaultPort,     \* ServiceDefaults: 8080 for the API, 8081 for the worker
    Unset, Empty, Blank, Malformed

Names      == {"SERVICE_NAME", "VERSION", "CLICKHOUSE_DATABASE", "CLICKHOUSE_USER"}
Choices    == {"ENVIRONMENT", "LOG_LEVEL"}
Addresses  == {"CLICKHOUSE_ADDR", "REDIS_ADDR"}
Secrets    == {"CLICKHOUSE_PASSWORD", "REDIS_PASSWORD"}
Texts      == Names \cup Choices \cup Addresses \cup Secrets
Durations  == {"SHUTDOWN_GRACE_PERIOD", "HEALTH_CHECK_TIMEOUT", "HEALTH_CACHE_TTL"}
Numbers    == Durations \cup {"HTTP_PORT"}
Settings   == Texts \cup Numbers \cup {"KAFKA_BROKERS"}

\* The order of the fields of the Config literal in Load.
ReadOrder ==
    <<"SERVICE_NAME", "VERSION", "ENVIRONMENT", "HTTP_PORT", "SHUTDOWN_GRACE_PERIOD",
      "LOG_LEVEL", "KAFKA_BROKERS", "CLICKHOUSE_ADDR", "CLICKHOUSE_DATABASE",
      "CLICKHOUSE_USER", "CLICKHOUSE_PASSWORD", "REDIS_ADDR", "REDIS_PASSWORD",
      "HEALTH_CHECK_TIMEOUT", "HEALTH_CACHE_TTL">>

\* The order of validate; its last rule spans two settings.
CrossField == "TTL_BELOW_TIMEOUT"

RuleOrder ==
    <<"SERVICE_NAME", "VERSION", "ENVIRONMENT", "HTTP_PORT", "SHUTDOWN_GRACE_PERIOD",
      "LOG_LEVEL", "KAFKA_BROKERS", "CLICKHOUSE_ADDR", "CLICKHOUSE_DATABASE",
      "CLICKHOUSE_USER", "REDIS_ADDR", "HEALTH_CHECK_TIMEOUT", "HEALTH_CACHE_TTL",
      CrossField>>

MinPort          == 1
MaxPort          == 65535
MaxGracePeriod   == 300000
MaxHealthTimeout == 30000

Allowed == [ENVIRONMENT |-> {"local", "ci", "benchmark"},
            LOG_LEVEL   |-> {"debug", "info", "warn", "error"}]

Local(port) == [host |-> "localhost", port |-> port]

Default ==
    [SERVICE_NAME |-> "pulseflow", VERSION |-> "dev", ENVIRONMENT |-> "local",
     HTTP_PORT |-> DefaultPort, SHUTDOWN_GRACE_PERIOD |-> 30000, LOG_LEVEL |-> "info",
     KAFKA_BROKERS |-> {Local(9092)}, CLICKHOUSE_ADDR |-> Local(9000),
     CLICKHOUSE_DATABASE |-> "pulseflow", CLICKHOUSE_USER |-> "default",
     CLICKHOUSE_PASSWORD |-> Empty, REDIS_ADDR |-> Local(6379), REDIS_PASSWORD |-> Empty,
     HEALTH_CHECK_TIMEOUT |-> 2000, HEALTH_CACHE_TTL |-> 1000]

ASSUME ConfigAssumption ==
    /\ DefaultPort \in MinPort .. MaxPort
    /\ Malformed \notin Int
    /\ \A e \in Environments :
          /\ DOMAIN e = Settings
          /\ \A s \in Numbers : e[s] \in Int \cup {Unset, Empty, Malformed}
          /\ e["KAFKA_BROKERS"] \notin {Unset, Empty} => IsFiniteSet(e["KAFKA_BROKERS"])

VARIABLES
    env,        \* the process's environment, which nothing changes
    read,       \* how many settings have been read
    applied,    \* how many rules have been applied
    cfg,        \* the Config under construction
    problems,   \* collector.problems
    outcome     \* what Load returned: "none", "config" or "error"

vars == <<env, read, applied, cfg, problems, outcome>>

Init ==
    /\ env \in Environments
    /\ read = 0 /\ applied = 0
    /\ cfg = Default
    /\ problems = <<>>
    /\ outcome = "none"

\* Mutant: a problem says which setting, and no longer what it should be.
ProblemNameOnly(setting, want) == [variable |-> setting]

Problem(setting, want) == [variable |-> setting, want |-> want]

-----------------------------------------------------------------------------
(* Reading (parse.go).  What cannot be read is reported and defaulted.     *)

\* lookup: a variable set to nothing counts as not set.
Present(s) == env[s] \notin {Unset, Empty}

Reading(s) ==
    /\ outcome = "none" /\ read < Len(ReadOrder)
    /\ s = ReadOrder[read + 1]
    /\ read' = read + 1
    /\ UNCHANGED <<env, applied, outcome>>

Take(s, value) ==
    /\ cfg' = [cfg EXCEPT ![s] = value]
    /\ UNCHANGED problems

Complain(s) ==
    /\ cfg' = [cfg EXCEPT ![s] = Default[s]]
    /\ problems' = Append(problems, Problem(s, "format"))

ReadString(s) ==
    /\ s \in Texts /\ Reading(s)
    /\ Take(s, IF Present(s) THEN env[s] ELSE Default[s])

\* intVal and duration.
ReadParsed(s) ==
    /\ s \in Numbers /\ Reading(s)
    /\ IF ~Present(s) THEN Take(s, Default[s])
       ELSE IF env[s] = Malformed THEN Complain(s)
       ELSE Take(s, env[s])

\* list: blank entries are dropped, and a list of nothing else is a mistake.
Entries(raw) == raw \ {Blank}

ReadList(s) ==
    /\ s = "KAFKA_BROKERS" /\ Reading(s)
    /\ IF ~Present(s) THEN Take(s, Default[s])
       ELSE IF Entries(env[s]) = {} THEN Complain(s)
       ELSE Take(s, Entries(env[s]))

-----------------------------------------------------------------------------
(* Validation (validate.go).                                               *)

HostPort(a) == a \notin {Blank, Malformed} /\ a.host # "" /\ a.port \in MinPort .. MaxPort

\* Applying rule r adds n problems, all about setting s.
Require(r, s, n, want) ==
    /\ outcome = "none" /\ read = Len(ReadOrder) /\ applied < Len(RuleOrder)
    /\ r = RuleOrder[applied + 1]
    /\ applied' = applied + 1
    /\ problems' = problems \o [i \in 1 .. n |-> Problem(s, want)]
    /\ UNCHANGED <<env, read, cfg, outcome>>

If(broken) == IF broken THEN 1 ELSE 0

RequireNonEmpty(s) ==
    /\ s \in Names
    /\ Require(s, s, If(cfg[s] = Blank), "text")

RequireOneOf(s) ==
    /\ s \in Choices
    /\ Require(s, s, If(cfg[s] \notin Allowed[s]), "choice")

RequirePort(s) ==
    /\ s = "HTTP_PORT"
    /\ Require(s, s, If(cfg[s] \notin MinPort .. MaxPort), "range")

\* Only the cache's lifetime may be zero.
DurationFits(s, value) ==
    /\ s = "SHUTDOWN_GRACE_PERIOD" => value \in 1 .. MaxGracePeriod
    /\ s = "HEALTH_CHECK_TIMEOUT"  => value \in 1 .. MaxHealthTimeout
    /\ s = "HEALTH_CACHE_TTL"      => value \in 0 .. MaxHealthTimeout

RequireDuration(s) ==
    /\ s \in Durations
    /\ Require(s, s, If(~DurationFits(s, cfg[s])), "range")

RequireHostPort(s) ==
    /\ s \in Addresses
    /\ Require(s, s, If(~HostPort(cfg[s])), "address")

\* One problem for each bad broker.  An empty list cannot come out of ReadList.
RequireBrokers(s) ==
    /\ s = "KAFKA_BROKERS"
    /\ Require(s, s, Cardinality({b \in cfg[s] : ~HostPort(b)}), "address")

\* Mutant: a cached failure may live as long as the check that found it.
RequireNotAbove ==
    Require(CrossField, "HEALTH_CACHE_TTL",
            If(cfg["HEALTH_CACHE_TTL"] > cfg["HEALTH_CHECK_TIMEOUT"]), "order")

RequireBelow ==
    Require(CrossField, "HEALTH_CACHE_TTL",
            If(cfg["HEALTH_CACHE_TTL"] >= cfg["HEALTH_CHECK_TIMEOUT"]), "order")

\* Mutant: Load gives up after reading when something could not be read.
ReturnErrorEarly ==
    /\ outcome = "none" /\ read = Len(ReadOrder)
    /\ problems # <<>>
    /\ outcome' = "error"
    /\ UNCHANGED <<env, read, applied, cfg, problems>>

\* main logs the problems and exits with status 1.
ReturnError ==
    /\ outcome = "none" /\ applied = Len(RuleOrder)
    /\ problems # <<>>
    /\ outcome' = "error"
    /\ UNCHANGED <<env, read, applied, cfg, problems>>

ReturnConfig ==
    /\ outcome = "none" /\ applied = Len(RuleOrder)
    /\ problems = <<>>
    /\ outcome' = "config"
    /\ UNCHANGED <<env, read, applied, cfg, problems>>

Returned == outcome # "none" /\ UNCHANGED vars

Read == \E s \in Settings : ReadString(s) \/ ReadParsed(s) \/ ReadList(s)

Validate ==
    \/ \E s \in Settings :
          \/ RequireNonEmpty(s) \/ RequireOneOf(s) \/ RequirePort(s)
          \/ RequireDuration(s) \/ RequireHostPort(s) \/ RequireBrokers(s)
    \/ RequireBelow

Next == Read \/ Validate \/ ReturnError \/ ReturnConfig \/ Returned

Spec == Init /\ [][Next]_vars

-----------------------------------------------------------------------------
(* The contract, stated of an environment without regard to how it is      *)
(* read: the table of contracts/configuration.md.                          *)

\* The value a setting has by contract: its default when nothing is set.
Effective(e, s) == IF e[s] \in {Unset, Empty} THEN Default[s] ELSE e[s]

LastPort       == 65535
LongestGrace   == 300000
LongestTimeout == 30000

\* What a number may be.  That no cache may live for more than 30 s follows from
\* the bound on the timeout it has to stay below.
InSpan(s, value) ==
    /\ s = "HTTP_PORT"             => value \in 1 .. LastPort
    /\ s = "SHUTDOWN_GRACE_PERIOD" => value \in 1 .. LongestGrace
    /\ s = "HEALTH_CHECK_TIMEOUT"  => value \in 1 .. LongestTimeout
    /\ s = "HEALTH_CACHE_TTL"      => value \in 0 .. LongestTimeout

\* The row of each setting, the cross-field rule aside.
Row(s, value) ==
    /\ s \in Names     => value # Blank
    /\ s \in Choices   => value \in Allowed[s]
    /\ s \in Addresses => HostPort(value)
    /\ s \in Numbers   => value # Malformed /\ InSpan(s, value)
    /\ s = "KAFKA_BROKERS" =>
          Entries(value) # {} /\ \A b \in Entries(value) : HostPort(b)

Mistakes(e) == {s \in Settings : ~Row(s, Effective(e, s))}

\* What a setting stands at when its own text is unreadable.
Fallback(e, s) == IF e[s] = Malformed THEN Default[s] ELSE Effective(e, s)

InOrder(e) == Fallback(e, "HEALTH_CACHE_TTL") < Fallback(e, "HEALTH_CHECK_TIMEOUT")

Permitted(e) == Mistakes(e) = {} /\ InOrder(e)

-----------------------------------------------------------------------------
(* Properties.                                                             *)

Kinds == {"format", "text", "choice", "range", "address", "order"}

TypeOK ==
    /\ DOMAIN env = Settings
    /\ read \in 0 .. Len(ReadOrder) /\ applied \in 0 .. Len(RuleOrder)
    /\ DOMAIN cfg = Settings
    /\ problems \in Seq([variable : Settings, want : Kinds])
    /\ outcome \in {"none", "config", "error"}

\* A service starts exactly with the environments the contract permits, whichever
\* helper each rule went through and whatever a malformed value fell back to
\* (FR-015; Load and validate against the table of contracts/configuration.md).
StartsIffPermitted ==
    /\ outcome = "config" => Permitted(env)
    /\ outcome = "error" => ~Permitted(env)

Named == {problems[i].variable : i \in DOMAIN problems}

\* One restart shows every mistake: the report names each setting that breaks its
\* row, however many there are and wherever they come in the order, and it blames
\* no other, except HEALTH_CACHE_TTL when it is not below the timeout in effect.
ReportIsExact ==
    outcome = "error" =>
       Named = Mistakes(env) \cup (IF InOrder(env) THEN {} ELSE {"HEALTH_CACHE_TTL"})

-----------------------------------------------------------------------------
(* What the documents say of the program and the code does not do.         *)

\* data-model.md: the returned error renders one line per failing field.
OneLinePerField ==
    outcome = "error" => Len(problems) = Cardinality(Named)
=============================================================================
