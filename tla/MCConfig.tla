------------------------------ MODULE MCConfig ------------------------------
(* Small instances of Config for TLC.                                      *)
EXTENDS Config, TLC

Host(port) == [host |-> "node", port |-> port]

\* What a setting of each kind may hold, both sides of each of its boundaries.
Samples(s) ==
    CASE s \in Names     -> <<Empty, Blank, "name">>
      [] s \in Choices   -> <<Empty, Blank, "ci", "debug", "other">>
      [] s \in Secrets   -> <<Empty, Blank, "secret">>
      [] s \in Addresses -> <<Empty, Malformed, Host(0), Host(1), Host(65535), Host(65536),
                              [host |-> "", port |-> 9092]>>
      [] s = "HTTP_PORT" -> <<Empty, Malformed, -1, 0, 1, 65535, 65536>>
      [] s = "KAFKA_BROKERS" ->
            <<Empty, {Blank}, {Host(1)}, {Host(1), Blank}, {Malformed, Host(0)},
              {Host(1), Host(65536)}>>
      [] s = "SHUTDOWN_GRACE_PERIOD" -> <<Empty, Malformed, -1, 0, 1, 300000, 300001>>
      [] OTHER -> <<Empty, Malformed, -1, 0, 1, 1999, 2000, 29999, 30000, 30001>>

Numbering == 1 .. 10

\* The i-th sample of setting s; past the last one the setting is not set.
Sample(s, i) == IF i <= Len(Samples(s)) THEN Samples(s)[i] ELSE Unset

\* Any two settings may be set; the others are not.
TwoSet ==
    {[s \in Settings |-> IF s = p THEN Sample(p, i)
                         ELSE IF s = q THEN Sample(q, j) ELSE Unset] :
        p \in Settings, q \in Settings, i \in Numbering, j \in Numbering}

\* Only the settings of the health checks are set.
HealthSet ==
    {[s \in Settings |-> IF s = "HEALTH_CHECK_TIMEOUT" THEN Sample(s, i)
                         ELSE IF s = "HEALTH_CACHE_TTL" THEN Sample(s, j) ELSE Unset] :
        i \in Numbering, j \in Numbering}
=============================================================================
