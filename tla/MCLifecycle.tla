---------------------------- MODULE MCLifecycle ----------------------------
(* Small instances of Lifecycle for TLC.                                   *)
EXTENDS Lifecycle

CONSTANTS r1, r2

OneRequest  == {r1}
TwoRequests == {r1, r2}

\* main.go closes the three clients in this order; Kafka's Close returns nil.
ThreeClients == <<"kafka", "clickhouse", "redis">>
MayFail      == {"clickhouse", "redis"}
=============================================================================
