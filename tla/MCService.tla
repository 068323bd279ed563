----------------------------- MODULE MCService -----------------------------
(* A small instance of Service for TLC.                                    *)
EXTENDS Service

CONSTANTS r1, r2

TwoProbes == {r1, r2}

OneClient == <<"redis">>
MayFail   == {"redis"}
Never     == {}

\* The grace period does not come to the drain's help.  Nothing but the name tells
\* the two signals apart; whether a dependency that is down comes up again makes no
\* difference to a process that stops; and of two clients it is enough that one goes
\* away, be it the leader's or a follower's.
Narrow ==
    /\ grace' # "expired" /\ pending'["SIGINT"] = 0
    /\ UNCHANGED up /\ ~gone'[r2]

SmallSpec == ServiceInit /\ [][ServiceNext /\ Narrow]_all /\ ServiceFairness
=============================================================================
