---------------------------- MODULE MCReadiness ----------------------------
(* Small instances of Readiness for TLC.                                   *)
EXTENDS Readiness, TLC

CONSTANTS c1, c2, kafka, redis

OneCaller  == {c1}
TwoCallers == {c1, c2}
OneDep     == {kafka}
TwoDeps    == {kafka, redis}

\* Corrections of the wall clock.
Never     == {}
Backwards == {-1}

\* Callers are interchangeable, and so are dependencies; used for safety only.
Interchangeable == Permutations(Callers) \cup Permutations(Deps)

\* The process is not shutting down and every client waits for its answer: what
\* an answer says of the dependencies, without what else can turn it to 503.
PatientSpec == Init /\ [][Next /\ UNCHANGED <<gate, gone>>]_vars /\ Fairness
=============================================================================
