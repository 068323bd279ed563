------------------------------- MODULE Probe -------------------------------
(***************************************************************************)
(* What the readiness endpoint promises, without saying how: the abstract  *)
(* specification that Readiness implements.                                *)
(*                                                                         *)
(* There is one current result, replaced now and then by a new one.  A     *)
(* report is always a result that was the current one at some moment of    *)
(* the call it answers, never an older one and never one of the caller's   *)
(* own.  Once the gate is set calls are refused, with the current result's *)
(* statuses; only a call that arrived before may still be answered with    *)
(* the current result.  There are no rounds, no cache, no clock and no     *)
(* singleflight here.                                                      *)
(***************************************************************************)
CONSTANTS
    Callers,    \* concurrent calls
    Results,    \* what a round of checks can find
    NoResult,   \* nothing was found yet
    NoReply     \* nothing is sent

CONSTANTS
    Report(_),  \* the reply that reports a result
    Refusal(_)  \* the reply of a process that shuts down, from the current result

VARIABLES
    open,       \* the calls in progress
    current,    \* the current result, or NoResult
    seen,       \* seen[c]: the result the call c holds, or NoResult
    gate,       \* the process shuts down
    late,       \* late[c]: c arrived after the gate was set
    sent        \* the reply of this step, or NoReply

vars == <<open, current, seen, gate, late, sent>>

Init ==
    /\ open = {} /\ current = NoResult
    /\ seen = [c \in Callers |-> NoResult]
    /\ gate = FALSE /\ late = [c \in Callers |-> FALSE]
    /\ sent = NoReply

Arrive(c) ==
    /\ c \notin open
    /\ open' = open \cup {c}
    /\ late' = [late EXCEPT ![c] = gate]
    /\ sent' = NoReply
    /\ UNCHANGED <<current, seen, gate>>

\* A new result; whoever holds the last one keeps it.
Renew ==
    /\ current' \in Results
    /\ sent' = NoReply
    /\ UNCHANGED <<open, seen, gate, late>>

\* Any calls in progress take hold of what is current now.
Adopt ==
    /\ current # NoResult
    /\ \E S \in SUBSET open :
          seen' = [c \in Callers |-> IF c \in S THEN current ELSE seen[c]]
    /\ sent' = NoReply
    /\ UNCHANGED <<open, current, gate, late>>

Leave(c, reply) ==
    /\ c \in open
    /\ open' = open \ {c}
    /\ seen' = [seen EXCEPT ![c] = NoResult]
    /\ late' = [late EXCEPT ![c] = FALSE]
    /\ sent' = reply
    /\ UNCHANGED <<current, gate>>

ReportSeen(c) == ~gate /\ seen[c] # NoResult /\ Leave(c, Report(seen[c]))

ReportCurrent(c) == ~late[c] /\ current # NoResult /\ Leave(c, Report(current))

Refuse(c) == gate /\ Leave(c, Refusal(current))

CloseGate ==
    /\ gate' = TRUE
    /\ sent' = NoReply
    /\ UNCHANGED <<open, current, seen, late>>

\* Steps a client cannot see, other than that nothing is sent in them.
Internal == sent' = NoReply /\ UNCHANGED <<open, current, seen, gate, late>>

Next ==
    \/ \E c \in Callers : Arrive(c) \/ ReportSeen(c) \/ ReportCurrent(c) \/ Refuse(c)
    \/ Renew \/ Adopt \/ CloseGate \/ Internal

Spec == Init /\ [][Next]_vars
=============================================================================
