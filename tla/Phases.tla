------------------------------- MODULE Phases -------------------------------
(***************************************************************************)
(* What whoever supervises a PulseFlow process relies on, without saying   *)
(* how: the abstract specification that Lifecycle implements (FR-019,      *)
(* FR-021, FR-022, FR-023).                                                *)
(*                                                                         *)
(* A process starts, serves, stops, returns and has ended, in this order,  *)
(* and leaves a phase only for its reasons.  While it stops its three      *)
(* steps are taken one after the other and at most once.  There are no     *)
(* goroutines, channels, selects or connections here.                      *)
(***************************************************************************)
EXTENDS Naturals

VARIABLES
    phase,    \* "starting", "serving", "stopping", "returning" or "ended"
    told,     \* how many signals have reached it
    steps,    \* shutdown steps taken: gate, server, clients
    verdict,  \* what they came to: "none", "nil" or "err"
    time,     \* the grace period: "unset", "running" or "expired"
    result    \* "none", the status it will return, or how it ended

vars == <<phase, told, steps, verdict, time, result>>

AllSteps == 3

Init ==
    /\ phase = "starting" /\ told = 0
    /\ steps = 0 /\ verdict = "none" /\ time = "unset"
    /\ result = "none"

Enter(from, to) == phase = from /\ phase' = to

\* The end is the end: nothing is told to, or done by, a process that is gone.
Tell ==
    /\ phase # "ended"
    /\ told' = told + 1
    /\ UNCHANGED <<phase, steps, verdict, time, result>>

\* It refuses to start, was told to stop too early, or had only a question to ask.
Decline ==
    /\ Enter("starting", "returning")
    /\ result' \in {"exit_0", "exit_1"}
    /\ UNCHANGED <<told, steps, verdict, time>>

Serve ==
    /\ Enter("starting", "serving")
    /\ UNCHANGED <<told, steps, verdict, time, result>>

\* Its server gives up: always a failure, and nothing is shut down.
LoseServer ==
    /\ Enter("serving", "returning")
    /\ result' = "exit_1"
    /\ UNCHANGED <<told, steps, verdict, time>>

\* It stops only when it is told to.
Stop ==
    /\ told >= 1
    /\ Enter("serving", "stopping")
    /\ time' = "running"
    /\ UNCHANGED <<told, steps, verdict, result>>

Step ==
    /\ phase = "stopping" /\ verdict = "none" /\ steps < AllSteps
    /\ steps' = steps + 1
    /\ IF steps' = AllSteps THEN verdict' \in {"nil", "err"} ELSE UNCHANGED verdict
    /\ UNCHANGED <<phase, told, time, result>>

\* The server is not drained in time, and no later step is taken.
Abandon ==
    /\ phase = "stopping" /\ verdict = "none" /\ steps = 1 /\ time = "expired"
    /\ verdict' = "err"
    /\ UNCHANGED <<phase, told, steps, time, result>>

Expire ==
    /\ phase \in {"stopping", "returning"} /\ time = "running"
    /\ time' = "expired"
    /\ UNCHANGED <<phase, told, steps, verdict, result>>

\* Whatever else happened, steps that succeeded mean success and others failure.
Return ==
    /\ verdict # "none"
    /\ Enter("stopping", "returning")
    /\ result' = IF verdict = "nil" THEN "exit_0" ELSE "exit_1"
    /\ UNCHANGED <<told, steps, verdict, time>>

\* Told again, or out of time: it ends where it stands and takes no further step.
GiveUp ==
    /\ told >= 2 \/ time = "expired"
    /\ Enter("stopping", "ended")
    /\ result' = "exit_1"
    /\ UNCHANGED <<told, steps, verdict, time>>

End ==
    /\ Enter("returning", "ended")
    /\ UNCHANGED <<told, steps, verdict, time, result>>

\* A signal kills it only before it serves and after all is done.
Kill ==
    /\ phase \in {"starting", "returning"}
    /\ phase' = "ended"
    /\ result' = "killed"
    /\ UNCHANGED <<told, steps, verdict, time>>

Next ==
    \/ Tell \/ Decline \/ Serve \/ LoseServer \/ Stop
    \/ Step \/ Abandon \/ Expire \/ Return \/ GiveUp
    \/ End \/ Kill

Spec == Init /\ [][Next]_vars
=============================================================================
