---------------------------- MODULE AttemptContract ----------------------------
(***************************************************************************)
(* What a native task promises about the steps that are worked on for it.  *)
(* Steps are numbered from 0 and attempted in order; a failed attempt is   *)
(* repeated at most MaxRetries times, a completed one is followed by the   *)
(* next step, and no more than MaxSteps steps are used.  Once the task is  *)
(* settled, except by a cancel that the loop has not seen yet, nothing is  *)
(* attempted, and a task is reported completed only on a finished attempt. *)
(***************************************************************************)
EXTENDS Naturals

CONSTANTS MaxSteps, MaxRetries

VARIABLES
    task,      \* the status of the task
    attempt    \* the latest attempt: its step, its number and its result

vars == <<task, attempt>>

Init ==
    /\ task = "running"
    /\ attempt = [order |-> 0, retry |-> 0, result |-> "none"]

\* The position an attempt after a may have.
Follows(order, retry, a) ==
    \/ a.result = "none" /\ order = 0 /\ retry = 0
    \/ a.result = "failed" /\ order = a.order /\ retry = a.retry + 1 /\ retry <= MaxRetries
    \/ a.result = "completed" /\ order = a.order + 1 /\ retry = 0 /\ order < MaxSteps

\* A step may be failed, or completed, without having been worked on.
Begin ==
    /\ task \in {"running", "canceled"}
    /\ \E result \in {"running", "completed", "failed"} :
          \E order \in {attempt.order, attempt.order + 1}, retry \in {0, attempt.retry + 1} :
             /\ Follows(order, retry, attempt)
             /\ attempt' = [order |-> order, retry |-> retry, result |-> result]
    /\ UNCHANGED task

End ==
    /\ attempt.result = "running"
    /\ \E result \in {"completed", "failed"} : attempt' = [attempt EXCEPT !.result = result]
    /\ UNCHANGED task

Settle ==
    /\ task' \in {"completed", "failed", "terminated", "canceled", "timed_out"}
    /\ task' \in {"completed", "terminated"} => attempt.result \in {"completed", "failed"}
    /\ UNCHANGED attempt

Next == Begin \/ End \/ Settle

Spec == Init /\ [][Next]_vars

===============================================================================
