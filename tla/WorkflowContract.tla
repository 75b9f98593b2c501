--------------------------- MODULE WorkflowContract ---------------------------
(***************************************************************************)
(* What the workflow API promises about one template instance: its blocks  *)
(* are worked on in order and at most once, it completes only when all of  *)
(* them are done, and a halted or terminated instance is never resumed.    *)
(***************************************************************************)
EXTENDS Naturals

CONSTANT N      \* blocks of the compiled template

VARIABLES
    phase,      \* where the instance is in its life
    begun,      \* blocks that may have touched the browser
    done        \* blocks with checked evidence

vars == <<phase, begun, done>>

Init == phase = "none" /\ begun = 0 /\ done = 0

Create == phase = "none" /\ phase' = "open" /\ UNCHANGED <<begun, done>>

\* Only an instance that never started can start.
Start == phase = "open" /\ phase' = "working" /\ UNCHANGED <<begun, done>>

Begin ==
    /\ phase = "working"
    /\ begun = done
    /\ begun < N
    /\ begun' = begun + 1
    /\ UNCHANGED <<phase, done>>

Finish ==
    /\ phase = "working"
    /\ begun = done + 1
    /\ done' = begun
    /\ phase' = IF done' = N THEN "completed" ELSE "working"
    /\ UNCHANGED begun

\* Anything ambiguous goes to a human and is not resumed.
Halt == phase \in {"open", "working"} /\ phase' = "human" /\ UNCHANGED <<begun, done>>

Terminate ==
    /\ phase \in {"open", "working", "human"}
    /\ phase' = "terminated"
    /\ UNCHANGED <<begun, done>>

Next == Create \/ Start \/ Begin \/ Finish \/ Halt \/ Terminate

Spec == Init /\ [][Next]_vars

===============================================================================
