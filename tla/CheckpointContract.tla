-------------------------- MODULE CheckpointContract --------------------------
(***************************************************************************)
(* What the durable snapshot of one coordinated task promises to the       *)
(* callers of AgentCoordinator.run: progress is never taken back, an       *)
(* outcome that asks for no further run is final, and every answer a call  *)
(* gives was the committed status when it was given.                       *)
(***************************************************************************)
EXTENDS Naturals

CONSTANTS
    Calls,      \* calls of run
    NoSnap      \* the task has no snapshot yet

VARIABLES
    snap,       \* NoSnap or [status, done, replans]
    told        \* the status each call answered, "nothing" before it did

vars == <<snap, told>>

Final == {"completed", "needs_human"}
Outcomes == Final \cup {"failed"}

Init ==
    /\ snap = NoSnap
    /\ told = [c \in Calls |-> "nothing"]

Tell(c, status) ==
    /\ status \in Outcomes
    /\ told[c] = "nothing"
    /\ told' = [told EXCEPT ![c] = status]

\* A first plan is stored, or the failure to make one.
Create ==
    /\ snap = NoSnap
    /\ \E status \in {"running", "failed"} :
           snap' = [status |-> status, done |-> {}, replans |-> 0]

\* Subtasks may be added, one more replan may be paid for, the status may be
\* settled; a failed task may run again, a final one changes no more.
Checkpoint ==
    /\ snap # NoSnap
    /\ snap.status \notin Final
    /\ snap'.status \in Outcomes \cup {"running"}
    /\ snap.done \subseteq snap'.done
    /\ snap'.replans \in {snap.replans, snap.replans + 1}

Save == Create \/ Checkpoint

Next ==
    \/ Save /\ UNCHANGED told
    \/ Save /\ \E c \in Calls : Tell(c, snap'.status)
    \/ UNCHANGED snap /\ snap # NoSnap /\ \E c \in Calls : Tell(c, snap.status)

Spec == Init /\ [][Next]_vars
===============================================================================
