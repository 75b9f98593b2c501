------------------------------ MODULE TaskStatus ------------------------------
(***************************************************************************)
(* The status column of a native Skyvern task and the transition table     *)
(* TaskStatus.can_update_to.  Only ForgeAgent.update_task consults the     *)
(* table, and it does so against a copy it read earlier;                   *)
(* AgentDB.update_task writes whatever status it is given.                 *)
(***************************************************************************)

Statuses == {"created", "queued", "running", "timed_out", "failed",
             "terminated", "completed", "canceled"}

Successors == [s \in Statuses |->
    CASE s = "created"  -> {"queued", "running", "timed_out", "failed", "canceled"}
      [] s = "queued"   -> {"running", "timed_out", "failed", "canceled"}
      [] s = "running"  -> {"completed", "failed", "terminated", "timed_out", "canceled"}
      [] s = "canceled" -> {"completed"}
      [] OTHER          -> {}]

CanUpdateTo(from, to) == to \in Successors[from]

===============================================================================
