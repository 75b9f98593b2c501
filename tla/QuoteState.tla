------------------------------ MODULE QuoteState ------------------------------
(***************************************************************************)
(* One row of procurement_coordination_states owned by the quote-task/v1   *)
(* template: the enterprise step of a quote task, its bounded plan and the *)
(* projection of the table_extract skill, under a version that every       *)
(* writer compares and swaps (procurement/quote_state.py).                 *)
(*                                                                         *)
(* Operators whose name starts with Mut are deliberate mistakes.  No       *)
(* specification uses them: they exist to show that a property notices     *)
(* when the definition below them is written that way instead.             *)
(***************************************************************************)
EXTENDS Naturals

Steps == {"ready", "awaiting_approval", "running", "needs_human",
          "completed", "rejected", "terminated", "skipped"}

\* Steps no transition leaves.
TerminalSteps == {"completed", "rejected", "terminated", "skipped"}

\* A plan lists what is left to do and what is done of the fixed sequence
\* execute_native, persist_quote.  NoPlan: no "orchestration" key yet.
PlanSteps == {"execute_native", "persist_quote"}
Plans == [steps : SUBSET PlanSteps, completed : SUBSET PlanSteps]
NoPlan == [steps |-> {}, completed |-> {}]

SkillStatuses == {"none", "pending", "blocked", "running", "needs_human",
                  "completed", "manual_completed", "rejected", "terminated", "skipped"}

Rows == [version : Nat, step : Steps \cup {"absent"}, plan : Plans,
         skill : SkillStatuses, replans : Nat]

\* The task has no snapshot: it predates quote_state.py.
NoRow == [version |-> 0, step |-> "absent", plan |-> NoPlan,
          skill |-> "none", replans |-> 0]

MaxReplans == 1

(***************************************************************************)
(* advance_quote_state.  A task without a row takes any step; a row stays  *)
(* put when it already has the step; otherwise the table decides, and a    *)
(* refused step is a 409 that rolls the caller's transaction back.         *)
(***************************************************************************)
Allowed(from) ==
    CASE from = "awaiting_approval" -> {"ready", "rejected"}
      [] from = "ready"             -> {"running", "completed", "needs_human"}
      [] from = "running"           -> {"completed", "needs_human"}
      [] from = "needs_human"       -> {"completed", "terminated", "skipped"}
      [] OTHER                      -> {}

CanAdvance(row, step) ==
    \/ row.version = 0
    \/ row.step = step
    \/ step \in Allowed(row.step)

MutSkillForUnmapped(step, nativeCompleted, extraction) ==
    IF step = "completed"
    THEN IF nativeCompleted /\ extraction THEN "completed" ELSE "manual_completed"
    ELSE step

MutSkillFor(step, nativeCompleted, extraction) ==
    CASE step = "ready"             -> "pending"
      [] step = "awaiting_approval" -> "blocked"
      [] step = "completed"         ->
            IF nativeCompleted THEN "completed" ELSE "manual_completed"
      [] OTHER                      -> step

\* nativeCompleted: the native task is completed at this moment.
\* extraction: the caller is the native extraction path.
SkillFor(step, nativeCompleted, extraction) ==
    CASE step = "ready"             -> "pending"
      [] step = "awaiting_approval" -> "blocked"
      [] step = "completed"         ->
            IF nativeCompleted /\ extraction THEN "completed" ELSE "manual_completed"
      [] OTHER                      -> step

MutPlanAfter(plan, step, nativeCompleted) ==
    IF step = "completed" /\ plan # NoPlan
    THEN [steps |-> {}, completed |-> PlanSteps]
    ELSE plan

\* Completing closes the plan without inventing a native execution.
PlanAfter(plan, step, nativeCompleted) ==
    IF step = "completed" /\ plan # NoPlan
    THEN [steps |-> {},
          completed |-> {"persist_quote"}
              \cup (IF nativeCompleted THEN {"execute_native"} ELSE {})]
    ELSE plan

Advance(row, step, nativeCompleted, extraction) ==
    IF row.step = step
    THEN row
    ELSE [version |-> row.version + 1,
          step    |-> step,
          plan    |-> PlanAfter(row.plan, step, nativeCompleted),
          skill   |-> SkillFor(step, nativeCompleted, extraction),
          replans |-> row.replans]

(***************************************************************************)
(* plan_quote: the plan is the authoritative suffix of the sequence,       *)
(* whatever the model answers; only its recorded source differs.           *)
(***************************************************************************)
PlanFor(nativeCompleted) ==
    LET done == IF nativeCompleted THEN {"execute_native"} ELSE {}
    IN  [steps |-> PlanSteps \ done, completed |-> done]

(***************************************************************************)
(* save_quote_plan.  loaded is the row its session read before the planner *)
(* was asked, current the row at the time of the write.  SQLAlchemy's      *)
(* identity map hands save_quote_plan the loaded row again, so both the    *)
(* step check and the version compared are those of loaded; only a session *)
(* that found no row reads a fresh one (or inserts it at version 1).       *)
(***************************************************************************)
PlanBase(loaded, current) ==
    IF loaded.version # 0 THEN loaded
    ELSE IF current.version # 0 THEN current
    ELSE Advance(NoRow, "ready", FALSE, FALSE)

MutCanSavePlan(loaded, current) ==
    PlanBase(loaded, current).step \in {"ready", "running"}

CanSavePlan(loaded, current) ==
    /\ PlanBase(loaded, current).step \in {"ready", "running"}
    /\ loaded.version # 0 => loaded.version = current.version

Replanned(row, plan) ==
    [version |-> row.version + 1,
     step    |-> row.step,
     plan    |-> plan,
     skill   |-> row.skill,
     replans |-> row.replans + (IF row.plan = NoPlan THEN 0 ELSE 1)]

MutSavePlan(loaded, current, plan) == Replanned(PlanBase(loaded, current), plan)

SavePlan(loaded, current, plan) ==
    LET base == PlanBase(loaded, current)
    IN  IF base.plan = plan
        THEN base
        ELSE Replanned(base, plan)

===============================================================================
