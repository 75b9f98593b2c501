-------------------------- MODULE QuoteLifecycleProofs --------------------------
(***************************************************************************)
(* Theorems about QuoteLifecycle for any number of recovery requests,      *)
(* crashes and lost claims.                                                *)
(***************************************************************************)
EXTENDS QuoteLifecycle, TLAPS

(***************************************************************************)
(* Lemmas about the coordination row.                                      *)
(***************************************************************************)

\* A task without a snapshot has a row of the right type.
LEMMA NoRowType == NoRow \in Rows
  BY DEF NoRow, Rows, NoPlan, Plans, PlanSteps, Steps, SkillStatuses

\* The projection of the skill has one of the listed statuses.
LEMMA SkillForType ==
  ASSUME NEW step \in Steps, NEW n \in BOOLEAN, NEW e \in BOOLEAN
  PROVE  SkillFor(step, n, e) \in SkillStatuses
  BY DEF SkillFor, Steps, SkillStatuses

\* Closing a plan leaves a plan.
LEMMA PlanAfterType ==
  ASSUME NEW plan \in Plans, NEW step \in Steps, NEW n \in BOOLEAN
  PROVE  PlanAfter(plan, step, n) \in Plans
  BY DEF PlanAfter, Plans, PlanSteps

\* advance_quote_state produces a row with the wanted step and a version that
\* is larger unless nothing changed.
LEMMA AdvanceType ==
  ASSUME NEW row \in Rows, NEW step \in Steps, NEW n \in BOOLEAN, NEW e \in BOOLEAN
  PROVE  /\ Advance(row, step, n, e) \in Rows
         /\ Advance(row, step, n, e).step = step
         /\ \/ Advance(row, step, n, e) = row
            \/ Advance(row, step, n, e).version = row.version + 1
<1>1. SkillFor(step, n, e) \in SkillStatuses
  BY SkillForType
<1>2. PlanAfter(row.plan, step, n) \in Plans
  BY PlanAfterType DEF Rows
<1>3. QED
  BY <1>1, <1>2 DEF Advance, Rows

\* The first snapshot of a task has the step it was attached or planned with.
LEMMA FirstRow ==
  ASSUME NEW step \in Steps
  PROVE  /\ Advance(NoRow, step, FALSE, FALSE) \in Rows
         /\ Advance(NoRow, step, FALSE, FALSE).step = step
         /\ \/ Advance(NoRow, step, FALSE, FALSE) = NoRow
            \/ Advance(NoRow, step, FALSE, FALSE).version = NoRow.version + 1
<1>1. NoRow \in Rows /\ FALSE \in BOOLEAN
  BY NoRowType
<1>2. QED
  BY <1>1, AdvanceType

\* Recording a plan leaves the step alone and raises the version.
LEMMA ReplannedType ==
  ASSUME NEW row \in Rows, NEW plan \in Plans
  PROVE  /\ Replanned(row, plan) \in Rows
         /\ Replanned(row, plan).step = row.step
         /\ Replanned(row, plan).version = row.version + 1
  BY DEF Replanned, Rows

\* save_quote_plan keeps the step of a row it was allowed to plan, or creates
\* a ready row where there was none, under a version that never goes back.
LEMMA SavePlanType ==
  ASSUME NEW loaded \in Rows, NEW current \in Rows, NEW plan \in Plans,
         CanSavePlan(loaded, current)
  PROVE  /\ SavePlan(loaded, current, plan) \in Rows
         /\ SavePlan(loaded, current, plan).step \in {"ready", "running"}
<1>1. PlanBase(loaded, current) \in Rows
  BY FirstRow DEF PlanBase, Steps
<1>2. PlanBase(loaded, current).step \in {"ready", "running"}
  BY DEF CanSavePlan
<1>3. QED
  BY <1>1, <1>2, ReplannedType DEF SavePlan

\* The planner always answers with a plan.
LEMMA PlanForType == \A n \in BOOLEAN : PlanFor(n) \in Plans
  BY DEF PlanFor, Plans, PlanSteps

(***************************************************************************)
(* Type correctness.                                                       *)
(***************************************************************************)

\* A request that returns or moves on keeps the process variables typed.
LEMMA ReturnType ==
  ASSUME TypeOK, NEW p \in Procs, Return(p)
  PROVE  /\ pc' \in [Procs -> PCs]
         /\ loc' \in [Procs -> Locs]
         /\ claim' \in Procs \cup {NoProc}
  BY NoRowType DEF TypeOK, Return, PCs, Locs, NoLoc, Statuses

\* A request only moves to places of the program.
LEMMA GotoType ==
  ASSUME TypeOK, NEW p \in Procs, NEW next \in PCs, Goto(p, next)
  PROVE  pc' \in [Procs -> PCs]
  BY DEF TypeOK, Goto

\* Every legal or illegal step a handler asks for leaves a typed snapshot.
LEMMA MoveToType ==
  ASSUME TypeOK, NEW step \in Steps, NEW e \in BOOLEAN, MoveTo(step, e)
  PROVE  snap' \in Rows
  BY AdvanceType DEF TypeOK, MoveTo

\* Tasks start typed, with or without a snapshot.
LEMMA TypeInit == Init => TypeOK
<1> SUFFICES ASSUME Init PROVE TypeOK
  OBVIOUS
<1>1. snap \in Rows
  <2>1. CASE InitAttached
    <3>1. \A step \in Steps : Advance(NoRow, step, FALSE, FALSE) \in Rows
      BY FirstRow
    <3>2. QED
      BY <2>1, <3>1 DEF InitAttached, Steps
  <2>2. CASE InitLegacy
    BY <2>2, NoRowType DEF InitLegacy
  <2>3. QED
    BY <2>1, <2>2 DEF Init
<1>2. loc \in [Procs -> Locs]
  BY NoRowType DEF Init, NoLoc, Locs, Statuses
<1>3. approver \in Users \cup {NoUser}
  BY LifecycleAssumption DEF Init, InitAttached, InitLegacy
<1>4. risky \in BOOLEAN /\ evidence \in BOOLEAN /\ canceling \in BOOLEAN
  BY Zenon DEF Init, InitAttached, InitLegacy
<1>5. /\ approval \in {"none", "pending", "approved", "rejected"}
      /\ native \in Statuses
      /\ extraction \in {"none", "valid", "invalid"}
      /\ browserRuns \in Nat
  <2>1. CASE InitAttached
    BY <2>1 DEF InitAttached, Statuses
  <2>2. CASE InitLegacy
    BY <2>2 DEF InitLegacy, Statuses
  <2>3. QED
    BY <2>1, <2>2 DEF Init
<1>6. QED
  BY <1>1, <1>2, <1>3, <1>4, <1>5 DEF Init, TypeOK, PCs

\* Every handler keeps the types, action by action.
LEMMA TypeStep == TypeOK /\ [Next]_vars => TypeOK'
<1> SUFFICES ASSUME TypeOK, [Next]_vars PROVE TypeOK'
  OBVIOUS
<1> USE DEF facts, native_vars, outcome, proc_vars, bounds
<1>1. ASSUME NEW u \in Users, Decide(u, "approved") \/ Decide(u, "rejected")
      PROVE  TypeOK'
  <2>1. snap' \in Rows
    BY <1>1, MoveToType DEF Decide, Steps
  <2>2. /\ approval' \in {"approved", "rejected"}
        /\ native' \in {native, "canceled"}
        /\ approver' \in Users
        /\ UNCHANGED <<risky, extraction, evidence, canceling, browserRuns,
                       outcome, proc_vars, bounds>>
    BY <1>1, Zenon DEF Decide
  <2>3. QED
    BY <2>1, <2>2 DEF TypeOK, Statuses
<1>2. ASSUME NEW p \in Procs, Claim(p)
      PROVE  TypeOK'
  BY <1>2 DEF TypeOK, Claim, Goto, PCs
<1>3. ASSUME NEW p \in Procs, CheckQuote(p) \/ CheckReview(p)
      PROVE  TypeOK'
  BY <1>3, ReturnType, GotoType DEF TypeOK, CheckQuote, CheckReview, PCs
<1>4. ASSUME NEW p \in Procs, ReadTask(p) \/ LoadPlan(p)
      PROVE  TypeOK'
  <2>1. pc' \in [Procs -> PCs]
    BY <1>4 DEF TypeOK, ReadTask, LoadPlan, Goto, PCs
  <2>2. loc' \in [Procs -> Locs]
    BY <1>4 DEF TypeOK, ReadTask, LoadPlan, Locs
  <2>3. QED
    BY <1>4, <2>1, <2>2 DEF TypeOK, ReadTask, LoadPlan
<1>5. ASSUME NEW p \in Procs, SaveQuotePlan(p)
      PROVE  TypeOK'
  <2> DEFINE plan == PlanFor(loc[p].seen = "completed")
  <2>1. plan \in Plans /\ loc[p].row \in Rows
    BY PlanForType DEF TypeOK, Locs
  <2>2. CASE CanSavePlan(loc[p].row, snap)
    <3>1. snap' \in Rows
      BY <1>5, <2>1, <2>2, SavePlanType DEF SaveQuotePlan, TypeOK
    <3>2. QED
      BY <1>5, <2>2, <3>1, NoRowType DEF SaveQuotePlan, TypeOK, Goto, PCs, Locs
  <2>3. CASE ~CanSavePlan(loc[p].row, snap)
    BY <1>5, <2>3, ReturnType DEF SaveQuotePlan, TypeOK
  <2>4. QED
    BY <2>2, <2>3
<1>6. ASSUME NEW p \in Procs, Start(p)
      PROVE  TypeOK'
  <2>1. CASE MayStart /\ CanAdvance(snap, "running")
    <3>1. snap' \in Rows
      BY <1>6, <2>1, MoveToType DEF Start, Steps
    <3>2. QED
      BY <1>6, <2>1, <3>1 DEF Start, Goto, TypeOK, PCs, Statuses
  <2>2. CASE ~(MayStart /\ CanAdvance(snap, "running"))
    <3>1. Return(p) /\ UNCHANGED <<native, snap>>
      BY <1>6, <2>2, Zenon DEF Start
    <3>2. QED
      BY <1>6, <3>1, ReturnType DEF Start, TypeOK
  <2>3. QED
    BY <2>1, <2>2
<1>7. ASSUME NEW p \in Procs, Launch(p) \/ RereadTask(p) \/ CheckResult(p)
      PROVE  TypeOK'
  BY <1>7, ReturnType, GotoType
  DEF Launch, RereadTask, CheckResult, TypeOK, PCs, Statuses
<1>8. ASSUME NEW p \in Procs, PersistExtracted(p)
      PROVE  TypeOK'
  <2>1. snap' \in Rows /\ quote' \in {"none", "extracted", "manual"}
    BY <1>8, MoveToType DEF PersistExtracted, PersistQuote, TypeOK, Steps
  <2>2. /\ pc' \in [Procs -> PCs]
        /\ loc' \in [Procs -> Locs]
        /\ claim' \in Procs \cup {NoProc}
    BY <1>8, ReturnType, GotoType DEF PersistExtracted, TypeOK, PCs
  <2>3. QED
    BY <1>8, <2>1, <2>2 DEF PersistExtracted, TypeOK
<1>9. ASSUME NEW p \in Procs, CreateReview(p)
      PROVE  TypeOK'
  <2>1. snap' \in Rows
    BY <1>9, MoveToType DEF CreateReview, TypeOK, Steps
  <2>2. /\ review' \in {"none", "pending", "resolved", "terminated"}
        /\ reviewCount' \in {reviewCount, reviewCount + 1}
    BY <1>9, Zenon DEF CreateReview, TypeOK
  <2>3. QED
    BY <1>9, <2>1, <2>2, ReturnType DEF CreateReview, TypeOK
<1>10. ASSUME NEW p \in Procs, Agent(p)
       PROVE  TypeOK'
  <2>1. ASSUME NEW s \in {"completed", "failed", "terminated", "timed_out"},
               AgentDecides(p, s)
        PROVE  TypeOK'
    BY <2>1 DEF AgentDecides, TypeOK, Goto, PCs, Locs, Statuses
  <2>2. CASE AgentWrites(p)
    BY <2>2 DEF AgentWrites, TypeOK, Goto, PCs, Locs, Statuses
  <2>3. CASE RecordEvidence(p) \/ AgentStops(p) \/ ExecutionRaises(p)
    <3>1. pc' \in [Procs -> PCs]
      BY <2>3 DEF RecordEvidence, AgentStops, ExecutionRaises, Goto, TypeOK, PCs
    <3>2. evidence' \in BOOLEAN
      BY <2>3, Zenon DEF RecordEvidence, AgentStops, ExecutionRaises, TypeOK
    <3>3. QED
      BY <2>3, <3>1, <3>2 DEF RecordEvidence, AgentStops, ExecutionRaises, TypeOK
  <2>4. QED
    BY <1>10, <2>1, <2>2, <2>3 DEF Agent
<1>11. ASSUME NEW p \in Procs, Crash(p) \/ LoseClaim(p)
       PROVE  TypeOK'
  BY <1>11, ReturnType DEF Crash, LoseClaim, TypeOK
<1>12. CASE Operator
  <2>1. CASE CreateSupplierQuote \/ ResolveManually \/ ResolveBySkipping
    <3>1. \E step \in Steps : MoveTo(step, FALSE)
      BY <2>1, Zenon
      DEF CreateSupplierQuote, ResolveManually, ResolveBySkipping, PersistQuote, Steps
    <3>2. snap' \in Rows
      BY <3>1, MoveToType
    <3>3. /\ quote' \in {quote, "manual"}
          /\ review' \in {review, "resolved", "terminated"}
          /\ UNCHANGED <<reviewCount, resolving, facts, native_vars, proc_vars, bounds>>
      BY <2>1, Zenon
      DEF CreateSupplierQuote, ResolveManually, ResolveBySkipping, PersistQuote
    <3>4. QED
      BY <3>2, <3>3 DEF TypeOK
  <2>2. CASE TerminateReads \/ TerminateRollsBack
    BY <2>2 DEF TerminateReads, TerminateRollsBack, TypeOK
  <2>3. CASE ResolveByTerminating
    <3>1. snap' \in Rows
      BY <2>3, MoveToType DEF ResolveByTerminating, Steps
    <3>2. QED
      BY <2>3, <3>1 DEF ResolveByTerminating, TypeOK, Statuses
  <2>4. QED
    BY <1>12, <2>1, <2>2, <2>3 DEF Operator
<1>13. CASE CancelValidates \/ CancelWrites
  <2>1. canceling' \in BOOLEAN
    BY <1>13, Zenon DEF CancelValidates, CancelWrites
  <2>2. native' \in Statuses
    BY <1>13 DEF CancelValidates, CancelWrites, TypeOK, Statuses
  <2>3. QED
    BY <1>13, <2>1, <2>2 DEF CancelValidates, CancelWrites, TypeOK
<1>14. CASE UNCHANGED vars
  BY <1>14 DEF vars, TypeOK
<1>15. QED
  BY <1>1, <1>2, <1>3, <1>4, <1>5, <1>6, <1>7, <1>8, <1>9, <1>10, <1>11, <1>12,
     <1>13, <1>14 DEF Next, Recovery

\* Every reachable state of every instance is typed.
THEOREM TypeCorrect == Spec => []TypeOK
  BY TypeInit, TypeStep, PTL DEF Spec

(***************************************************************************)
(* The inductive invariants.  Each part is stated for the theorem it       *)
(* supports; Inv is inductive as a whole.                                  *)
(***************************************************************************)

\* Once the running marker is committed native never returns to created, so
\* Start fires once and whoever stands before the launch stands there alone.
RunInv ==
    /\ browserRuns <= 1
    /\ native = "created" => browserRuns = 0
    /\ \A p \in Procs : pc[p] = "launch" => browserRuns = 0 /\ native # "created"
    /\ \A p, q \in Procs : pc[p] = "launch" /\ pc[q] = "launch" => p = q
    /\ \A p \in Procs : pc[p] = "writing" => loc[p].outcome # "created"

\* A request that got past the claim saw the approval, which is final.
AuthInv ==
    /\ approval = "none" <=> ~risky
    /\ approval = "approved" => approver \in Approvers \ {Requester}
    /\ \A p \in Procs : pc[p] # "idle" /\ risky => approval = "approved"
    /\ browserRuns > 0 /\ risky => approval = "approved"
    /\ RejectionStops

\* Compare-and-swap is sound: a remembered row with the current version is
\* the current row.
RowInv ==
    /\ snap = NoRow \/ (snap.version > 0 /\ snap.step \in Steps)
    /\ \A p \in Procs : loc[p].row.version <= snap.version
    /\ \A p \in Procs : loc[p].row.version = snap.version => loc[p].row = snap

\* The step agrees with the other tables, and a closed review stays the last.
FactsInv ==
    /\ StepMatchesFacts
    /\ reviewCount = IF review = "none" THEN 0 ELSE 1
    /\ review = "resolved" => snap.step \in {"skipped", "completed"}
    /\ resolving # NoRead => review = "pending"

Inv == RunInv /\ AuthInv /\ RowInv /\ FactsInv

(***************************************************************************)
(* RunInv.                                                                 *)
(***************************************************************************)

\* No request is under way, and only a completed task has run.
LEMMA RunInit == Init => RunInv
<1> SUFFICES ASSUME Init PROVE RunInv
  OBVIOUS
<1>1. /\ browserRuns <= 1
      /\ native = "created" => browserRuns = 0
  <2>1. CASE InitAttached
    BY <2>1 DEF InitAttached
  <2>2. CASE InitLegacy
    BY <2>2 DEF InitLegacy
  <2>3. QED
    BY <2>1, <2>2 DEF Init
<1>2. \A p \in Procs : pc[p] = "idle"
  BY DEF Init
<1>3. QED
  BY <1>1, <1>2 DEF RunInv

\* Actions that start nothing and put nobody before the launch.
LEMMA RunQuiet ==
  ASSUME TypeOK, RunInv,
         browserRuns' = browserRuns,
         native' = native \/ native' # "created",
         \A p \in Procs : pc'[p] = "launch" => pc[p] = "launch",
         \A p \in Procs : pc'[p] = "writing" =>
             pc[p] = "writing" /\ loc'[p].outcome = loc[p].outcome
  PROVE  RunInv'
  BY DEF RunInv, TypeOK

\* Returning forgets the outcome only of the request that returns.
LEMMA ReturnQuiet ==
  ASSUME TypeOK, NEW p \in Procs, Return(p)
  PROVE  /\ \A q \in Procs : pc'[q] = (IF q = p THEN "idle" ELSE pc[q])
         /\ \A q \in Procs \ {p} : loc'[q] = loc[q]
         /\ loc'[p] = NoLoc
  BY DEF TypeOK, Return

\* Moving on disturbs no other request.
LEMMA GotoQuiet ==
  ASSUME TypeOK, NEW p \in Procs, NEW next \in PCs, Goto(p, next)
  PROVE  \A q \in Procs : pc'[q] = (IF q = p THEN next ELSE pc[q])
  BY DEF TypeOK, Goto

\* Start is the only way to the launch, and it needs a created task.
LEMMA RunStep == TypeOK /\ RunInv /\ [Next]_vars => RunInv'
<1> SUFFICES ASSUME TypeOK, RunInv, [Next]_vars PROVE RunInv'
  OBVIOUS
<1> USE DEF facts, native_vars, outcome, proc_vars, bounds
<1>1. ASSUME NEW u \in Users, Decide(u, "approved") \/ Decide(u, "rejected")
      PROVE  RunInv'
  BY <1>1, RunQuiet DEF Decide
<1>2. ASSUME NEW p \in Procs, Claim(p)
      PROVE  RunInv'
  BY <1>2, GotoQuiet, RunQuiet DEF Claim, PCs
<1>3. ASSUME NEW p \in Procs, CheckQuote(p) \/ CheckReview(p) \/ CheckResult(p)
      PROVE  RunInv'
  BY <1>3, GotoQuiet, ReturnQuiet, RunQuiet
  DEF CheckQuote, CheckReview, CheckResult, PCs
<1>4. ASSUME NEW p \in Procs, ReadTask(p) \/ LoadPlan(p)
      PROVE  RunInv'
  BY <1>4, RunQuiet DEF ReadTask, LoadPlan, Goto, TypeOK
<1>5. ASSUME NEW p \in Procs, SaveQuotePlan(p)
      PROVE  RunInv'
  <2>1. CASE CanSavePlan(loc[p].row, snap)
    BY <1>5, <2>1, RunQuiet DEF SaveQuotePlan, Goto, TypeOK
  <2>2. CASE ~CanSavePlan(loc[p].row, snap)
    BY <1>5, <2>2, ReturnQuiet, RunQuiet DEF SaveQuotePlan
  <2>3. QED
    BY <2>1, <2>2
<1>6. ASSUME NEW p \in Procs, Start(p)
      PROVE  RunInv'
  <2>1. CASE MayStart /\ CanAdvance(snap, "running")
    <3>1. /\ native = "created" /\ native' = "running"
          /\ browserRuns' = browserRuns /\ browserRuns = 0
          /\ \A q \in Procs : loc'[q] = loc[q]
      BY <1>6, <2>1 DEF Start, MayStart, RunInv
    <3>2. \A q \in Procs : pc'[q] = (IF q = p THEN "launch" ELSE pc[q])
      BY <1>6, <2>1 DEF Start, Goto, TypeOK
    <3>3. \A q \in Procs : pc[q] # "launch"
      BY <3>1 DEF RunInv
    <3>4. QED
      BY <3>1, <3>2, <3>3 DEF RunInv
  <2>2. CASE ~(MayStart /\ CanAdvance(snap, "running"))
    <3>1. Return(p) /\ UNCHANGED <<native, snap, browserRuns>>
      BY <1>6, <2>2, Zenon DEF Start
    <3>2. QED
      BY <3>1, ReturnQuiet, RunQuiet
  <2>3. QED
    BY <2>1, <2>2
<1>7. ASSUME NEW p \in Procs, Launch(p)
      PROVE  RunInv'
  <2>1. /\ pc[p] = "launch" /\ browserRuns = 0
        /\ native' = "running" /\ browserRuns' = 1
        /\ \A q \in Procs : loc'[q] = loc[q]
    BY <1>7 DEF Launch, RunInv
  <2>2. \A q \in Procs : pc'[q] = (IF q = p THEN "executing" ELSE pc[q])
    BY <1>7 DEF Launch, Goto, TypeOK
  <2>3. \A q \in Procs : pc'[q] # "launch"
    BY <2>1, <2>2 DEF RunInv
  <2>4. QED
    BY <2>1, <2>2, <2>3 DEF RunInv
<1>8. ASSUME NEW p \in Procs, RereadTask(p)
      PROVE  RunInv'
  BY <1>8, GotoQuiet, RunQuiet DEF RereadTask, PCs
<1>9. ASSUME NEW p \in Procs, PersistExtracted(p)
      PROVE  RunInv'
  <2>1. UNCHANGED <<browserRuns, native>>
    BY <1>9 DEF PersistExtracted
  <2>2. CASE ~evidence
    BY <1>9, <2>1, <2>2, GotoQuiet, RunQuiet DEF PersistExtracted, PCs
  <2>3. CASE evidence
    <3>1. Return(p)
      BY <1>9, <2>3, Zenon DEF PersistExtracted
    <3>2. QED
      BY <2>1, <3>1, ReturnQuiet, RunQuiet
  <2>4. QED
    BY <2>2, <2>3
<1>10. ASSUME NEW p \in Procs, CreateReview(p)
       PROVE  RunInv'
  BY <1>10, ReturnQuiet, RunQuiet DEF CreateReview
<1>11. ASSUME NEW p \in Procs, Agent(p)
       PROVE  RunInv'
  <2>1. ASSUME NEW s \in {"completed", "failed", "terminated", "timed_out"},
               AgentDecides(p, s)
        PROVE  RunInv'
    <3>1. /\ browserRuns' = browserRuns /\ native' = native
          /\ \A q \in Procs : pc'[q] = (IF q = p THEN "writing" ELSE pc[q])
      BY <2>1 DEF AgentDecides, Goto, TypeOK
    <3>2. /\ loc'[p].outcome = s
          /\ \A q \in Procs \ {p} : loc'[q] = loc[q]
      BY <2>1 DEF AgentDecides, TypeOK, Locs
    <3>3. QED
      BY <3>1, <3>2 DEF RunInv
  <2>2. CASE AgentWrites(p)
    <3>1. /\ browserRuns' = browserRuns /\ native' # "created"
          /\ \A q \in Procs : pc'[q] = (IF q = p THEN "reread" ELSE pc[q])
          /\ \A q \in Procs \ {p} : loc'[q] = loc[q]
      BY <2>2 DEF AgentWrites, Goto, TypeOK, RunInv
    <3>2. QED
      BY <3>1, RunQuiet
  <2>3. CASE RecordEvidence(p) \/ AgentStops(p) \/ ExecutionRaises(p)
    BY <2>3, GotoQuiet, RunQuiet DEF RecordEvidence, AgentStops, ExecutionRaises, PCs
  <2>4. QED
    BY <1>11, <2>1, <2>2, <2>3 DEF Agent
<1>12. ASSUME NEW p \in Procs, Crash(p) \/ LoseClaim(p)
       PROVE  RunInv'
  BY <1>12, ReturnQuiet, RunQuiet DEF Crash, LoseClaim
<1>13. CASE Operator
  BY <1>13, RunQuiet
  DEF Operator, CreateSupplierQuote, ResolveManually, ResolveBySkipping,
      TerminateReads, ResolveByTerminating, TerminateRollsBack
<1>14. CASE CancelValidates \/ CancelWrites
  BY <1>14, RunQuiet DEF CancelValidates, CancelWrites
<1>15. CASE UNCHANGED vars
  BY <1>15, RunQuiet DEF vars
<1>16. QED
  BY <1>1, <1>2, <1>3, <1>4, <1>5, <1>6, <1>7, <1>8, <1>9, <1>10, <1>11, <1>12,
     <1>13, <1>14, <1>15 DEF Next, Recovery

\* A quote task starts at most one browser execution, for any number of
\* concurrent recoveries, crashes and lost row locks.
THEOREM OneBrowserRun == Spec => []BrowserRunsOnce
<1>1. Init => TypeOK /\ RunInv
  BY TypeInit, RunInit
<1>2. TypeOK /\ RunInv /\ [Next]_vars => (TypeOK /\ RunInv)'
  BY TypeStep, RunStep
<1>3. RunInv => BrowserRunsOnce
  BY DEF RunInv, BrowserRunsOnce
<1>4. QED
  BY <1>1, <1>2, <1>3, PTL DEF Spec

(***************************************************************************)
(* AuthInv.                                                                *)
(***************************************************************************)

\* Approvals start pending, or were decided before the snapshots.
LEMMA AuthInit == Init => AuthInv
<1> SUFFICES ASSUME Init PROVE AuthInv
  OBVIOUS
<1>1. risky \in BOOLEAN /\ \A p \in Procs : pc[p] = "idle"
  BY DEF Init
<1>2. CASE InitAttached
  BY <1>1, <1>2 DEF InitAttached, AuthInv, RejectionStops
<1>3. CASE InitLegacy
  BY <1>1, <1>3 DEF InitLegacy, AuthInv, RejectionStops
<1>4. QED
  BY <1>2, <1>3 DEF Init

\* Actions that touch neither approval nor launch and admit no new request.
\* A canceled task stays canceled unless its approval was not refused.
LEMMA AuthQuiet ==
  ASSUME AuthInv, UNCHANGED <<facts, browserRuns>>,
         native' = native \/ native' = "canceled" \/ approval # "rejected",
         \A p \in Procs : pc'[p] # "idle" => pc[p] # "idle"
  PROVE  AuthInv'
  BY DEF AuthInv, RejectionStops, facts

\* A request that is under way rules a rejection out.
LEMMA NotRejected ==
  ASSUME AuthInv, NEW p \in Procs, pc[p] # "idle"
  PROVE  approval # "rejected" /\ (risky => approval = "approved")
  BY DEF AuthInv

\* No action overtakes the decision of the approval.
LEMMA AuthStep == TypeOK /\ Inv /\ [Next]_vars => AuthInv'
<1> SUFFICES ASSUME TypeOK, RunInv, AuthInv, FactsInv, [Next]_vars PROVE AuthInv'
  BY DEF Inv
<1> USE DEF facts, native_vars, outcome, proc_vars, bounds
<1>1. ASSUME NEW u \in Users, Decide(u, "approved") \/ Decide(u, "rejected")
      PROVE  AuthInv'
  <2>1. /\ u \in Approvers \ {Requester} /\ approver' = u
        /\ approval = "pending" /\ native = "created" /\ browserRuns = 0
        /\ UNCHANGED <<risky, browserRuns, pc>>
    BY <1>1 DEF Decide, MayDecide, RunInv
  <2>2. risky
    BY <2>1 DEF AuthInv
  <2>3. \/ approval' = "approved"
        \/ approval' = "rejected" /\ native' = "canceled"
    BY <1>1 DEF Decide
  <2>4. \A p \in Procs : pc[p] = "idle"
    BY <2>1, <2>2 DEF AuthInv
  <2>5. QED
    BY <2>1, <2>2, <2>3, <2>4 DEF AuthInv, RejectionStops
<1>2. ASSUME NEW p \in Procs, Claim(p)
      PROVE  AuthInv'
  BY <1>2 DEF Claim, MayContinue, AuthInv, RejectionStops
<1>3. ASSUME NEW p \in Procs, CheckQuote(p) \/ CheckReview(p) \/ CheckResult(p)
      PROVE  AuthInv'
  <2>1. pc[p] # "idle" /\ UNCHANGED <<facts, browserRuns, native>>
    BY <1>3 DEF CheckQuote, CheckReview, CheckResult
  <2>2. \A q \in Procs : pc'[q] # "idle" => pc[q] # "idle"
    BY <1>3, <2>1, GotoQuiet, ReturnQuiet DEF CheckQuote, CheckReview, CheckResult, PCs
  <2>3. QED
    BY <2>1, <2>2, AuthQuiet
<1>4. ASSUME NEW p \in Procs, ReadTask(p) \/ LoadPlan(p)
      PROVE  AuthInv'
  BY <1>4, AuthQuiet DEF ReadTask, LoadPlan, Goto, TypeOK
<1>5. ASSUME NEW p \in Procs, SaveQuotePlan(p)
      PROVE  AuthInv'
  <2>1. CASE CanSavePlan(loc[p].row, snap)
    BY <1>5, <2>1, AuthQuiet DEF SaveQuotePlan, Goto, TypeOK
  <2>2. CASE ~CanSavePlan(loc[p].row, snap)
    BY <1>5, <2>2, ReturnQuiet, AuthQuiet DEF SaveQuotePlan
  <2>3. QED
    BY <2>1, <2>2
<1>6. ASSUME NEW p \in Procs, Start(p)
      PROVE  AuthInv'
  <2>1. pc[p] # "idle" /\ UNCHANGED <<facts, browserRuns>> /\ approval # "rejected"
    BY <1>6, NotRejected DEF Start
  <2>2. Goto(p, "launch") \/ Return(p)
    BY <1>6, Zenon DEF Start
  <2>3. \A q \in Procs : pc'[q] # "idle" => pc[q] # "idle"
    BY <2>1, <2>2, GotoQuiet, ReturnQuiet DEF PCs
  <2>4. QED
    BY <2>1, <2>3, AuthQuiet
<1>7. ASSUME NEW p \in Procs, Launch(p)
      PROVE  AuthInv'
  <2>1. /\ pc[p] = "launch" /\ approval # "rejected"
        /\ risky => approval = "approved"
        /\ UNCHANGED facts
    BY <1>7, NotRejected DEF Launch
  <2>2. \A q \in Procs : pc'[q] # "idle" => pc[q] # "idle"
    BY <1>7, <2>1 DEF Launch, Goto, TypeOK
  <2>3. QED
    BY <2>1, <2>2 DEF AuthInv, RejectionStops
<1>8. ASSUME NEW p \in Procs, RereadTask(p)
      PROVE  AuthInv'
  BY <1>8, AuthQuiet DEF RereadTask, Goto, TypeOK
<1>9. ASSUME NEW p \in Procs, PersistExtracted(p)
      PROVE  AuthInv'
  <2>1. pc[p] # "idle" /\ UNCHANGED <<facts, browserRuns, native>>
    BY <1>9 DEF PersistExtracted
  <2>2. Goto(p, "review") \/ Return(p)
    BY <1>9, Zenon DEF PersistExtracted
  <2>3. \A q \in Procs : pc'[q] # "idle" => pc[q] # "idle"
    BY <2>1, <2>2, GotoQuiet, ReturnQuiet DEF PCs
  <2>4. QED
    BY <2>1, <2>3, AuthQuiet
<1>10. ASSUME NEW p \in Procs, CreateReview(p)
       PROVE  AuthInv'
  BY <1>10, ReturnQuiet, AuthQuiet DEF CreateReview
<1>11. ASSUME NEW p \in Procs, Agent(p)
       PROVE  AuthInv'
  <2>1. /\ pc[p] # "idle" /\ UNCHANGED <<facts, browserRuns>>
        /\ \A q \in Procs : pc'[q] # "idle" => pc[q] # "idle"
    BY <1>11
    DEF Agent, AgentDecides, AgentWrites, RecordEvidence, AgentStops,
        ExecutionRaises, Goto, TypeOK
  <2>2. approval # "rejected"
    BY <2>1, NotRejected
  <2>3. QED
    BY <2>1, <2>2, AuthQuiet
<1>12. ASSUME NEW p \in Procs, Crash(p) \/ LoseClaim(p)
       PROVE  AuthInv'
  BY <1>12, ReturnQuiet, AuthQuiet DEF Crash, LoseClaim
<1>13. CASE Operator
  <2>1. UNCHANGED <<facts, browserRuns, pc>>
    BY <1>13
    DEF Operator, CreateSupplierQuote, ResolveManually, ResolveBySkipping,
        TerminateReads, ResolveByTerminating, TerminateRollsBack
  <2>2. native' = native \/ resolving # NoRead
    BY <1>13
    DEF Operator, CreateSupplierQuote, ResolveManually, ResolveBySkipping,
        TerminateReads, ResolveByTerminating, TerminateRollsBack
  <2>3. resolving # NoRead => approval # "rejected"
    BY DEF FactsInv, StepMatchesFacts
  <2>4. QED
    BY <2>1, <2>2, <2>3, AuthQuiet
<1>14. CASE CancelValidates \/ CancelWrites
  BY <1>14, AuthQuiet DEF CancelValidates, CancelWrites
<1>15. CASE UNCHANGED vars
  BY <1>15, AuthQuiet DEF vars
<1>16. QED
  BY <1>1, <1>2, <1>3, <1>4, <1>5, <1>6, <1>7, <1>8, <1>9, <1>10, <1>11, <1>12,
     <1>13, <1>14, <1>15 DEF Next, Recovery


(***************************************************************************)
(* RowInv and FactsInv: the snapshot.                                      *)
(***************************************************************************)

\* A step that was taken was allowed from where the row stood.
LEMMA MoveToRow ==
  ASSUME TypeOK, RowInv, NEW step \in Steps, NEW e \in BOOLEAN, MoveTo(step, e)
  PROVE  /\ snap' \in Rows /\ snap'.step = step
         /\ snap' = snap \/ snap'.version = snap.version + 1
         /\ \/ snap.step = step /\ snap' = snap
            \/ snap.step = "absent"
            \/ step \in Allowed(snap.step)
<1>1. snap \in Rows /\ CanAdvance(snap, step)
      /\ snap' = Advance(snap, step, native = "completed", e)
  BY DEF TypeOK, MoveTo
<1>2. (native = "completed") \in BOOLEAN
  OBVIOUS
<1>3. /\ snap' \in Rows /\ snap'.step = step
      /\ snap' = snap \/ snap'.version = snap.version + 1
  <2> DEFINE done == native = "completed"
  <2>1. done \in BOOLEAN
    BY <1>2
  <2> HIDE DEF done
  <2>2. /\ Advance(snap, step, done, e) \in Rows
        /\ Advance(snap, step, done, e).step = step
        /\ \/ Advance(snap, step, done, e) = snap
           \/ Advance(snap, step, done, e).version = snap.version + 1
    BY <1>1, <2>1, AdvanceType
  <2>3. snap' = Advance(snap, step, done, e)
    BY <1>1 DEF done
  <2>4. QED
    BY <2>2, <2>3
<1>4. snap.version = 0 => snap.step = "absent"
  BY DEF RowInv, NoRow
<1>5. snap.step = step => snap' = snap
  BY <1>1 DEF Advance
<1>6. QED
  BY <1>1, <1>3, <1>4, <1>5 DEF CanAdvance

\* A saved plan never moves a row that has a step: a remembered row with
\* another version than the current one is refused.
LEMMA SavePlanRow ==
  ASSUME TypeOK, RowInv, NEW p \in Procs, NEW plan \in Plans,
         CanSavePlan(loc[p].row, snap), snap' = SavePlan(loc[p].row, snap, plan)
  PROVE  /\ snap' \in Rows
         /\ snap' = snap \/ snap'.version > snap.version
         /\ snap.step \in {"absent", "ready", "running"}
         /\ snap'.step = (IF snap.step = "absent" THEN "ready" ELSE snap.step)
<1> DEFINE row == loc[p].row
           base == PlanBase(row, snap)
           fresh == Advance(NoRow, "ready", FALSE, FALSE)
<1>1. snap \in Rows /\ row \in Rows
  BY DEF TypeOK, Locs
<1>2. base.step \in {"ready", "running"}
  BY DEF CanSavePlan
<1>3. row.version # 0 => row = snap
  BY DEF CanSavePlan, RowInv
<1>4. fresh \in Rows /\ fresh.step = "ready" /\ fresh.version = 1
  <2>1. fresh \in Rows /\ fresh.step = "ready"
        /\ (fresh = NoRow \/ fresh.version = NoRow.version + 1)
    <3>1. "ready" \in Steps
      BY DEF Steps
    <3>2. QED
      BY <3>1, FirstRow
  <2>2. NoRow.step = "absent" /\ NoRow.version = 0
    BY DEF NoRow
  <2> HIDE DEF fresh
  <2>3. fresh # NoRow
    BY <2>1, <2>2
  <2>4. QED
    BY <2>1, <2>2, <2>3
<1>5. CASE snap.version # 0
  <2>1. base = snap
    BY <1>3, <1>5 DEF PlanBase
  <2>2. snap.step # "absent"
    BY <1>5 DEF RowInv, NoRow, Steps
  <2>3. snap' = snap \/ snap' = Replanned(snap, plan)
    BY <2>1 DEF SavePlan
  <2>4. QED
    BY <1>1, <1>2, <2>1, <2>2, <2>3, ReplannedType DEF Rows
<1>6. CASE snap.version = 0
  <2>1. snap = NoRow /\ snap.step = "absent"
    BY <1>6 DEF RowInv, NoRow
  <2>2. row.version = 0
    BY <1>3, <1>6
  <2>3. base = fresh
    BY <1>6, <2>2 DEF PlanBase
  <2>4. snap' = fresh \/ snap' = Replanned(fresh, plan)
    BY <2>3 DEF SavePlan
  <2> HIDE DEF fresh
  <2>5. /\ Replanned(fresh, plan) \in Rows
        /\ Replanned(fresh, plan).step = "ready"
        /\ Replanned(fresh, plan).version = 1 + 1
    BY <1>4, ReplannedType
  <2>6. snap' \in Rows /\ snap'.step = "ready" /\ snap'.version > 0
    BY <1>4, <2>4, <2>5
  <2>7. QED
    BY <1>6, <2>1, <2>6
<1>7. QED
  BY <1>5, <1>6

\* The first snapshot has version 1; nobody remembers anything.
LEMMA RowInit == Init => RowInv
<1> SUFFICES ASSUME Init PROVE RowInv
  OBVIOUS
<1>1. \A p \in Procs : loc[p].row = NoRow
  BY DEF Init, NoLoc
<1>2. NoRow.version = 0 /\ NoRow.step = "absent"
  BY DEF NoRow
<1>3. snap = NoRow \/ (snap.version = 1 /\ snap.step \in Steps)
  <2>1. CASE InitAttached
    <3>1. PICK step \in Steps : snap = Advance(NoRow, step, FALSE, FALSE)
      BY <2>1 DEF InitAttached, Steps
    <3>2. snap.step = step /\ (snap = NoRow \/ snap.version = NoRow.version + 1)
      BY <3>1, FirstRow
    <3>3. step # "absent"
      BY DEF Steps
    <3>4. QED
      BY <1>2, <3>2, <3>3
  <2>2. CASE InitLegacy
    BY <2>2 DEF InitLegacy
  <2>3. QED
    BY <2>1, <2>2 DEF Init
<1>4. QED
  BY <1>1, <1>2, <1>3 DEF RowInv

\* A larger version and requests that remember nothing newer keep RowInv.
LEMMA RowMoves ==
  ASSUME TypeOK, RowInv, snap' \in Rows, snap'.step # "absent",
         snap' = snap \/ snap'.version > snap.version,
         \A p \in Procs : loc'[p].row \in {loc[p].row, NoRow}
  PROVE  RowInv'
<1>1. snap \in Rows /\ \A p \in Procs : loc[p].row \in Rows
  BY DEF TypeOK, Locs
<1>2. NoRow.version = 0
  BY DEF NoRow
<1>3. snap'.version > 0 /\ snap'.step \in Steps
  BY <1>1, <1>2 DEF RowInv, Rows, NoRow
<1>4. QED
  BY <1>1, <1>2, <1>3 DEF RowInv, Rows

\* Loading the current row keeps compare-and-swap sound.
LEMMA RowStays ==
  ASSUME TypeOK, RowInv, snap' = snap,
         \A p \in Procs : loc'[p].row \in {loc[p].row, snap, NoRow}
  PROVE  RowInv'
<1>1. snap \in Rows
  BY DEF TypeOK
<1>2. NoRow.version = 0
  BY DEF NoRow
<1>3. QED
  BY <1>1, <1>2 DEF RowInv, Rows

\* Each writer of the row raises its version or leaves it alone.
LEMMA RowStep == TypeOK /\ RowInv /\ [Next]_vars => RowInv'
<1> SUFFICES ASSUME TypeOK, RowInv, [Next]_vars PROVE RowInv'
  OBVIOUS
<1> USE DEF facts, native_vars, outcome, proc_vars, bounds
<1>0. NoLoc.row = NoRow /\ snap \in Rows /\ "absent" \notin Steps
  BY DEF NoLoc, TypeOK, Steps
<1>1. ASSUME NEW step \in Steps, NEW e \in BOOLEAN, MoveTo(step, e),
             \A p \in Procs : loc'[p].row \in {loc[p].row, NoRow}
      PROVE  RowInv'
  BY <1>0, <1>1, MoveToRow, RowMoves DEF Rows
<1>2. ASSUME NEW u \in Users, Decide(u, "approved") \/ Decide(u, "rejected")
      PROVE  RowInv'
  BY <1>1, <1>2 DEF Decide, Steps
<1>3. ASSUME NEW p \in Procs,
             Claim(p) \/ Launch(p) \/ RereadTask(p) \/ RecordEvidence(p)
               \/ AgentStops(p) \/ ExecutionRaises(p) \/ LoseClaim(p)
      PROVE  RowInv'
  BY <1>3, RowStays
  DEF Claim, Launch, RereadTask, RecordEvidence, AgentStops, ExecutionRaises, LoseClaim
<1>4. ASSUME NEW p \in Procs,
             CheckQuote(p) \/ CheckReview(p) \/ CheckResult(p) \/ Crash(p)
      PROVE  RowInv'
  <2>1. snap' = snap /\ (Return(p) \/ loc' = loc)
    BY <1>4 DEF CheckQuote, CheckReview, CheckResult, Crash
  <2>2. QED
    BY <1>0, <2>1, ReturnQuiet, RowStays
<1>5. ASSUME NEW p \in Procs, ReadTask(p)
      PROVE  RowInv'
  BY <1>5, RowStays DEF ReadTask, TypeOK, Locs
<1>6. ASSUME NEW p \in Procs, LoadPlan(p)
      PROVE  RowInv'
  BY <1>6, RowStays DEF LoadPlan, TypeOK, Locs
<1>7. ASSUME NEW p \in Procs, SaveQuotePlan(p)
      PROVE  RowInv'
  <2>1. CASE CanSavePlan(loc[p].row, snap)
    <3>1. PICK plan \in Plans : snap' = SavePlan(loc[p].row, snap, plan)
      BY <1>7, <2>1, PlanForType DEF SaveQuotePlan
    <3>2. \A q \in Procs : loc'[q].row \in {loc[q].row, NoRow}
      BY <1>7, <2>1 DEF SaveQuotePlan, TypeOK, Locs
    <3>3. QED
      BY <2>1, <3>1, <3>2, SavePlanRow, RowMoves
  <2>2. CASE ~CanSavePlan(loc[p].row, snap)
    <3>1. Return(p) /\ snap' = snap
      BY <1>7, <2>2 DEF SaveQuotePlan
    <3>2. QED
      BY <1>0, <3>1, ReturnQuiet, RowStays
  <2>3. QED
    BY <2>1, <2>2
<1>8. ASSUME NEW p \in Procs, Start(p)
      PROVE  RowInv'
  <2>1. \/ loc' = loc /\ MoveTo("running", FALSE)
        \/ Return(p) /\ snap' = snap
    BY <1>8, Zenon DEF Start
  <2>2. QED
    BY <1>0, <1>1, <2>1, ReturnQuiet, RowStays DEF Steps
<1>9. ASSUME NEW p \in Procs, PersistExtracted(p)
      PROVE  RowInv'
  <2>1. \/ loc' = loc /\ snap' = snap
        \/ Return(p) /\ (MoveTo("completed", TRUE) \/ snap' = snap)
    BY <1>9, Zenon DEF PersistExtracted, PersistQuote
  <2>2. QED
    BY <1>0, <1>1, <2>1, ReturnQuiet, RowStays DEF Steps
<1>10. ASSUME NEW p \in Procs, CreateReview(p)
       PROVE  RowInv'
  <2>1. Return(p) /\ (MoveTo("needs_human", FALSE) \/ snap' = snap)
    BY <1>10, Zenon DEF CreateReview
  <2>2. QED
    BY <1>0, <1>1, <2>1, ReturnQuiet, RowStays DEF Steps
<1>11. ASSUME NEW p \in Procs, NEW s \in {"completed", "failed", "terminated", "timed_out"},
              AgentDecides(p, s)
       PROVE  RowInv'
  BY <1>11, RowStays DEF AgentDecides, TypeOK, Locs, Statuses
<1>12. ASSUME NEW p \in Procs, AgentWrites(p)
       PROVE  RowInv'
  BY <1>12, RowStays DEF AgentWrites, TypeOK, Locs, Statuses
<1>13. CASE Operator
  <2>1. loc' = loc /\ \/ snap' = snap
                       \/ \E step \in Steps : MoveTo(step, FALSE)
    BY <1>13
    DEF Operator, CreateSupplierQuote, ResolveManually, ResolveBySkipping,
        TerminateReads, ResolveByTerminating, TerminateRollsBack, PersistQuote, Steps
  <2>2. QED
    BY <1>1, <2>1, RowStays
<1>14. CASE CancelValidates \/ CancelWrites
  BY <1>14, RowStays DEF CancelValidates, CancelWrites
<1>15. CASE UNCHANGED vars
  BY <1>15, RowStays DEF vars
<1>16. QED
  BY <1>2, <1>3, <1>4, <1>5, <1>6, <1>7, <1>8, <1>9, <1>10, <1>11, <1>12,
     <1>13, <1>14, <1>15 DEF Next, Recovery, Agent

\* The attached snapshot agrees with the approval.
LEMMA FactsInit == Init => FactsInv
<1> SUFFICES ASSUME Init PROVE FactsInv
  OBVIOUS
<1>1. CASE InitAttached
  <2>1. PICK step \in {"ready", "awaiting_approval"} :
            /\ snap = Advance(NoRow, step, FALSE, FALSE)
            /\ step = "awaiting_approval" <=> risky
    BY <1>1, Zenon DEF InitAttached
  <2>2. snap.step = step
    <3>1. step \in Steps
      BY DEF Steps
    <3>2. Advance(NoRow, step, FALSE, FALSE).step = step
      BY <3>1, FirstRow
    <3>3. QED
      BY <2>1, <3>2
  <2>3. approval = IF risky THEN "pending" ELSE "none"
    BY <1>1 DEF InitAttached
  <2>4. QED
    BY <2>1, <2>2, <2>3 DEF Init, FactsInv, StepMatchesFacts
<1>2. CASE InitLegacy
  <2>1. snap.step = "absent" /\ approval # "rejected"
    BY <1>2 DEF InitLegacy, NoRow
  <2>2. QED
    BY <2>1 DEF Init, FactsInv, StepMatchesFacts
<1>3. QED
  BY <1>1, <1>2 DEF Init

\* Actions that leave the snapshot and everything it is compared with alone.
LEMMA FactsQuiet ==
  ASSUME FactsInv, UNCHANGED <<snap, approval, quote, review, reviewCount, resolving>>
  PROVE  FactsInv'
  BY DEF FactsInv, StepMatchesFacts

\* A task without a snapshot has neither quote nor review nor refusal.
LEMMA AbsentFacts ==
  ASSUME FactsInv, snap.step = "absent"
  PROVE  quote = "none" /\ review \notin {"pending", "resolved", "terminated"}
         /\ approval # "rejected"
  BY DEF FactsInv, StepMatchesFacts

\* Persisting a quote, alone or with the resolution of the pending review.
LEMMA PersistFacts ==
  ASSUME TypeOK, RowInv, FactsInv, NEW by \in {"extracted", "manual"},
         NEW e \in BOOLEAN, PersistQuote(by, e), approval' = approval,
         UNCHANGED <<reviewCount, resolving>>,
         review' = review \/ (ReviewOpen /\ review' = "resolved")
  PROVE  FactsInv'
<1>1. /\ quote = "none" /\ quote' = by
      /\ snap'.step = "completed"
      /\ \/ snap.step = "completed"
         \/ snap.step = "absent"
         \/ "completed" \in Allowed(snap.step)
  BY MoveToRow DEF PersistQuote, Steps
<1>2. snap.step \in {"absent", "ready", "running", "needs_human"}
  BY <1>1 DEF Allowed, FactsInv, StepMatchesFacts
<1>3. QED
  BY <1>1, <1>2 DEF FactsInv, StepMatchesFacts, ReviewOpen

\* Each handler moves step, quote, approval and review together.
LEMMA FactsStep ==
  TypeOK /\ RunInv /\ AuthInv /\ RowInv /\ FactsInv /\ [Next]_vars => FactsInv'
<1> SUFFICES ASSUME TypeOK, RunInv, AuthInv, RowInv, FactsInv, [Next]_vars
             PROVE  FactsInv'
  OBVIOUS
<1> USE DEF facts, native_vars, outcome, proc_vars, bounds
<1>1. ASSUME NEW u \in Users, NEW d \in {"approved", "rejected"}, Decide(u, d)
      PROVE  FactsInv'
  <2> DEFINE step == IF d = "approved" THEN "ready" ELSE "rejected"
  <2>1. /\ approval = "pending" /\ approval' = d
        /\ UNCHANGED <<quote, review, reviewCount, resolving>>
        /\ MoveTo(step, FALSE)
    BY <1>1 DEF Decide
  <2>2. /\ snap'.step = step
        /\ \/ snap.step = step
           \/ snap.step = "absent"
           \/ step \in Allowed(snap.step)
    BY <2>1, MoveToRow DEF Steps
  <2>3. snap.step \in {"absent", "ready", "awaiting_approval"}
    BY <2>1, <2>2 DEF Allowed, FactsInv, StepMatchesFacts
  <2>4. QED
    BY <2>1, <2>2, <2>3 DEF FactsInv, StepMatchesFacts
<1>2. ASSUME NEW p \in Procs,
             Claim(p) \/ CheckQuote(p) \/ CheckReview(p) \/ ReadTask(p) \/ LoadPlan(p)
      PROVE  FactsInv'
  BY <1>2, FactsQuiet DEF Claim, CheckQuote, CheckReview, ReadTask, LoadPlan
<1>3. ASSUME NEW p \in Procs, SaveQuotePlan(p)
      PROVE  FactsInv'
  <2>1. pc[p] # "idle" /\ UNCHANGED <<approval, quote, review, reviewCount, resolving>>
    BY <1>3 DEF SaveQuotePlan
  <2>2. CASE CanSavePlan(loc[p].row, snap)
    <3>1. PICK plan \in Plans : snap' = SavePlan(loc[p].row, snap, plan)
      BY <1>3, <2>2, PlanForType DEF SaveQuotePlan
    <3>2. /\ snap.step \in {"absent", "ready", "running"}
          /\ snap'.step = (IF snap.step = "absent" THEN "ready" ELSE snap.step)
      BY <2>2, <3>1, SavePlanRow
    <3>3. QED
      BY <2>1, <3>2 DEF FactsInv, StepMatchesFacts
  <2>3. CASE ~CanSavePlan(loc[p].row, snap)
    BY <1>3, <2>3, FactsQuiet DEF SaveQuotePlan
  <2>4. QED
    BY <2>2, <2>3
<1>4. ASSUME NEW p \in Procs, Start(p)
      PROVE  FactsInv'
  <2>1. pc[p] # "idle" /\ UNCHANGED <<approval, quote, review, reviewCount, resolving>>
    BY <1>4 DEF Start
  <2>2. MoveTo("running", FALSE) \/ snap' = snap
    BY <1>4, Zenon DEF Start
  <2>3. CASE MoveTo("running", FALSE)
    <3>1. /\ snap'.step = "running"
          /\ \/ snap.step = "running"
             \/ snap.step = "absent"
             \/ "running" \in Allowed(snap.step)
      BY <2>3, MoveToRow DEF Steps
    <3>2. snap.step \in {"running", "absent", "ready"}
      BY <3>1 DEF Allowed
    <3>3. QED
      BY <2>1, <3>1, <3>2 DEF FactsInv, StepMatchesFacts
  <2>4. QED
    BY <2>1, <2>2, <2>3, FactsQuiet
<1>5. ASSUME NEW p \in Procs,
             Launch(p) \/ RereadTask(p) \/ CheckResult(p) \/ Crash(p) \/ LoseClaim(p)
      PROVE  FactsInv'
  BY <1>5, FactsQuiet DEF Launch, RereadTask, CheckResult, Crash, LoseClaim
<1>6. ASSUME NEW p \in Procs, Agent(p)
      PROVE  FactsInv'
  BY <1>6, FactsQuiet
  DEF Agent, AgentDecides, AgentWrites, RecordEvidence, AgentStops, ExecutionRaises
<1>7. ASSUME NEW p \in Procs, PersistExtracted(p)
      PROVE  FactsInv'
  <2>1. UNCHANGED <<approval, review, reviewCount, resolving>>
    BY <1>7 DEF PersistExtracted
  <2>2. PersistQuote("extracted", TRUE) \/ UNCHANGED <<snap, quote>>
    BY <1>7, Zenon DEF PersistExtracted
  <2>3. QED
    BY <2>1, <2>2, PersistFacts, FactsQuiet
<1>8. ASSUME NEW p \in Procs, CreateReview(p)
      PROVE  FactsInv'
  <2>1. UNCHANGED <<approval, quote, resolving>>
    BY <1>8 DEF CreateReview
  <2>2. CASE ReviewNeeded /\ CanAdvance(snap, "needs_human")
    <3>1. /\ review # "pending" /\ review' = "pending"
          /\ reviewCount' = reviewCount + 1
          /\ MoveTo("needs_human", FALSE)
      BY <1>8, <2>2 DEF CreateReview, ReviewNeeded
    <3>2. /\ snap'.step = "needs_human"
          /\ \/ snap.step = "needs_human"
             \/ snap.step = "absent"
             \/ "needs_human" \in Allowed(snap.step)
      BY <3>1, MoveToRow DEF Steps
    <3>3. snap.step \in {"absent", "ready", "running"}
      BY <3>1, <3>2 DEF Allowed, FactsInv, StepMatchesFacts
    <3>4. review = "none"
      BY <3>1, <3>3 DEF FactsInv, StepMatchesFacts, TypeOK
    <3>5. QED
      BY <2>1, <3>1, <3>2, <3>3, <3>4 DEF FactsInv, StepMatchesFacts
  <2>3. CASE ~(ReviewNeeded /\ CanAdvance(snap, "needs_human"))
    <3>1. UNCHANGED <<snap, review, reviewCount>>
      BY <1>8, <2>3, Zenon DEF CreateReview
    <3>2. QED
      BY <2>1, <3>1, FactsQuiet
  <2>4. QED
    BY <2>2, <2>3
<1>9. CASE CreateSupplierQuote \/ ResolveManually
  BY <1>9, PersistFacts DEF CreateSupplierQuote, ResolveManually
<1>10. ASSUME NEW step \in {"skipped", "terminated"}, MoveTo(step, FALSE),
              review = "pending", resolving' = NoRead,
              review' = (IF step = "skipped" THEN "resolved" ELSE "terminated"),
              UNCHANGED <<approval, quote, reviewCount>>
       PROVE  FactsInv'
  <2>1. /\ snap'.step = step
        /\ \/ snap.step = step
           \/ snap.step = "absent"
           \/ step \in Allowed(snap.step)
    BY <1>10, MoveToRow DEF Steps
  <2>2. snap.step = "needs_human"
    BY <1>10, <2>1 DEF Allowed, FactsInv, StepMatchesFacts
  <2>3. QED
    BY <1>10, <2>1, <2>2 DEF FactsInv, StepMatchesFacts
<1>11. CASE ResolveBySkipping
  BY <1>10, <1>11 DEF ResolveBySkipping, ReviewOpen
<1>12. CASE ResolveByTerminating
  BY <1>10, <1>12 DEF ResolveByTerminating, FactsInv
<1>13. CASE TerminateReads \/ TerminateRollsBack
  BY <1>13 DEF TerminateReads, TerminateRollsBack, ReviewOpen, FactsInv, StepMatchesFacts
<1>14. CASE CancelValidates \/ CancelWrites
  BY <1>14, FactsQuiet DEF CancelValidates, CancelWrites
<1>15. CASE UNCHANGED vars
  BY <1>15, FactsQuiet DEF vars
<1>16. QED
  BY <1>1, <1>2, <1>3, <1>4, <1>5, <1>6, <1>7, <1>8, <1>9, <1>11, <1>12,
     <1>13, <1>14, <1>15 DEF Next, Recovery, Operator

\* All parts together are inductive.
THEOREM Invariance == Spec => [](TypeOK /\ Inv)
<1>1. Init => TypeOK /\ Inv
  BY TypeInit, RunInit, AuthInit, RowInit, FactsInit DEF Inv
<1>2. TypeOK /\ Inv /\ [Next]_vars => (TypeOK /\ Inv)'
  BY TypeStep, RunStep, AuthStep, RowStep, FactsStep DEF Inv
<1>3. QED
  BY <1>1, <1>2, PTL DEF Spec

\* The browser works on a risky task only under the approval of a user other
\* than the requester (_decide, recover_quote_task).
THEOREM Authorised == Spec => []RunIsAuthorised
<1>1. TypeOK /\ Inv => RunIsAuthorised
  BY DEF Inv, AuthInv, RunIsAuthorised
<1>2. QED
  BY <1>1, Invariance, PTL

\* A rejected task is canceled for good and was never executed.
THEOREM RejectedIsFinal == Spec => []RejectionStops
<1>1. Inv => RejectionStops
  BY DEF Inv, AuthInv
<1>2. QED
  BY <1>1, Invariance, PTL

\* The enterprise step of the snapshot agrees with approval, quote and review.
THEOREM SnapshotTruthful == Spec => []StepMatchesFacts
<1>1. Inv => StepMatchesFacts
  BY DEF Inv, FactsInv
<1>2. QED
  BY <1>1, Invariance, PTL

\* A task is put in front of a human once at most.
THEOREM SingleReview == Spec => []AtMostOneReview
<1>1. Inv => AtMostOneReview
  BY DEF Inv, FactsInv, AtMostOneReview
<1>2. QED
  BY <1>1, Invariance, PTL

(***************************************************************************)
(* The final snapshot.                                                     *)
(***************************************************************************)

\* No step leaves a terminal one.
LEMMA TerminalStays ==
  ASSUME TypeOK, RowInv, snap.step \in TerminalSteps,
         NEW step \in Steps, NEW e \in BOOLEAN, MoveTo(step, e)
  PROVE  snap' = snap
<1>1. snap.step = step => snap' = snap
  BY DEF MoveTo, Advance
<1>2. Allowed(snap.step) = {} /\ snap.step # "absent"
  BY DEF Allowed, TerminalSteps
<1>3. QED
  BY <1>1, <1>2, MoveToRow

\* No handler finds a way out of a terminal step.
LEMMA TerminalStep ==
  TypeOK /\ RowInv /\ [Next]_vars => (snap.step \in TerminalSteps => snap' = snap)
<1> SUFFICES ASSUME TypeOK, RowInv, [Next]_vars, snap.step \in TerminalSteps
             PROVE  snap' = snap
  OBVIOUS
<1> USE DEF facts, native_vars, outcome, proc_vars, bounds
<1>1. ASSUME NEW u \in Users, Decide(u, "approved") \/ Decide(u, "rejected")
      PROVE  snap' = snap
  BY <1>1, TerminalStays DEF Decide, Steps
<1>2. ASSUME NEW p \in Procs, SaveQuotePlan(p)
      PROVE  snap' = snap
  <2>1. CASE CanSavePlan(loc[p].row, snap)
    <3>1. PICK plan \in Plans : snap' = SavePlan(loc[p].row, snap, plan)
      BY <1>2, <2>1, PlanForType DEF SaveQuotePlan
    <3>2. snap.step \in {"absent", "ready", "running"}
      BY <2>1, <3>1, SavePlanRow
    <3>3. QED
      BY <3>2 DEF TerminalSteps
  <2>2. CASE ~CanSavePlan(loc[p].row, snap)
    BY <1>2, <2>2 DEF SaveQuotePlan
  <2>3. QED
    BY <2>1, <2>2
<1>3. ASSUME NEW p \in Procs, Start(p) \/ PersistExtracted(p) \/ CreateReview(p)
      PROVE  snap' = snap
  <2>1. \/ snap' = snap
        \/ MoveTo("running", FALSE) \/ MoveTo("completed", TRUE)
        \/ MoveTo("needs_human", FALSE)
    BY <1>3, Zenon DEF Start, PersistExtracted, PersistQuote, CreateReview
  <2>2. QED
    BY <2>1, TerminalStays DEF Steps
<1>4. CASE Operator
  <2>1. snap' = snap \/ \E step \in Steps : MoveTo(step, FALSE)
    BY <1>4
    DEF Operator, CreateSupplierQuote, ResolveManually, ResolveBySkipping,
        TerminateReads, ResolveByTerminating, TerminateRollsBack, PersistQuote, Steps
  <2>2. QED
    BY <2>1, TerminalStays
<1>5. ASSUME NEW p \in Procs,
             Claim(p) \/ CheckQuote(p) \/ CheckReview(p) \/ ReadTask(p)
               \/ LoadPlan(p) \/ Launch(p) \/ RereadTask(p) \/ CheckResult(p)
               \/ Agent(p) \/ Crash(p) \/ LoseClaim(p)
      PROVE  snap' = snap
  BY <1>5
  DEF Claim, CheckQuote, CheckReview, ReadTask, LoadPlan, Launch, RereadTask,
      CheckResult, Agent, AgentDecides, AgentWrites, RecordEvidence, AgentStops,
      ExecutionRaises, Crash, LoseClaim
<1>6. CASE CancelValidates \/ CancelWrites \/ UNCHANGED vars
  BY <1>6 DEF CancelValidates, CancelWrites, vars
<1>7. QED
  BY <1>1, <1>2, <1>3, <1>4, <1>5, <1>6 DEF Next, Recovery

\* A snapshot at a final step is never written again.
THEOREM FinalSnapshot == Spec => TerminalSnapshotFrozen
<1>1. TypeOK /\ Inv /\ [Next]_vars
        => [snap.step \in TerminalSteps => snap' = snap]_snap
  BY TerminalStep DEF Inv
<1>2. QED
  BY <1>1, Invariance, PTL DEF Spec, TerminalSnapshotFrozen

================================================================================
