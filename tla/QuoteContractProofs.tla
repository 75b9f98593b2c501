---------------------------- MODULE QuoteContractProofs ----------------------------
(***************************************************************************)
(* Further theorems about QuoteLifecycle: where a quote and a plan say     *)
(* they come from, for any number of requests, crashes and lost claims;    *)
(* and, as long as no claim is lost (MaxClaimLosses = 0), the budget of    *)
(* replans and the refinement of QuoteContract.                            *)
(***************************************************************************)
EXTENDS QuoteLifecycleProofs

(***************************************************************************)
(* What a step can do, seen from one part of the state.                    *)
(***************************************************************************)

RequestStep(p) == Claim(p) \/ Recovery(p) \/ Agent(p) \/ Crash(p) \/ LoseClaim(p)

AtBrowser == {"launch", "executing", "writing"}

AgentOutcomes == {"completed", "failed", "terminated", "timed_out"}

\* A step of one request disturbs no other request.
LEMMA OthersStay ==
  ASSUME TypeOK, NEW p \in Procs, RequestStep(p)
  PROVE  \A q \in Procs \ {p} : pc'[q] = pc[q] /\ loc'[q] = loc[q]
<1> USE DEF facts, native_vars, outcome, proc_vars, bounds
<1>1. CASE \/ Claim(p) \/ LoseClaim(p) \/ Launch(p) \/ RereadTask(p)
           \/ RecordEvidence(p) \/ AgentStops(p) \/ ExecutionRaises(p)
  BY <1>1
  DEF TypeOK, Goto, Claim, LoseClaim, Launch, RereadTask, RecordEvidence, AgentStops,
      ExecutionRaises
<1>2. CASE \/ CheckQuote(p) \/ CheckReview(p) \/ CheckResult(p) \/ CreateReview(p)
           \/ Crash(p)
  BY <1>2
  DEF TypeOK, Goto, Return, CheckQuote, CheckReview, CheckResult, CreateReview, Crash
<1>3. CASE ReadTask(p) \/ LoadPlan(p) \/ AgentWrites(p)
  BY <1>3 DEF TypeOK, Goto, ReadTask, LoadPlan, AgentWrites
<1>4. CASE SaveQuotePlan(p)
  <2>1. Return(p) \/ \E next \in PCs : Goto(p, next) /\ loc' = [loc EXCEPT ![p].row = NoRow]
    BY <1>4, Zenon DEF SaveQuotePlan, PCs
  <2>2. QED
    BY <2>1 DEF Return, Goto, TypeOK
<1>5. CASE Start(p) \/ PersistExtracted(p)
  <2>1. Return(p) \/ \E next \in PCs : Goto(p, next) /\ loc' = loc
    BY <1>5, Zenon DEF Start, PersistExtracted, PCs
  <2>2. QED
    BY <2>1 DEF Return, Goto, TypeOK
<1>6. ASSUME NEW s \in AgentOutcomes, AgentDecides(p, s)
      PROVE  \A q \in Procs \ {p} : pc'[q] = pc[q] /\ loc'[q] = loc[q]
  BY <1>6 DEF TypeOK, Goto, AgentDecides
<1>7. QED
  BY <1>1, <1>2, <1>3, <1>4, <1>5, <1>6 DEF RequestStep, Recovery, Agent, AgentOutcomes

\* How a request gets to the places the invariants speak of, and what it can
\* remember of the task.
LEMMA Arrivals ==
  ASSUME TypeOK, NEW p \in Procs, RequestStep(p)
  PROVE  /\ pc'[p] = "launch" => pc[p] = "launch" \/ (Start(p) /\ native = "created")
         /\ pc'[p] = "executing" => pc[p] = "executing" \/ Launch(p)
         /\ pc'[p] = "writing" => pc[p] \in {"writing", "executing"}
         /\ pc'[p] = "persist" => pc[p] = "persist" \/ extraction = "valid"
         /\ pc'[p] # "idle" /\ pc[p] = "idle" => Claim(p)
         /\ pc'[p] \notin {"idle", "check_quote", "check_review"} =>
               \/ pc[p] \notin {"idle", "check_quote", "check_review"}
               \/ pc[p] = "check_review" /\ reviewCount = 0
         /\ pc'[p] \in {"load_plan", "save_plan"} =>
               \/ pc[p] \in {"load_plan", "save_plan"} /\ loc'[p].seen = loc[p].seen
               \/ /\ pc[p] = "read_task" /\ loc'[p].seen = native
                  /\ native \in {"created", "completed"}
         /\ loc'[p].seen \in {loc[p].seen, native, "created"}
<1> USE DEF facts, native_vars, outcome, proc_vars, bounds
<1>0. NoLoc.seen = "created"
  BY DEF NoLoc
<1>1. CASE \/ Claim(p) \/ LoseClaim(p) \/ Launch(p) \/ RereadTask(p)
           \/ RecordEvidence(p) \/ AgentStops(p) \/ ExecutionRaises(p)
  BY <1>1
  DEF TypeOK, Goto, Claim, LoseClaim, Launch, RereadTask, RecordEvidence, AgentStops,
      ExecutionRaises
<1>2. CASE Return(p) /\ pc[p] # "idle"
  BY <1>0, <1>2 DEF TypeOK, Return
<1>3. CASE \/ CheckQuote(p) \/ CheckReview(p) \/ CheckResult(p) \/ CreateReview(p)
           \/ Crash(p)
  <2>1. /\ pc[p] # "idle"
        /\ \/ Return(p)
           \/ pc[p] = "check_quote" /\ Goto(p, "check_review") /\ loc' = loc
           \/ /\ pc[p] = "check_review" /\ reviewCount = 0
              /\ Goto(p, "read_task") /\ loc' = loc
           \/ /\ pc[p] = "check_result" /\ extraction = "valid"
              /\ Goto(p, "persist") /\ loc' = loc
           \/ pc[p] = "check_result" /\ Goto(p, "review") /\ loc' = loc
    <3>1. CASE CheckReview(p)
      <4>1. reviewCount \in Nat
        BY DEF TypeOK
      <4>2. QED
        BY <3>1, <4>1 DEF CheckReview
    <3>2. CASE CreateReview(p) \/ Crash(p)
      BY <3>2, Zenon DEF CreateReview, Crash
    <3>3. CASE CheckQuote(p) \/ CheckResult(p)
      BY <3>3 DEF CheckQuote, CheckResult
    <3>4. QED
      BY <1>3, <3>1, <3>2, <3>3
  <2>2. QED
    BY <1>2, <2>1 DEF Goto, TypeOK
<1>4. CASE ReadTask(p) \/ LoadPlan(p) \/ AgentWrites(p)
  BY <1>4 DEF TypeOK, Goto, ReadTask, LoadPlan, AgentWrites, Locs
<1>5. CASE SaveQuotePlan(p)
  <2>1. /\ pc[p] = "save_plan"
        /\ \/ Return(p)
           \/ \E next \in {"start", "check_result"} :
                 Goto(p, next) /\ loc' = [loc EXCEPT ![p].row = NoRow]
    BY <1>5, Zenon DEF SaveQuotePlan
  <2>2. QED
    BY <1>2, <2>1 DEF Goto, TypeOK, Locs
<1>6. CASE Start(p)
  <2>1. /\ pc[p] = "start"
        /\ Return(p) \/ (native = "created" /\ Goto(p, "launch") /\ loc' = loc)
    BY <1>6, Zenon DEF Start, MayStart
  <2>2. QED
    BY <1>2, <1>6, <2>1 DEF Goto, TypeOK
<1>7. CASE PersistExtracted(p)
  <2>1. pc[p] = "persist" /\ (Return(p) \/ (Goto(p, "review") /\ loc' = loc))
    BY <1>7, Zenon DEF PersistExtracted
  <2>2. QED
    BY <1>2, <2>1 DEF Goto, TypeOK
<1>8. CASE \E s \in AgentOutcomes : AgentDecides(p, s)
  <2>1. PICK s \in AgentOutcomes : AgentDecides(p, s)
    BY <1>8
  <2>2. QED
    BY <2>1 DEF TypeOK, Goto, AgentDecides, Locs
<1>9. QED
  BY <1>1, <1>3, <1>4, <1>5, <1>6, <1>7, <1>8 DEF RequestStep, Recovery, Agent, AgentOutcomes

\* Whatever happens is a step of one request, or leaves all of them alone.
LEMMA WhoSteps ==
  ASSUME [Next]_vars
  PROVE  (\E p \in Procs : RequestStep(p)) \/ UNCHANGED proc_vars
BY DEF Next, RequestStep, Decide, Operator, CreateSupplierQuote, ResolveManually,
       ResolveBySkipping, TerminateReads, ResolveByTerminating, TerminateRollsBack,
       CancelValidates, CancelWrites, vars, proc_vars

\* Who writes the status of the task, its extraction and its evidence.
LEMMA TaskStep ==
  ASSUME TypeOK, RunInv, [Next]_vars
  PROVE  /\ \/ native' = native
            \/ native' \in {"canceled", "terminated"}
            \/ /\ native' = "running"
               /\ native = "created" \/ \E p \in Procs : pc[p] = "launch"
            \/ \E p \in Procs : AgentWrites(p)
         /\ extraction' = extraction \/ \E p \in Procs : AgentWrites(p)
         /\ \/ evidence' = evidence
            \/ evidence' = TRUE /\ \E p \in Procs : pc[p] = "executing"
         /\ \/ browserRuns' = browserRuns
            \/ browserRuns' = 1 /\ \E p \in Procs : pc[p] = "launch"
<1> USE DEF facts, native_vars, outcome, proc_vars, bounds
<1> DEFINE Goal ==
      /\ \/ native' = native
         \/ native' \in {"canceled", "terminated"}
         \/ /\ native' = "running"
            /\ native = "created" \/ \E p \in Procs : pc[p] = "launch"
         \/ \E p \in Procs : AgentWrites(p)
      /\ extraction' = extraction \/ \E p \in Procs : AgentWrites(p)
      /\ \/ evidence' = evidence
         \/ evidence' = TRUE /\ \E p \in Procs : pc[p] = "executing"
      /\ \/ browserRuns' = browserRuns
         \/ browserRuns' = 1 /\ \E p \in Procs : pc[p] = "launch"
<1>1. CASE \E u \in Users : Decide(u, "approved") \/ Decide(u, "rejected")
  <2>1. native' \in {native, "canceled"} /\ UNCHANGED <<extraction, evidence, browserRuns>>
    BY <1>1, Zenon DEF Decide
  <2>2. QED
    BY <2>1
<1>2. ASSUME NEW p \in Procs, Start(p) \/ Launch(p)
      PROVE  Goal
  <2>1. CASE Start(p)
    <3>1. /\ \/ native' = native
             \/ native = "created" /\ native' = "running"
          /\ UNCHANGED <<extraction, evidence, browserRuns>>
      BY <2>1, Zenon DEF Start, MayStart
    <3>2. QED
      BY <3>1
  <2>2. CASE Launch(p)
    BY <2>2 DEF Launch, RunInv
  <2>3. QED
    BY <1>2, <2>1, <2>2
<1>3. ASSUME NEW p \in Procs, AgentWrites(p)
      PROVE  Goal
  BY <1>3 DEF AgentWrites
<1>4. ASSUME NEW p \in Procs, RecordEvidence(p)
      PROVE  Goal
  BY <1>4 DEF RecordEvidence
<1>5. CASE UNCHANGED native_vars
  BY <1>5
<1>6. ASSUME NEW p \in Procs,
             \/ Claim(p) \/ CheckQuote(p) \/ CheckReview(p) \/ ReadTask(p) \/ LoadPlan(p)
             \/ SaveQuotePlan(p) \/ RereadTask(p) \/ CheckResult(p) \/ PersistExtracted(p)
             \/ CreateReview(p) \/ Crash(p) \/ LoseClaim(p) \/ AgentStops(p)
             \/ ExecutionRaises(p) \/ \E s \in AgentOutcomes : AgentDecides(p, s)
      PROVE  Goal
  BY <1>5, <1>6, Zenon
  DEF Claim, CheckQuote, CheckReview, ReadTask, LoadPlan, SaveQuotePlan, RereadTask,
      CheckResult, PersistExtracted, CreateReview, Crash, LoseClaim, AgentStops,
      ExecutionRaises, AgentDecides
<1>7. CASE Operator \/ CancelValidates \/ CancelWrites \/ UNCHANGED vars
  BY <1>7
  DEF Operator, CreateSupplierQuote, ResolveManually, ResolveBySkipping,
      TerminateReads, ResolveByTerminating, TerminateRollsBack, CancelValidates,
      CancelWrites, vars
<1>8. QED
  BY <1>1, <1>2, <1>3, <1>4, <1>6, <1>7 DEF Next, Recovery, Agent, AgentOutcomes

(***************************************************************************)
(* The extraction is written once, by the one request at the browser.      *)
(***************************************************************************)

\* Whoever stands at the browser stands there alone and before any result,
\* and a request that is about to persist has seen a valid one.
ExtractionInv ==
    /\ native = "completed" => extraction # "none"
    /\ native = "created" => extraction = "none"
    /\ \A p \in Procs : loc[p].seen = "completed" => extraction # "none"
    /\ \A p \in Procs : pc[p] \in AtBrowser => extraction = "none" /\ native # "created"
    /\ \A p, q \in Procs : pc[p] \in AtBrowser /\ pc[q] \in AtBrowser => p = q
    /\ \A p \in Procs : pc[p] = "persist" => extraction = "valid"

\* A task starts without an extraction, or completed with one.
LEMMA ExtractionInit == Init => ExtractionInv
<1> SUFFICES ASSUME Init PROVE ExtractionInv
  OBVIOUS
<1>1. \A p \in Procs : pc[p] = "idle" /\ loc[p].seen = "created"
  BY DEF Init, NoLoc
<1>2. /\ native = "completed" => extraction # "none"
      /\ native = "created" => extraction = "none"
  <2>1. CASE InitAttached
    BY <2>1 DEF InitAttached
  <2>2. CASE InitLegacy
    BY <2>2 DEF InitLegacy
  <2>3. QED
    BY <2>1, <2>2 DEF Init
<1>3. QED
  BY <1>1, <1>2 DEF ExtractionInv, AtBrowser

\* What AgentWrites leaves behind.
LEMMA WriteEffect ==
  ASSUME TypeOK, RunInv, NEW p \in Procs, AgentWrites(p)
  PROVE  /\ pc[p] = "writing" /\ pc'[p] = "reread" /\ loc'[p].seen = loc[p].seen
         /\ native' # "created"
         /\ \/ native' = "completed" /\ extraction' \in {"valid", "invalid"}
            \/ native' # "completed" /\ extraction' = extraction
  BY DEF AgentWrites, Goto, TypeOK, Locs, RunInv

\* Only a created task is started, so nobody joins the one at the browser.
LEMMA ExtractionStep ==
  TypeOK /\ RunInv /\ ExtractionInv /\ [Next]_vars => ExtractionInv'
<1> SUFFICES ASSUME TypeOK, RunInv, ExtractionInv, [Next]_vars PROVE ExtractionInv'
  OBVIOUS
<1>1. ASSUME NEW p \in Procs, AgentWrites(p)
      PROVE  ExtractionInv'
  <2>1. RequestStep(p) /\ pc[p] = "writing" /\ pc'[p] = "reread"
    BY <1>1, WriteEffect DEF RequestStep, Agent
  <2>2. \A q \in Procs \ {p} : pc'[q] = pc[q] /\ loc'[q] = loc[q]
    BY <2>1, OthersStay
  <2>3. extraction = "none" /\ \A q \in Procs \ {p} : pc[q] \notin AtBrowser /\ pc[q] # "persist"
    BY <2>1 DEF ExtractionInv, AtBrowser
  <2>4. \A q \in Procs : loc[q].seen # "completed"
    BY <2>3 DEF ExtractionInv
  <2>5. \A q \in Procs : pc'[q] \notin AtBrowser /\ pc'[q] # "persist"
                         /\ loc'[q].seen # "completed"
    BY <1>1, <2>1, <2>2, <2>3, <2>4, WriteEffect DEF AtBrowser
  <2>6. QED
    BY <1>1, <2>5, WriteEffect DEF ExtractionInv
<1>2. CASE ~ \E p \in Procs : AgentWrites(p)
  <2>1. /\ extraction' = extraction
        /\ \/ native' = native
           \/ native' \in {"canceled", "terminated"}
           \/ /\ native' = "running"
              /\ native = "created" \/ \E p \in Procs : pc[p] = "launch"
    BY <1>2, TaskStep
  <2>2. /\ native' = "completed" => extraction' # "none"
        /\ native' = "created" => extraction' = "none"
    BY <2>1 DEF ExtractionInv
  <2>3. CASE UNCHANGED proc_vars
    BY <2>1, <2>2, <2>3 DEF ExtractionInv, proc_vars
  <2>4. ASSUME NEW p \in Procs, RequestStep(p)
        PROVE  ExtractionInv'
    <3>1. \A q \in Procs \ {p} : pc'[q] = pc[q] /\ loc'[q] = loc[q]
      BY <2>4, OthersStay
    <3>2. \A q \in Procs : loc'[q].seen = "completed" => extraction' # "none"
      BY <2>1, <2>4, <3>1, Arrivals DEF ExtractionInv
    <3>3. \A q \in Procs : pc'[q] = "persist" => extraction' = "valid"
      BY <2>1, <2>4, <3>1, Arrivals DEF ExtractionInv
    <3>4. CASE Start(p) /\ native = "created"
      <4>1. \A q \in Procs : pc[q] \notin AtBrowser
        BY <3>4 DEF ExtractionInv
      <4>2. extraction' = "none"
        BY <2>1, <3>4 DEF ExtractionInv
      <4>3. pc'[p] \in AtBrowser => native' # "created"
        <5>1. Return(p) \/ native' = "running"
          BY <3>4, Zenon DEF Start
        <5>2. QED
          BY <5>1, ReturnQuiet DEF AtBrowser
      <4>4. QED
        BY <2>2, <3>1, <3>2, <3>3, <4>1, <4>2, <4>3 DEF ExtractionInv
    <3>5. CASE ~(Start(p) /\ native = "created")
      <4>1. pc'[p] \in AtBrowser => pc[p] \in AtBrowser
        BY <2>4, <3>5, Arrivals DEF AtBrowser, Launch
      <4>2. \A q \in Procs : pc'[q] \in AtBrowser => native' # "created"
        BY <2>1, <3>1, <4>1 DEF ExtractionInv
      <4>3. QED
        BY <2>1, <2>2, <3>1, <3>2, <3>3, <4>1, <4>2 DEF ExtractionInv
    <3>6. QED
      BY <3>4, <3>5
  <2>5. QED
    BY <2>3, <2>4, WhoSteps
<1>3. QED
  BY <1>1, <1>2

(***************************************************************************)
(* Where quote, skill and plan say they come from.                         *)
(***************************************************************************)

\* Who writes the snapshot and the quote, and what goes with it.
LEMMA SnapStep ==
  ASSUME TypeOK, [Next]_vars
  PROVE  \/ UNCHANGED <<snap, quote>>
         \/ /\ \E step \in Steps \ {"completed"} : MoveTo(step, FALSE)
            /\ UNCHANGED quote
         \/ /\ \/ PersistQuote("manual", FALSE)
               \/ PersistQuote("extracted", TRUE) /\ \E p \in Procs : pc[p] = "persist"
            /\ UNCHANGED native_vars
         \/ /\ \E p \in Procs : SaveQuotePlan(p) /\ CanSavePlan(loc[p].row, snap)
            /\ UNCHANGED quote
<1> USE DEF facts, outcome, proc_vars, bounds
<1>1. ASSUME NEW u \in Users, Decide(u, "approved") \/ Decide(u, "rejected")
      PROVE  (\E step \in Steps \ {"completed"} : MoveTo(step, FALSE)) /\ UNCHANGED quote
  BY <1>1 DEF Decide, Steps
<1>2. ASSUME NEW p \in Procs, Start(p) \/ CreateReview(p)
      PROVE  \/ UNCHANGED <<snap, quote>>
             \/ /\ \E step \in Steps \ {"completed"} : MoveTo(step, FALSE)
                /\ UNCHANGED quote
  <2>1. /\ UNCHANGED quote
        /\ UNCHANGED snap \/ MoveTo("running", FALSE) \/ MoveTo("needs_human", FALSE)
    BY <1>2, Zenon DEF Start, CreateReview
  <2>2. QED
    BY <2>1 DEF Steps
<1>3. ASSUME NEW p \in Procs, PersistExtracted(p)
      PROVE  \/ UNCHANGED <<snap, quote>>
             \/ PersistQuote("extracted", TRUE) /\ UNCHANGED native_vars /\ pc[p] = "persist"
  BY <1>3, Zenon DEF PersistExtracted
<1>4. ASSUME NEW p \in Procs, SaveQuotePlan(p)
      PROVE  UNCHANGED quote /\ (UNCHANGED snap \/ CanSavePlan(loc[p].row, snap))
  BY <1>4, Zenon DEF SaveQuotePlan
<1>5. CASE Operator
  <2>1. \/ UNCHANGED <<snap, quote>>
        \/ /\ MoveTo("skipped", FALSE) \/ MoveTo("terminated", FALSE)
           /\ UNCHANGED quote
        \/ PersistQuote("manual", FALSE) /\ UNCHANGED native_vars
    BY <1>5, Zenon
    DEF Operator, CreateSupplierQuote, ResolveManually, ResolveBySkipping,
        TerminateReads, ResolveByTerminating, TerminateRollsBack
  <2>2. QED
    BY <2>1 DEF Steps
<1>6. ASSUME NEW p \in Procs,
             \/ Claim(p) \/ CheckQuote(p) \/ CheckReview(p) \/ ReadTask(p) \/ LoadPlan(p)
             \/ Launch(p) \/ RereadTask(p) \/ CheckResult(p) \/ Agent(p) \/ Crash(p)
             \/ LoseClaim(p)
      PROVE  UNCHANGED <<snap, quote>>
  BY <1>6
  DEF Claim, CheckQuote, CheckReview, ReadTask, LoadPlan, Launch, RereadTask,
      CheckResult, Agent, AgentDecides, AgentWrites, RecordEvidence, AgentStops,
      ExecutionRaises, Crash, LoseClaim
<1>7. CASE CancelValidates \/ CancelWrites \/ UNCHANGED vars
  BY <1>7 DEF CancelValidates, CancelWrites, vars
<1>8. QED
  BY <1>1, <1>2, <1>3, <1>4, <1>5, <1>6, <1>7 DEF Next, Recovery

\* The skill a step projects to, and the plan it leaves.
LEMMA MoveToParts ==
  ASSUME TypeOK, NEW step \in Steps, NEW e \in BOOLEAN, MoveTo(step, e), snap.step # step
  PROVE  /\ snap'.skill = SkillFor(step, native = "completed", e)
         /\ snap'.plan = PlanAfter(snap.plan, step, native = "completed")
         /\ snap'.replans = snap.replans
         /\ snap'.step = step
  BY DEF MoveTo, Advance

\* What save_quote_plan leaves: a row that has a plan keeps it, counts a
\* replan, or is new.
LEMMA SavePlanParts ==
  ASSUME TypeOK, RowInv, NEW p \in Procs, NEW plan \in Plans,
         CanSavePlan(loc[p].row, snap), snap' = SavePlan(loc[p].row, snap, plan)
  PROVE  /\ snap.step \in {"absent", "ready", "running"}
         /\ snap'.step = (IF snap.step = "absent" THEN "ready" ELSE snap.step)
         /\ \/ snap.step = "absent" /\ snap'.skill = "pending"
            \/ snap'.skill = snap.skill
         /\ \/ snap' = snap /\ snap.plan = plan
            \/ snap'.plan = plan /\ snap.plan = NoPlan /\ snap'.replans = snap.replans
            \/ /\ snap'.plan = plan /\ snap.plan # NoPlan /\ snap.plan # plan
               /\ snap'.replans = snap.replans + 1
<1> DEFINE row == loc[p].row
           base == PlanBase(row, snap)
           fresh == Advance(NoRow, "ready", FALSE, FALSE)
<1>1. /\ snap.step \in {"absent", "ready", "running"}
      /\ snap'.step = (IF snap.step = "absent" THEN "ready" ELSE snap.step)
  BY SavePlanRow
<1>2. row.version # 0 => row = snap
  BY DEF CanSavePlan, RowInv
<1>3. /\ fresh.skill = "pending" /\ fresh.plan = NoPlan /\ fresh.replans = 0
      /\ fresh.step = "ready"
  BY DEF Advance, NoRow, SkillFor, PlanAfter
<1>4. CASE snap.version # 0
  <2>1. base = snap
    BY <1>2, <1>4 DEF PlanBase
  <2>2. \/ snap' = snap /\ snap.plan = plan
        \/ snap' = Replanned(snap, plan) /\ snap.plan # plan
    BY <2>1 DEF SavePlan
  <2>3. snap \in Rows
    BY DEF TypeOK
  <2>4. QED
    BY <1>1, <2>2, <2>3 DEF Replanned, Rows
<1>5. CASE snap.version = 0
  <2>1. snap.plan = NoPlan /\ snap.replans = 0 /\ snap.step = "absent"
    BY <1>5 DEF RowInv, NoRow
  <2>2. row.version = 0
    BY <1>2, <1>5
  <2>3. base = fresh
    BY <1>5, <2>2 DEF PlanBase
  <2>4. \/ snap' = fresh /\ fresh.plan = plan
        \/ snap' = Replanned(fresh, plan)
    BY <2>3 DEF SavePlan
  <2> HIDE DEF fresh
  <2>5. snap'.plan = plan /\ snap'.replans = 0 /\ snap'.skill = "pending"
    BY <1>3, <2>4 DEF Replanned
  <2>6. QED
    BY <1>1, <2>1, <2>5
<1>6. QED
  BY <1>4, <1>5

\* The projected skill agrees with the step, and an extracted quote rests on
\* a valid extraction and on evidence that nobody takes away.
SkillInv ==
    /\ SkillProvenance
    /\ quote = "extracted" => extraction = "valid" /\ evidence
    /\ snap.step # "completed" => snap.skill \notin {"completed", "manual_completed"}

\* The first snapshot is blocked or pending.
LEMMA SkillInit == Init => SkillInv /\ PlanMatchesBrowser
<1> SUFFICES ASSUME Init PROVE SkillInv /\ PlanMatchesBrowser
  OBVIOUS
<1>1. quote = "none"
  BY DEF Init
<1>2. snap.skill \in {"none", "pending", "blocked"} /\ snap.plan = NoPlan
  <2>1. CASE InitAttached
    <3>1. snap \in {Advance(NoRow, "awaiting_approval", FALSE, FALSE),
                    Advance(NoRow, "ready", FALSE, FALSE)}
      BY <2>1 DEF InitAttached
    <3>2. QED
      BY <3>1 DEF Advance, NoRow, SkillFor, PlanAfter
  <2>2. CASE InitLegacy
    BY <2>2 DEF InitLegacy, NoRow
  <2>3. QED
    BY <2>1, <2>2 DEF Init
<1>3. QED
  BY <1>1, <1>2 DEF SkillInv, SkillProvenance, PlanMatchesBrowser, NoPlan

\* Extraction, evidence and completion only move in one direction once a
\* result is there.
LEMMA ResultStays ==
  ASSUME TypeOK, RunInv, ExtractionInv, [Next]_vars
  PROVE  /\ extraction = "valid" => extraction' = "valid"
         /\ extraction # "none" => extraction' # "none"
         /\ extraction # "none" /\ native' = "completed" => native = "completed"
         /\ evidence => evidence'
<1>1. ASSUME NEW p \in Procs, AgentWrites(p)
      PROVE  extraction = "none"
  BY <1>1, WriteEffect DEF ExtractionInv, AtBrowser
<1>2. evidence => evidence'
  <2>1. evidence' = evidence \/ evidence' = TRUE
    BY TaskStep
  <2>2. QED
    BY <2>1, Zenon
<1>3. CASE \E p \in Procs : AgentWrites(p)
  BY <1>1, <1>2, <1>3
<1>4. CASE ~ \E p \in Procs : AgentWrites(p)
  BY <1>2, <1>4, TaskStep
<1>5. QED
  BY <1>3, <1>4

\* A step, a quote and a plan are credited to whom they are due.
LEMMA SkillStep ==
  TypeOK /\ Inv /\ ExtractionInv /\ SkillInv /\ [Next]_vars => SkillInv'
<1> SUFFICES ASSUME TypeOK, RunInv, RowInv, FactsInv, ExtractionInv, SkillInv, [Next]_vars
             PROVE  SkillInv'
  BY DEF Inv
<1>1. snap.step = "completed" <=> quote # "none"
  BY DEF FactsInv, StepMatchesFacts
<1>2. CASE UNCHANGED <<snap, quote>>
  BY <1>2, ResultStays DEF SkillInv, SkillProvenance
<1>3. ASSUME NEW step \in Steps \ {"completed"}, MoveTo(step, FALSE), UNCHANGED quote
      PROVE  SkillInv'
  <2>1. CASE snap.step = step
    BY <1>2, <1>3, <2>1 DEF MoveTo, Advance
  <2>2. CASE snap.step # step /\ snap.step = "completed"
    BY <1>2, <1>3, <2>2, TerminalStays DEF TerminalSteps
  <2>3. CASE snap.step # step /\ snap.step # "completed"
    <3>1. quote' = "none"
      BY <1>1, <1>3, <2>3
    <3>2. snap'.skill = SkillFor(step, native = "completed", FALSE)
      BY <1>3, <2>3, MoveToParts
    <3>3. snap'.skill \notin {"completed", "manual_completed"}
      BY <3>2 DEF SkillFor, Steps
    <3>4. QED
      BY <3>1, <3>3 DEF SkillInv, SkillProvenance
  <2>4. QED
    BY <2>1, <2>2, <2>3
<1>4. ASSUME UNCHANGED native_vars,
             \/ PersistQuote("manual", FALSE)
             \/ PersistQuote("extracted", TRUE) /\ \E p \in Procs : pc[p] = "persist"
      PROVE  SkillInv'
  <2>1. PICK by \in {"manual", "extracted"}, e \in BOOLEAN :
          /\ PersistQuote(by, e) /\ e = (by = "extracted")
          /\ e => \E p \in Procs : pc[p] = "persist"
    BY <1>4
  <2>2. /\ quote = "none" /\ quote' = by /\ evidence
        /\ MoveTo("completed", e) /\ "completed" \in Steps
    BY <2>1 DEF PersistQuote, Steps
  <2>3. /\ snap'.step = "completed"
        /\ snap'.skill = SkillFor("completed", native = "completed", e)
    BY <1>1, <2>2, MoveToParts
  <2>4. /\ evidence' = evidence /\ extraction' = extraction /\ native' = native
    BY <1>4 DEF native_vars
  <2>5. by = "extracted" => extraction = "valid"
    BY <2>1 DEF ExtractionInv
  <2>6. snap'.skill = (IF native = "completed" /\ e THEN "completed" ELSE "manual_completed")
    BY <2>3 DEF SkillFor
  <2>7. QED
    BY <2>1, <2>2, <2>3, <2>4, <2>5, <2>6 DEF SkillInv, SkillProvenance
<1>5. ASSUME NEW p \in Procs, SaveQuotePlan(p), CanSavePlan(loc[p].row, snap), UNCHANGED quote
      PROVE  SkillInv'
  <2>1. PICK plan \in Plans : snap' = SavePlan(loc[p].row, snap, plan)
    BY <1>5, PlanForType DEF SaveQuotePlan
  <2>2. snap.step # "completed" /\ (snap'.skill = "pending" \/ snap'.skill = snap.skill)
    BY <1>5, <2>1, SavePlanParts
  <2>3. QED
    BY <1>1, <1>5, <2>2 DEF SkillInv, SkillProvenance
<1>6. QED
  BY <1>2, <1>3, <1>4, <1>5, SnapStep

\* A plan credits the browser after it has delivered.
LEMMA PlanStep ==
  TypeOK /\ Inv /\ ExtractionInv /\ PlanMatchesBrowser /\ [Next]_vars => PlanMatchesBrowser'
<1> SUFFICES ASSUME TypeOK, RunInv, RowInv, ExtractionInv, PlanMatchesBrowser, [Next]_vars
             PROVE  PlanMatchesBrowser'
  BY DEF Inv
<1>1. CASE snap'.plan = snap.plan
  BY <1>1, ResultStays DEF PlanMatchesBrowser
<1>2. ASSUME NEW step \in Steps, NEW e \in BOOLEAN, MoveTo(step, e)
      PROVE  PlanMatchesBrowser'
  <2>1. CASE snap.step = step
    BY <1>1, <1>2, <2>1 DEF MoveTo, Advance
  <2>2. CASE snap.step # step
    <3>1. snap'.plan = PlanAfter(snap.plan, step, native = "completed")
      BY <1>2, <2>2, MoveToParts
    <3>2. \/ snap'.plan = snap.plan
          \/ "execute_native" \in snap'.plan.completed => native = "completed"
      BY <3>1 DEF PlanAfter
    <3>3. QED
      BY <1>1, <3>2, ResultStays DEF PlanMatchesBrowser, ExtractionInv
  <2>3. QED
    BY <2>1, <2>2
<1>3. ASSUME NEW p \in Procs, SaveQuotePlan(p), CanSavePlan(loc[p].row, snap)
      PROVE  PlanMatchesBrowser'
  <2> DEFINE plan == PlanFor(loc[p].seen = "completed")
  <2>1. plan \in Plans /\ snap' = SavePlan(loc[p].row, snap, plan)
    BY <1>3, PlanForType DEF SaveQuotePlan
  <2>2. "execute_native" \in plan.completed => loc[p].seen = "completed"
    BY DEF PlanFor
  <2> HIDE DEF plan
  <2>3. snap' = snap \/ snap'.plan = plan
    BY <1>3, <2>1, SavePlanParts
  <2>4. QED
    BY <1>1, <2>2, <2>3, ResultStays DEF PlanMatchesBrowser, ExtractionInv
<1>4. QED
  BY <1>1, <1>2, <1>3, SnapStep DEF PersistQuote, Steps

\* The extraction, the skill and the plan agree in every reachable state.
THEOREM Provenance ==
  Spec => [](TypeOK /\ Inv /\ ExtractionInv /\ SkillInv /\ PlanMatchesBrowser)
<1> DEFINE All == TypeOK /\ Inv /\ ExtractionInv /\ SkillInv /\ PlanMatchesBrowser
<1>1. Init => ExtractionInv /\ SkillInv /\ PlanMatchesBrowser
  BY ExtractionInit, SkillInit
<1>2. /\ TypeOK /\ Inv /\ (TypeOK /\ Inv)'
      /\ ExtractionInv /\ SkillInv /\ PlanMatchesBrowser /\ [Next]_vars
      => (ExtractionInv /\ SkillInv /\ PlanMatchesBrowser)'
  BY ExtractionStep, SkillStep, PlanStep DEF Inv
<1>3. QED
  BY <1>1, <1>2, Invariance, PTL DEF Spec

\* A quote that a human entered is never shown as extracted, an extracted one
\* rests on a valid extraction and evidence, and is never shown as manual
\* while the native task is completed (_skill_status, _persist_supplier_quote).
THEOREM QuotesAreCredited == Spec => []SkillProvenance
<1>1. SkillInv => SkillProvenance
  BY DEF SkillInv
<1>2. QED
  BY <1>1, Provenance, PTL

\* The plan lists execute_native as done only after the native task delivered
\* its extraction, however many planners raced (plan_quote, save_quote_plan).
THEOREM PlansAreTrue == Spec => []PlanMatchesBrowser
  BY Provenance, PTL

(***************************************************************************)
(* While no claim is lost, one request at a time is under way.             *)
(***************************************************************************)

\* Who is under way holds the row lock.
ClaimInv == \A p \in Procs : pc[p] # "idle" => claim = p

\* A request gives the lock back when it ends and takes it only when it is
\* free.
LEMMA ClaimMoves ==
  ASSUME TypeOK, NEW p \in Procs, RequestStep(p), ~LoseClaim(p)
  PROVE  \/ Claim(p)
         \/ /\ pc[p] # "idle"
            /\ \/ claim' = claim
               \/ claim = p /\ pc'[p] = "idle"
<1> USE DEF facts, native_vars, outcome, proc_vars, bounds
<1>1. CASE \/ Launch(p) \/ RereadTask(p) \/ RecordEvidence(p) \/ AgentStops(p)
           \/ ExecutionRaises(p) \/ ReadTask(p) \/ LoadPlan(p) \/ AgentWrites(p)
           \/ \E s \in AgentOutcomes : AgentDecides(p, s)
  BY <1>1
  DEF Launch, RereadTask, RecordEvidence, AgentStops, ExecutionRaises, ReadTask,
      LoadPlan, AgentWrites, AgentDecides
<1>2. CASE \/ CheckQuote(p) \/ CheckReview(p) \/ CheckResult(p) \/ CreateReview(p)
           \/ Crash(p) \/ SaveQuotePlan(p) \/ Start(p) \/ PersistExtracted(p)
  <2>1. pc[p] # "idle" /\ (claim' = claim \/ Return(p))
    BY <1>2, Zenon
    DEF CheckQuote, CheckReview, CheckResult, CreateReview, Crash, SaveQuotePlan, Start,
        PersistExtracted
  <2>2. QED
    BY <2>1, ReturnQuiet DEF Return
<1>3. QED
  BY <1>1, <1>2 DEF RequestStep, Recovery, Agent, AgentOutcomes

\* The row lock excludes, as long as nobody loses it.
LEMMA ClaimStep ==
  ASSUME MaxClaimLosses = 0, TypeOK, ClaimInv, [Next]_vars
  PROVE  ClaimInv'
<1>1. CASE UNCHANGED proc_vars
  BY <1>1 DEF ClaimInv, proc_vars
<1>2. ASSUME NEW p \in Procs, RequestStep(p)
      PROVE  ClaimInv'
  <2>1. ~LoseClaim(p)
    BY DEF LoseClaim, TypeOK
  <2>2. \A q \in Procs \ {p} : pc'[q] = pc[q]
    BY <1>2, OthersStay
  <2>3. CASE Claim(p)
    <3>1. claim = NoProc /\ claim' = p
      BY <2>3 DEF Claim, ClaimFree
    <3>2. \A q \in Procs : pc[q] = "idle"
      BY <3>1, LifecycleAssumption DEF ClaimInv
    <3>3. QED
      BY <2>2, <3>1, <3>2 DEF ClaimInv
  <2>4. CASE pc[p] # "idle" /\ (claim' = claim \/ (claim = p /\ pc'[p] = "idle"))
    BY <2>2, <2>4 DEF ClaimInv
  <2>5. QED
    BY <1>2, <2>1, <2>3, <2>4, ClaimMoves
<1>3. QED
  BY <1>1, <1>2, WhoSteps

(***************************************************************************)
(* The budget of replans.                                                  *)
(***************************************************************************)

FullPlan == PlanFor(FALSE)
RestPlan == PlanFor(TRUE)

\* A plan is recorded at most twice: before the browser ran and after it
\* completed, and the second one is the replan.  A request that plans for an
\* untouched task cannot meet a plan for a completed one.
BudgetInv ==
    /\ snap.step = "completed" \/ snap.plan \in {NoPlan, FullPlan, RestPlan}
    /\ snap.replans <= MaxReplans
    /\ snap.replans > 0 => snap.plan # NoPlan /\ snap.plan # FullPlan
    /\ snap.plan = RestPlan => native # "created"
    /\ \A p \in Procs : loc[p].seen = "completed" => native # "created"
    /\ \A p \in Procs : pc[p] \in {"load_plan", "save_plan"} /\ loc[p].seen # "completed"
                          => snap.plan # RestPlan

\* The plans of the planner differ, and none of them is closed.
LEMMA PlansDiffer ==
  /\ NoPlan # FullPlan /\ NoPlan # RestPlan /\ FullPlan # RestPlan
  /\ FullPlan.steps # {} /\ RestPlan.steps # {}
  BY DEF FullPlan, RestPlan, NoPlan, PlanFor, PlanSteps

\* A closed plan is none of those save_quote_plan writes.
LEMMA ClosedPlan ==
  ASSUME NEW plan, NEW step, NEW n \in BOOLEAN
  PROVE  \/ PlanAfter(plan, step, n) = plan
         \/ /\ step = "completed"
            /\ PlanAfter(plan, step, n) \notin {NoPlan, FullPlan, RestPlan}
<1> DEFINE closed == [steps |-> {},
                      completed |-> {"persist_quote"}
                                      \cup (IF n THEN {"execute_native"} ELSE {})]
<1>1. PlanAfter(plan, step, n) = plan \/ (step = "completed" /\ PlanAfter(plan, step, n) = closed)
  BY DEF PlanAfter
<1>2. closed.steps = {} /\ closed.completed # {} /\ NoPlan.completed = {}
  BY DEF NoPlan
<1> HIDE DEF closed
<1>3. QED
  BY <1>1, <1>2, PlansDiffer

\* Before any plan nothing has been spent.
LEMMA BudgetInit == Init => BudgetInv
<1> SUFFICES ASSUME Init PROVE BudgetInv
  OBVIOUS
<1>1. \A p \in Procs : pc[p] = "idle" /\ loc[p].seen = "created"
  BY DEF Init, NoLoc
<1>2. snap.plan = NoPlan /\ snap.replans = 0
  <2>1. CASE InitAttached
    <3>1. PICK step \in {"awaiting_approval", "ready"} :
             snap = Advance(NoRow, step, FALSE, FALSE)
      BY <2>1 DEF InitAttached
    <3>2. NoRow.step = "absent" /\ NoRow.plan = NoPlan /\ NoRow.replans = 0
      BY DEF NoRow
    <3>3. QED
      BY <3>1, <3>2 DEF Advance, PlanAfter
  <2>2. CASE InitLegacy
    BY <2>2 DEF InitLegacy, NoRow
  <2>3. QED
    BY <2>1, <2>2 DEF Init
<1>3. QED
  BY <1>1, <1>2, PlansDiffer DEF BudgetInv, MaxReplans

\* A task that was started is never created again.
LEMMA NeverCreatedAgain ==
  ASSUME TypeOK, RunInv, [Next]_vars, native # "created"
  PROVE  native' # "created"
<1>1. \A p \in Procs : AgentWrites(p) => native' # "created"
  BY WriteEffect
<1>2. QED
  BY <1>1, TaskStep

\* Planning is the only way to spend a replan, and one request plans.
LEMMA BudgetStep ==
  ASSUME TypeOK, Inv, ClaimInv, BudgetInv, [Next]_vars
  PROVE  BudgetInv'
<1> USE DEF Inv
<1>1. /\ snap.plan = RestPlan => native' # "created"
      /\ \A p \in Procs : loc[p].seen = "completed" => native' # "created"
  BY NeverCreatedAgain DEF BudgetInv
<1>2. \A p \in Procs : loc'[p].seen = "completed" => native' # "created"
  <2>1. CASE UNCHANGED proc_vars
    BY <1>1, <2>1 DEF proc_vars
  <2>2. ASSUME NEW q \in Procs, RequestStep(q)
        PROVE  \A p \in Procs : loc'[p].seen = "completed" => native' # "created"
    BY <1>1, <2>2, OthersStay, Arrivals, NeverCreatedAgain
  <2>3. QED
    BY <2>1, <2>2, WhoSteps
<1>3. \A p \in Procs : /\ pc'[p] \in {"load_plan", "save_plan"}
                       /\ loc'[p].seen # "completed"
                       => snap.plan # RestPlan
  <2>1. CASE UNCHANGED proc_vars
    BY <2>1 DEF proc_vars, BudgetInv
  <2>2. ASSUME NEW q \in Procs, RequestStep(q)
        PROVE  \A p \in Procs : /\ pc'[p] \in {"load_plan", "save_plan"}
                                /\ loc'[p].seen # "completed"
                                => snap.plan # RestPlan
    BY <2>2, OthersStay, Arrivals DEF BudgetInv
  <2>3. QED
    BY <2>1, <2>2, WhoSteps
<1>4. CASE snap' = snap
  BY <1>1, <1>2, <1>3, <1>4 DEF BudgetInv
<1>5. ASSUME NEW step \in Steps, NEW e \in BOOLEAN, MoveTo(step, e)
      PROVE  BudgetInv'
  <2>1. CASE snap.step = step \/ snap.step = "completed"
    <3>1. snap' = snap
      BY <1>5, <2>1, TerminalStays DEF MoveTo, Advance, TerminalSteps
    <3>2. QED
      BY <1>4, <3>1
  <2>2. CASE snap.step # step /\ snap.step # "completed"
    <3> DEFINE done == native = "completed"
    <3>1. /\ snap'.plan = PlanAfter(snap.plan, step, done)
          /\ snap'.replans = snap.replans /\ snap'.step = step
      BY <1>5, <2>2, MoveToParts
    <3>2. done \in BOOLEAN
      OBVIOUS
    <3> HIDE DEF done
    <3>3. \/ snap'.plan = snap.plan
          \/ step = "completed" /\ snap'.plan \notin {NoPlan, FullPlan, RestPlan}
      BY <3>1, <3>2, ClosedPlan
    <3>4. QED
      BY <1>1, <1>2, <1>3, <2>2, <3>1, <3>3 DEF BudgetInv
  <2>3. QED
    BY <2>1, <2>2
<1>6. ASSUME NEW p \in Procs, SaveQuotePlan(p), CanSavePlan(loc[p].row, snap)
      PROVE  BudgetInv'
  <2> DEFINE seen == loc[p].seen = "completed"
             plan == PlanFor(seen)
  <2>1. /\ pc[p] = "save_plan" /\ native' = native
        /\ snap' = SavePlan(loc[p].row, snap, plan)
        /\ plan \in Plans
    BY <1>6, PlanForType DEF SaveQuotePlan, native_vars
  <2>2. /\ seen => native # "created"
        /\ ~seen => snap.plan # RestPlan
    BY <2>1 DEF BudgetInv
  <2>3. seen \in BOOLEAN
    OBVIOUS
  <2> HIDE DEF seen
  <2>4. \A q \in Procs : pc'[q] \notin {"load_plan", "save_plan"}
    <3>1. RequestStep(p) /\ \A q \in Procs \ {p} : pc[q] = "idle"
      BY <1>6, <2>1 DEF RequestStep, Recovery, ClaimInv
    <3>2. pc'[p] \notin {"load_plan", "save_plan"}
      BY <1>6 DEF SaveQuotePlan, Goto, TypeOK
    <3>3. QED
      BY <3>1, <3>2, OthersStay
  <2>5. plan \in {FullPlan, RestPlan} /\ (plan = RestPlan <=> seen)
    <3>1. CASE seen
      <4>1. seen = TRUE
        BY <2>3, <3>1
      <4>2. plan = RestPlan
        BY <4>1 DEF RestPlan
      <4>3. QED
        BY <3>1, <4>2
    <3>2. CASE ~seen
      <4>1. seen = FALSE
        BY <2>3, <3>2
      <4>2. plan = FullPlan
        BY <4>1 DEF FullPlan
      <4>3. QED
        BY <3>2, <4>2, PlansDiffer
    <3>3. QED
      BY <3>1, <3>2
  <2> HIDE DEF plan
  <2>6. /\ snap.step \in {"absent", "ready", "running"}
        /\ \/ snap' = snap /\ snap.plan = plan
           \/ snap'.plan = plan /\ snap.plan = NoPlan /\ snap'.replans = snap.replans
           \/ /\ snap'.plan = plan /\ snap.plan # NoPlan /\ snap.plan # plan
              /\ snap'.replans = snap.replans + 1
    BY <1>6, <2>1, SavePlanParts
  <2>7. snap.replans \in Nat
    BY DEF TypeOK, Rows
  <2>8. CASE snap'.plan = plan /\ snap.plan = NoPlan /\ snap'.replans = snap.replans
    <3>1. snap'.replans = 0
      BY <2>7, <2>8 DEF BudgetInv
    <3>2. QED
      BY <1>2, <2>1, <2>2, <2>4, <2>5, <2>8, <3>1 DEF BudgetInv, MaxReplans
  <2>9. CASE /\ snap'.plan = plan /\ snap.plan # NoPlan /\ snap.plan # plan
             /\ snap'.replans = snap.replans + 1
    <3>1. snap.plan = FullPlan /\ plan = RestPlan
      BY <2>2, <2>5, <2>6, <2>9 DEF BudgetInv
    <3>2. snap.replans = 0
      BY <2>7, <3>1 DEF BudgetInv
    <3>3. QED
      BY <1>2, <2>1, <2>2, <2>4, <2>5, <2>9, <3>1, <3>2, PlansDiffer
      DEF BudgetInv, MaxReplans
  <2>10. QED
    BY <1>4, <2>6, <2>8, <2>9
<1>7. QED
  BY <1>4, <1>5, <1>6, SnapStep DEF PersistQuote, Steps

\* While the claim holds.
THEOREM ExclusiveInvariance ==
  ASSUME MaxClaimLosses = 0
  PROVE  Spec => [](TypeOK /\ Inv /\ ClaimInv /\ BudgetInv)
<1>1. Init => ClaimInv /\ BudgetInv
  BY BudgetInit DEF Init, ClaimInv
<1>2. TypeOK /\ Inv /\ ClaimInv /\ BudgetInv /\ [Next]_vars => (ClaimInv /\ BudgetInv)'
  BY ClaimStep, BudgetStep
<1>3. QED
  BY <1>1, <1>2, Invariance, PTL DEF Spec

\* While no request loses its row lock, crashes, retries and racing planners
\* use at most the one replan of the row (save_quote_plan, MAX_REPLANS).
THEOREM ReplansAreBudgeted ==
  ASSUME MaxClaimLosses = 0
  PROVE  Spec => []ReplansWithinBudget
<1>1. BudgetInv => ReplansWithinBudget
  BY DEF BudgetInv, ReplansWithinBudget
<1>2. QED
  BY <1>1, ExclusiveInvariance, PTL

(***************************************************************************)
(* The refinement of QuoteContract.                                        *)
(***************************************************************************)

Checking == {"idle", "check_quote", "check_review"}

\* An undecided task has not been touched, evidence comes from a browser, and
\* whoever is past the checks is not interfered with by a human review.
PhaseInv ==
    /\ approval = "pending" => snap.step \in {"absent", "awaiting_approval"}
    /\ evidence => browserRuns = 1
    /\ \A p \in Procs : pc[p] = "executing" => browserRuns = 1
    /\ \A p \in Procs : pc[p] = "launch" => snap.step = "running"
    /\ \A p \in Procs : pc[p] \notin Checking => review = "none"

\* Who moves the step of the snapshot, apart from the planner and the quote.
Moved ==
    \/ \E u \in Users, d \in {"approved", "rejected"} :
          /\ approval = "pending" /\ approval' = d
          /\ MoveTo(IF d = "approved" THEN "ready" ELSE "rejected", FALSE)
          /\ UNCHANGED <<browserRuns, quote, pc, review>>
    \/ /\ UNCHANGED <<approval, browserRuns, quote, claim>>
       /\ review' = review
       /\ \E p \in Procs : pc[p] = "start" /\ native = "created" /\ MoveTo("running", FALSE)
    \/ /\ UNCHANGED <<approval, browserRuns, quote>>
       /\ review' = "pending"
       /\ \E p \in Procs : pc[p] = "review" /\ MoveTo("needs_human", FALSE)
                             /\ pc'[p] = "idle"
    \/ /\ UNCHANGED <<approval, browserRuns, quote, pc>>
       /\ review = "pending"
       /\ MoveTo("skipped", FALSE) \/ MoveTo("terminated", FALSE)

\* A quote is written.
Quoted ==
    /\ \/ PersistQuote("manual", FALSE) /\ UNCHANGED pc
       \/ PersistQuote("extracted", TRUE) /\ \E p \in Procs : pc[p] = "persist" /\ pc'[p] = "idle"
    /\ UNCHANGED <<approval, browserRuns>>
    /\ review' = review \/ review = "pending"

\* A plan is saved.
Planned ==
    /\ UNCHANGED <<approval, browserRuns, quote, review>>
    /\ \E p \in Procs, plan \in Plans :
          /\ pc[p] = "save_plan" /\ CanSavePlan(loc[p].row, snap)
          /\ snap' = SavePlan(loc[p].row, snap, plan)

\* The browser starts.
Launched ==
    /\ \E p \in Procs : pc[p] = "launch" /\ Launch(p)
    /\ browserRuns' = browserRuns + 1
    /\ UNCHANGED <<snap, approval, quote, review>>

\* Every step is one of these, or invisible to the contract.
LEMMA Visible ==
  ASSUME TypeOK, Inv, [Next]_vars
  PROVE  \/ UNCHANGED <<snap, approval, browserRuns, quote, review>>
         \/ Moved \/ Quoted \/ Planned \/ Launched
<1> USE DEF facts, native_vars, outcome, proc_vars, bounds
<1>1. ASSUME NEW u \in Users, NEW d \in {"approved", "rejected"}, Decide(u, d)
      PROVE  Moved
  BY <1>1, Zenon DEF Decide, Moved
<1>2. ASSUME NEW p \in Procs, Start(p)
      PROVE  Moved \/ UNCHANGED <<snap, approval, browserRuns, quote, review>>
  <2>1. /\ UNCHANGED <<approval, browserRuns, quote, review>>
        /\ pc[p] = "start"
        /\ \/ native = "created" /\ MoveTo("running", FALSE) /\ UNCHANGED claim
           \/ UNCHANGED snap
    BY <1>2, Zenon DEF Start, MayStart
  <2>2. QED
    BY <2>1, Zenon DEF Moved
<1>3. ASSUME NEW p \in Procs, CreateReview(p)
      PROVE  Moved \/ UNCHANGED <<snap, approval, browserRuns, quote, review>>
  <2>1. /\ UNCHANGED <<approval, browserRuns, quote>>
        /\ pc[p] = "review" /\ Return(p)
        /\ \/ review' = "pending" /\ MoveTo("needs_human", FALSE)
           \/ UNCHANGED <<snap, review>>
    BY <1>3, Zenon DEF CreateReview
  <2>2. pc'[p] = "idle"
    BY <2>1, ReturnQuiet
  <2>3. QED
    BY <2>1, <2>2, Zenon DEF Moved
<1>4. ASSUME NEW p \in Procs, PersistExtracted(p)
      PROVE  Quoted \/ UNCHANGED <<snap, approval, browserRuns, quote, review>>
  <2>1. /\ UNCHANGED <<approval, browserRuns, review>>
        /\ pc[p] = "persist"
        /\ \/ PersistQuote("extracted", TRUE) /\ Return(p)
           \/ UNCHANGED <<snap, quote>>
    BY <1>4, Zenon DEF PersistExtracted
  <2>2. Return(p) => pc'[p] = "idle"
    BY ReturnQuiet
  <2>3. QED
    BY <2>1, <2>2, Zenon DEF Quoted
<1>5. ASSUME NEW p \in Procs, SaveQuotePlan(p)
      PROVE  Planned \/ UNCHANGED <<snap, approval, browserRuns, quote, review>>
  <2> DEFINE plan == PlanFor(loc[p].seen = "completed")
  <2>1. plan \in Plans
    BY PlanForType
  <2>2. /\ UNCHANGED <<approval, browserRuns, quote, review>>
        /\ pc[p] = "save_plan"
        /\ \/ CanSavePlan(loc[p].row, snap) /\ snap' = SavePlan(loc[p].row, snap, plan)
           \/ UNCHANGED snap
    BY <1>5, Zenon DEF SaveQuotePlan
  <2> HIDE DEF plan
  <2>3. QED
    BY <2>1, <2>2, Zenon DEF Planned
<1>6. ASSUME NEW p \in Procs, Launch(p)
      PROVE  Launched
  BY <1>6 DEF Launch, Launched
<1>7. CASE Operator
  <2>1. resolving # NoRead => review = "pending"
    BY DEF Inv, FactsInv
  <2>2. CASE CreateSupplierQuote \/ ResolveManually
    BY <2>2, Zenon DEF CreateSupplierQuote, ResolveManually, ReviewOpen, Quoted
  <2>3. CASE ResolveBySkipping \/ ResolveByTerminating
    BY <2>1, <2>3, Zenon DEF ResolveBySkipping, ResolveByTerminating, ReviewOpen, Moved
  <2>4. CASE TerminateReads \/ TerminateRollsBack
    BY <2>4 DEF TerminateReads, TerminateRollsBack
  <2>5. QED
    BY <1>7, <2>2, <2>3, <2>4 DEF Operator
<1>8. ASSUME NEW p \in Procs,
             \/ Claim(p) \/ CheckQuote(p) \/ CheckReview(p) \/ ReadTask(p) \/ LoadPlan(p)
             \/ RereadTask(p) \/ CheckResult(p) \/ Agent(p) \/ Crash(p)
             \/ LoseClaim(p)
      PROVE  UNCHANGED <<snap, approval, browserRuns, quote, review>>
  BY <1>8
  DEF Claim, CheckQuote, CheckReview, ReadTask, LoadPlan, RereadTask,
      CheckResult, Agent, AgentDecides, AgentWrites, RecordEvidence, AgentStops,
      ExecutionRaises, Crash, LoseClaim
<1>9. CASE CancelValidates \/ CancelWrites \/ UNCHANGED vars
  BY <1>9 DEF CancelValidates, CancelWrites, vars
<1>10. QED
  BY <1>1, <1>2, <1>3, <1>4, <1>5, <1>6, <1>7, <1>8, <1>9 DEF Next, Recovery

\* At first nobody has touched the task.
LEMMA PhaseInit == Init => PhaseInv
<1> SUFFICES ASSUME Init PROVE PhaseInv
  OBVIOUS
<1>1. /\ \A p \in Procs : pc[p] = "idle"
      /\ review = "none"
  BY DEF Init
<1>2. /\ approval = "pending" => snap.step \in {"absent", "awaiting_approval"}
      /\ evidence => browserRuns = 1
  <2>1. CASE InitAttached
    <3>1. approval = "pending" => snap = Advance(NoRow, "awaiting_approval", FALSE, FALSE)
      BY <2>1 DEF InitAttached
    <3>2. Advance(NoRow, "awaiting_approval", FALSE, FALSE).step = "awaiting_approval"
      BY FirstRow DEF Steps
    <3>3. QED
      BY <2>1, <3>1, <3>2 DEF InitAttached
  <2>2. CASE InitLegacy
    BY <2>2 DEF InitLegacy, NoRow
  <2>3. QED
    BY <2>1, <2>2 DEF Init
<1>3. QED
  BY <1>1, <1>2 DEF PhaseInv, Checking

\* What a pending approval and a pending review rule out.
LEMMA Exclusions ==
  ASSUME Inv, PhaseInv
  PROVE  /\ approval = "pending" => \A p \in Procs : pc[p] = "idle"
         /\ approval = "pending" => ~evidence /\ review # "pending"
         /\ review = "pending" => snap.step \in {"needs_human", "completed"}
         /\ \A p \in Procs : pc[p] = "launch" => ~evidence /\ review # "pending"
<1>1. approval = "pending" => risky
  BY DEF Inv, AuthInv
<1>2. approval = "pending" => browserRuns # 1
  BY <1>1 DEF Inv, AuthInv
<1>3. evidence => browserRuns = 1
  BY DEF PhaseInv
<1>4. \A p \in Procs : pc[p] = "launch" => browserRuns = 0 /\ snap.step = "running"
  BY DEF Inv, RunInv, PhaseInv
<1>5. review = "pending" => snap.step \in {"needs_human", "completed"}
  BY DEF Inv, FactsInv, StepMatchesFacts
<1>6. approval = "pending" => snap.step \in {"absent", "awaiting_approval"}
  BY DEF PhaseInv
<1>7. approval = "pending" => \A p \in Procs : pc[p] = "idle"
  BY <1>1 DEF Inv, AuthInv
<1>8. QED
  BY <1>2, <1>3, <1>4, <1>5, <1>6, <1>7

\* The decision, the browser and the reviews keep out of each other's way
\* while one request is under way.
LEMMA PhaseStep ==
  ASSUME TypeOK, Inv, ClaimInv, PhaseInv, [Next]_vars
  PROVE  PhaseInv'
<1>1. approval' = "pending" => snap'.step \in {"absent", "awaiting_approval"}
  <2>1. CASE UNCHANGED <<snap, approval, browserRuns, quote, review>>
    BY <2>1 DEF PhaseInv
  <2>2. CASE Moved \/ Quoted \/ Planned \/ Launched
    BY <2>2, Exclusions, Zenon DEF Moved, Quoted, Planned, Launched, PersistQuote
  <2>3. QED
    BY <2>1, <2>2, Visible
<1>2. /\ evidence' => browserRuns' = 1
      /\ \A p \in Procs : pc'[p] = "executing" => browserRuns' = 1
  <2>1. browserRuns = 1 => browserRuns' = 1
    BY TaskStep DEF Inv
  <2>2. \A p \in Procs : Launch(p) => browserRuns' = 1
    BY DEF Launch, Inv, RunInv
  <2>3. evidence' => browserRuns = 1 \/ \E p \in Procs : pc[p] = "executing"
    <3>1. \/ evidence' = evidence
          \/ \E p \in Procs : pc[p] = "executing"
      BY TaskStep DEF Inv
    <3>2. evidence => browserRuns = 1
      BY DEF PhaseInv
    <3>3. QED
      BY <3>1, <3>2, Zenon
  <2>4. \A p \in Procs : pc[p] = "executing" => browserRuns = 1
    BY DEF PhaseInv
  <2>5. \A p \in Procs : pc'[p] = "executing" => pc[p] = "executing" \/ Launch(p)
    <3>1. CASE UNCHANGED proc_vars
      BY <3>1 DEF proc_vars
    <3>2. ASSUME NEW q \in Procs, RequestStep(q)
          PROVE  \A p \in Procs : pc'[p] = "executing" => pc[p] = "executing" \/ Launch(p)
      BY <3>2, OthersStay, Arrivals
    <3>3. QED
      BY <3>1, <3>2, WhoSteps
  <2>6. QED
    BY <2>1, <2>2, <2>3, <2>4, <2>5
<1>3. ASSUME NEW p \in Procs, pc'[p] = "launch"
      PROVE  snap'.step = "running"
  <2>1. pc[p] = "launch" \/ Start(p)
    BY <1>3, WhoSteps, OthersStay, Arrivals DEF proc_vars
  <2>2. CASE Start(p)
    <3>1. MoveTo("running", FALSE) \/ Return(p)
      BY <2>2, Zenon DEF Start
    <3>2. ~Return(p)
      BY <1>3, ReturnQuiet
    <3>3. QED
      BY <3>1, <3>2, MoveToRow DEF Inv, Steps
  <2>3. CASE pc[p] = "launch"
    <3>1. /\ snap.step = "running"
          /\ \A q \in Procs : pc[q] \in {"idle", "launch"}
      BY <2>3 DEF PhaseInv, ClaimInv
    <3>2. approval # "pending" /\ ~evidence /\ review # "pending"
      BY <2>3, Exclusions
    <3>3. UNCHANGED snap
      BY <3>1, <3>2, Visible DEF Moved, Quoted, Planned, Launched, PersistQuote
    <3>4. QED
      BY <3>1, <3>3
  <2>4. QED
    BY <2>1, <2>2, <2>3
<1>4. ASSUME NEW p \in Procs, pc'[p] \notin Checking
      PROVE  review' = "none"
  <2>1. /\ pc[p] # "idle" /\ review = "none"
        /\ pc[p] \in Checking => pc'[p] # pc[p] /\ pc[p] = "check_review"
    <3>1. CASE pc[p] \notin Checking
      BY <3>1 DEF PhaseInv, Checking
    <3>2. CASE pc[p] \in Checking
      <4>1. RequestStep(p)
        BY <1>4, <3>2, WhoSteps, OthersStay DEF proc_vars
      <4>2. pc[p] = "check_review" /\ reviewCount = 0
        BY <1>4, <3>2, <4>1, Arrivals DEF Checking
      <4>3. review = "none"
        BY <4>2 DEF Inv, FactsInv
      <4>4. QED
        BY <1>4, <4>2, <4>3 DEF Checking
    <3>3. QED
      BY <3>1, <3>2
  <2>2. \A q \in Procs \ {p} : pc[q] = "idle"
    BY <2>1 DEF ClaimInv
  <2>3. review' = review
    <3>1. CASE Moved
      <4>1. ~ \E q \in Procs : pc[q] = "review" /\ pc'[q] = "idle"
        BY <1>4, <2>2 DEF Checking
      <4>2. QED
        BY <2>1, <3>1, <4>1 DEF Moved
    <3>2. CASE Quoted \/ Planned \/ Launched
      BY <2>1, <3>2 DEF Quoted, Planned, Launched
    <3>3. QED
      BY <3>1, <3>2, Visible
  <2>4. QED
    BY <2>1, <2>3
<1>5. QED
  BY <1>1, <1>2, <1>3, <1>4 DEF PhaseInv

\* The phase of a task, by the step of its snapshot.
LEMMA PhaseOf ==
  /\ snap.step = "absent" => Phase = IF approval = "pending" THEN "waiting" ELSE "open"
  /\ snap.step = "awaiting_approval" => Phase = "waiting"
  /\ snap.step = "ready" => Phase = "open"
  /\ snap.step = "running" => Phase = "working"
  /\ snap.step = "needs_human" => Phase = "human"
  /\ snap.step = "completed" => Phase = "settled"
  /\ snap.step \in {"rejected", "terminated", "skipped"} => Phase = "closed"
  BY DEF Phase

\* And after a step.
LEMMA PhaseThen ==
  /\ snap'.step = "absent" => Phase' = IF approval' = "pending" THEN "waiting" ELSE "open"
  /\ snap'.step = "awaiting_approval" => Phase' = "waiting"
  /\ snap'.step = "ready" => Phase' = "open"
  /\ snap'.step = "running" => Phase' = "working"
  /\ snap'.step = "needs_human" => Phase' = "human"
  /\ snap'.step = "completed" => Phase' = "settled"
  /\ snap'.step \in {"rejected", "terminated", "skipped"} => Phase' = "closed"
  BY DEF Phase

\* A task starts waiting or open; only a legacy one may have run already.
LEMMA ContractInit == Init => Contract!Init
<1> SUFFICES ASSUME Init PROVE Contract!Init
  OBVIOUS
<1>1. quote = "none"
  BY DEF Init
<1>2. CASE InitAttached
  <2>1. CASE risky
    <3>1. snap = Advance(NoRow, "awaiting_approval", FALSE, FALSE) /\ browserRuns = 0
      BY <1>2, <2>1 DEF InitAttached
    <3>2. snap.step = "awaiting_approval"
      BY <3>1, FirstRow DEF Steps
    <3>3. QED
      BY <1>1, <3>1, <3>2, PhaseOf DEF Contract!Init
  <2>2. CASE ~risky
    <3>1. snap = Advance(NoRow, "ready", FALSE, FALSE) /\ browserRuns = 0
      BY <1>2, <2>2 DEF InitAttached
    <3>2. snap.step = "ready"
      BY <3>1, FirstRow DEF Steps
    <3>3. QED
      BY <1>1, <3>1, <3>2, PhaseOf DEF Contract!Init
  <2>3. QED
    BY <2>1, <2>2
<1>3. CASE InitLegacy
  <2>1. /\ snap.step = "absent"
        /\ browserRuns \in IF approval # "pending" THEN {0, 1} ELSE {0}
    BY <1>3 DEF InitLegacy, NoRow
  <2>2. QED
    BY <1>1, <2>1, PhaseOf DEF Contract!Init
<1>4. QED
  BY <1>2, <1>3 DEF Init

\* The decision releases a waiting task or closes it.
LEMMA DecisionImplements ==
  ASSUME TypeOK, Inv, PhaseInv, approval = "pending",
         NEW d \in {"approved", "rejected"}, approval' = d,
         MoveTo(IF d = "approved" THEN "ready" ELSE "rejected", FALSE),
         UNCHANGED <<browserRuns, quote>>
  PROVE  Contract!Release \/ Contract!Refuse
<1>1. Phase = "waiting"
  BY PhaseOf DEF PhaseInv
<1>2. CASE d = "approved"
  <2>1. MoveTo("ready", FALSE)
    BY <1>2
  <2>2. snap'.step = "ready"
    BY <2>1, MoveToRow DEF Inv, Steps
  <2>3. QED
    BY <1>1, <2>2, PhaseThen DEF Contract!Release
<1>3. CASE d = "rejected"
  <2>1. MoveTo("rejected", FALSE)
    BY <1>3
  <2>2. snap'.step = "rejected"
    BY <2>1, MoveToRow DEF Inv, Steps
  <2>3. QED
    BY <1>1, <2>2, PhaseThen DEF Contract!Refuse
<1>4. QED
  BY <1>2, <1>3

\* The uncertainty marker begins the work, on a task nobody has run.
LEMMA StartImplements ==
  ASSUME TypeOK, Inv, PhaseInv, native = "created", MoveTo("running", FALSE),
         NEW p \in Procs, pc[p] = "start", UNCHANGED <<approval, browserRuns, quote>>
  PROVE  Contract!Begin \/ UNCHANGED Contract!vars
<1>1. /\ snap'.step = "running"
      /\ snap.step \in {"running", "absent", "ready"}
  <2>1. /\ snap'.step = "running"
        /\ \/ snap.step = "running"
           \/ snap.step = "absent"
           \/ "running" \in Allowed(snap.step)
    BY MoveToRow DEF Inv, Steps
  <2>2. QED
    BY <2>1 DEF Allowed
<1>2. approval # "pending"
  BY Exclusions
<1>3. browserRuns = 0
  BY DEF Inv, RunInv
<1>4. QED
  BY <1>1, <1>2, <1>3, PhaseOf, PhaseThen DEF Contract!Begin, Contract!vars

\* A new human review takes over from where no human was yet.
LEMMA ReviewImplements ==
  ASSUME TypeOK, Inv, PhaseInv, MoveTo("needs_human", FALSE),
         NEW p \in Procs, pc[p] = "review", UNCHANGED <<approval, browserRuns, quote>>
  PROVE  Contract!HandOver
<1>1. /\ snap'.step = "needs_human"
      /\ snap.step \in {"needs_human", "absent", "ready", "running"}
  <2>1. /\ snap'.step = "needs_human"
        /\ \/ snap.step = "needs_human"
           \/ snap.step = "absent"
           \/ "needs_human" \in Allowed(snap.step)
    BY MoveToRow DEF Inv, Steps
  <2>2. QED
    BY <2>1 DEF Allowed
<1>2. approval # "pending"
  BY Exclusions
<1>3. snap.step # "needs_human"
  BY DEF PhaseInv, Checking, Inv, FactsInv, StepMatchesFacts
<1>4. QED
  BY <1>1, <1>2, <1>3, PhaseOf, PhaseThen DEF Contract!HandOver

\* Skipping and terminating close a task that is in front of a human.
LEMMA ResolutionImplements ==
  ASSUME TypeOK, Inv, PhaseInv, review = "pending",
         MoveTo("skipped", FALSE) \/ MoveTo("terminated", FALSE),
         UNCHANGED <<approval, browserRuns, quote>>
  PROVE  Contract!Close
<1>1. ASSUME NEW step \in {"skipped", "terminated"}, MoveTo(step, FALSE)
      PROVE  Contract!Close
  <2>1. /\ snap'.step = step
        /\ \/ snap.step = step
           \/ snap.step = "absent"
           \/ step \in Allowed(snap.step)
    BY <1>1, MoveToRow DEF Inv, Steps
  <2>2. snap.step \in {"needs_human", "completed"}
    BY Exclusions
  <2>3. snap.step = "needs_human"
    BY <2>1, <2>2 DEF Allowed
  <2>4. QED
    BY <2>1, <2>3, PhaseOf, PhaseThen DEF Contract!Close
<1>2. QED
  BY <1>1

\* A quote settles the task it rests on a browser execution of, and an
\* extracted one is never written over a human's work.
LEMMA QuoteImplements ==
  ASSUME TypeOK, Inv, PhaseInv, Quoted
  PROVE  \E by \in {"extracted", "manual"} : Contract!Settle(by)
<1>1. ASSUME NEW by \in {"extracted", "manual"}, NEW e \in BOOLEAN, PersistQuote(by, e),
             by = "extracted" => \E p \in Procs : pc[p] = "persist",
             UNCHANGED <<approval, browserRuns>>
      PROVE  Contract!Settle(by)
  <2>1. evidence /\ quote = "none" /\ quote' = by /\ MoveTo("completed", e)
    BY <1>1 DEF PersistQuote
  <2>2. /\ snap'.step = "completed"
        /\ \/ snap.step = "completed"
           \/ snap.step = "absent"
           \/ "completed" \in Allowed(snap.step)
    BY <2>1, MoveToRow DEF Inv, Steps
  <2>3. snap.step # "completed"
    BY <2>1 DEF Inv, FactsInv, StepMatchesFacts
  <2>4. snap.step \in {"absent", "ready", "running", "needs_human"}
    BY <2>2, <2>3 DEF Allowed
  <2>5. approval # "pending" /\ browserRuns = 1
    BY <2>1, Exclusions DEF PhaseInv
  <2>6. by = "extracted" => snap.step # "needs_human"
    BY <1>1 DEF PhaseInv, Checking, Inv, FactsInv, StepMatchesFacts
  <2>7. /\ Phase \in {"open", "working", "human"} /\ Phase' = "settled"
        /\ by = "extracted" => Phase # "human"
    BY <2>2, <2>4, <2>5, <2>6, PhaseOf, PhaseThen
  <2>8. QED
    BY <1>1, <2>1, <2>5, <2>7 DEF Contract!Settle
<1>2. UNCHANGED <<approval, browserRuns>>
  BY DEF Quoted
<1>3. \/ PersistQuote("manual", FALSE)
      \/ PersistQuote("extracted", TRUE) /\ \E p \in Procs : pc[p] = "persist"
  BY Zenon DEF Quoted
<1>4. CASE PersistQuote("manual", FALSE)
  BY <1>1, <1>2, <1>4
<1>5. CASE PersistQuote("extracted", TRUE) /\ \E p \in Procs : pc[p] = "persist"
  BY <1>1, <1>2, <1>5
<1>6. QED
  BY <1>3, <1>4, <1>5

\* A saved plan leaves the phase alone.
LEMMA PlanImplements ==
  ASSUME TypeOK, Inv, PhaseInv, Planned
  PROVE  UNCHANGED Contract!vars
<1>1. PICK p \in Procs, plan \in Plans :
          /\ pc[p] = "save_plan" /\ CanSavePlan(loc[p].row, snap)
          /\ snap' = SavePlan(loc[p].row, snap, plan)
  BY DEF Planned
<1>2. /\ snap.step \in {"absent", "ready", "running"}
      /\ snap'.step = (IF snap.step = "absent" THEN "ready" ELSE snap.step)
  BY <1>1, SavePlanParts DEF Inv
<1>3. approval # "pending"
  BY <1>1, Exclusions
<1>4. UNCHANGED <<browserRuns, quote>>
  BY DEF Planned
<1>5. QED
  BY <1>2, <1>3, <1>4, PhaseOf, PhaseThen DEF Contract!vars

\* The browser runs for a task that is being worked on, for the first time.
LEMMA LaunchImplements ==
  ASSUME TypeOK, Inv, PhaseInv, Launched
  PROVE  Contract!Run
<1>1. /\ browserRuns' = browserRuns + 1
      /\ UNCHANGED <<snap, approval, quote>>
      /\ \E p \in Procs : pc[p] = "launch"
  BY DEF Launched, Launch
<1>2. browserRuns = 0 /\ snap.step = "running"
  BY <1>1 DEF Inv, RunInv, PhaseInv
<1>3. QED
  BY <1>1, <1>2, PhaseOf, PhaseThen DEF Contract!Run

\* Every step of the tables and the handlers is a step of the contract or
\* invisible to it.
LEMMA ContractStep ==
  ASSUME TypeOK, Inv, PhaseInv, [Next]_vars
  PROVE  [Contract!Next]_(Contract!vars)
<1>1. CASE UNCHANGED <<snap, approval, browserRuns, quote, review>>
  BY <1>1 DEF Contract!vars, Phase
<1>2. CASE Moved
  <2>1. ASSUME NEW u \in Users, NEW d \in {"approved", "rejected"},
               approval = "pending" /\ approval' = d,
               MoveTo(IF d = "approved" THEN "ready" ELSE "rejected", FALSE),
               UNCHANGED <<browserRuns, quote>>
        PROVE  Contract!Next
    BY <2>1, DecisionImplements DEF Contract!Next
  <2>2. ASSUME UNCHANGED <<approval, browserRuns, quote>>,
               NEW p \in Procs, pc[p] = "start", native = "created", MoveTo("running", FALSE)
        PROVE  [Contract!Next]_(Contract!vars)
    BY <2>2, StartImplements DEF Contract!Next
  <2>3. ASSUME UNCHANGED <<approval, browserRuns, quote>>,
               NEW p \in Procs, pc[p] = "review", MoveTo("needs_human", FALSE)
        PROVE  Contract!Next
    BY <2>3, ReviewImplements DEF Contract!Next
  <2>4. ASSUME UNCHANGED <<approval, browserRuns, quote>>, review = "pending",
               MoveTo("skipped", FALSE) \/ MoveTo("terminated", FALSE)
        PROVE  Contract!Next
    BY <2>4, ResolutionImplements DEF Contract!Next
  <2>5. QED
    BY <1>2, <2>1, <2>2, <2>3, <2>4, Zenon DEF Moved
<1>3. CASE Quoted
  BY <1>3, QuoteImplements DEF Contract!Next
<1>4. CASE Planned
  BY <1>4, PlanImplements
<1>5. CASE Launched
  BY <1>5, LaunchImplements DEF Contract!Next
<1>6. QED
  BY <1>1, <1>2, <1>3, <1>4, <1>5, Visible

\* While no claim is lost, the tables, handlers, requests and failures together
\* implement the contract of QuoteContract.tla.
THEOREM ContractImplemented ==
  ASSUME MaxClaimLosses = 0
  PROVE  Spec => ImplementsContract
<1> DEFINE Facts == TypeOK /\ Inv /\ ClaimInv /\ BudgetInv
<1>1. Init => PhaseInv
  BY PhaseInit
<1>2. Facts /\ PhaseInv /\ [Next]_vars => PhaseInv'
  BY PhaseStep
<1>3. Facts /\ PhaseInv /\ [Next]_vars => [Contract!Next]_(Contract!vars)
  BY ContractStep
<1>4. Spec => []Facts
  BY ExclusiveInvariance
<1> HIDE DEF Facts
<1>5. QED
  BY <1>1, <1>2, <1>3, <1>4, ContractInit, PTL
  DEF Spec, ImplementsContract, Contract!Spec

===============================================================================
