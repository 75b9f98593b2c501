---------------------------- MODULE QuoteLifecycle ----------------------------
(***************************************************************************)
(* The life of ONE quote task, from its attached procurement context to a  *)
(* persisted quote or a handled human review: approval decision, exclusive *)
(* recovery (recover_quote_task), native execution, quote extraction,      *)
(* human review and the direct POST /quotes, with every other request that *)
(* may run beside them.                                                    *)
(*                                                                         *)
(* Tasks share no row, so one task is enough.  A database transaction is   *)
(* one action; a recovery request is a process that goes through several   *)
(* of them, and what it read earlier is kept in loc.                       *)
(***************************************************************************)
EXTENDS QuoteState, TaskStatus, FiniteSets

CONSTANTS
    Procs,          \* recovery requests that can be in flight at once
    NoProc,         \* nobody holds the claim
    Users,
    NoUser,
    Requester,      \* the operator who submitted the task
    Approvers,      \* users whose role and category match the approval's route
    AllowLegacy,    \* tasks that predate the snapshot table are possible
    MaxCrashes,     \* bound: requests that die at an arbitrary point
    MaxClaimLosses  \* bound: claims lost while their request lives on

ASSUME LifecycleAssumption ==
    /\ NoProc \notin Procs
    /\ NoUser \notin Users
    /\ Requester \in Users
    /\ Approvers \subseteq Users
    /\ AllowLegacy \in BOOLEAN
    /\ MaxCrashes \in Nat
    /\ MaxClaimLosses \in Nat

VARIABLES
    risky,        \* TaskExtension.risk_level is high or critical
    approval,     \* approval_requests.status, "none" without a row
    approver,     \* approval_requests.approver_user_id
    snap,         \* the coordination row
    native,       \* tasks.status
    extraction,   \* tasks.extracted_information, judged by the quote rules
    evidence,     \* a browser artifact of the task is recorded
    quote,        \* the supplier_quotes row: who wrote it
    review,       \* status of the latest procurement_human_reviews row
    reviewCount,  \* how many review rows the task has
    claim,        \* holder of the TaskExtension row lock
    pc,           \* where each recovery request is
    loc,          \* what each recovery request remembers
    canceling,    \* a native cancel call has validated but not written yet
    resolving,    \* native status read by the terminate request that holds the review
    browserRuns,  \* how often the native executor was started
    crashes,
    claimLosses

facts == <<risky, approval, approver>>
native_vars == <<native, extraction, evidence, canceling, browserRuns>>
outcome == <<quote, review, reviewCount, resolving>>
proc_vars == <<claim, pc, loc>>
bounds == <<crashes, claimLosses>>
vars == <<facts, snap, native_vars, outcome, proc_vars, bounds>>

NoRead == "unread"

NoLoc == [seen |-> "created", row |-> NoRow, outcome |-> "created"]
Locs == [seen : Statuses, row : Rows, outcome : Statuses]

PCs == {"idle", "check_quote", "check_review", "read_task", "load_plan",
        "save_plan", "start", "launch", "executing", "writing", "reread",
        "check_result", "persist", "review"}

TypeOK ==
    /\ risky \in BOOLEAN
    /\ approval \in {"none", "pending", "approved", "rejected"}
    /\ approver \in Users \cup {NoUser}
    /\ snap \in Rows
    /\ native \in Statuses
    /\ extraction \in {"none", "valid", "invalid"}
    /\ evidence \in BOOLEAN
    /\ quote \in {"none", "extracted", "manual"}
    /\ review \in {"none", "pending", "resolved", "terminated"}
    /\ reviewCount \in Nat
    /\ claim \in Procs \cup {NoProc}
    /\ pc \in [Procs -> PCs]
    /\ loc \in [Procs -> Locs]
    /\ canceling \in BOOLEAN
    /\ resolving \in Statuses \cup {NoRead}
    /\ browserRuns \in Nat
    /\ crashes \in Nat
    /\ claimLosses \in Nat

(***************************************************************************)
(* Initial states.                                                         *)
(***************************************************************************)

\* _attach_procurement_context has committed: context, approval if the risk
\* asks for one, and the first snapshot, in one transaction.
InitAttached ==
    /\ approval = IF risky THEN "pending" ELSE "none"
    /\ approver = NoUser
    /\ snap = Advance(NoRow, IF risky THEN "awaiting_approval" ELSE "ready", FALSE, FALSE)
    /\ native = "created"
    /\ extraction = "none"
    /\ evidence = FALSE
    /\ browserRuns = 0

\* A task from before the snapshot table: not started, or executed with its
\* result not yet turned into a quote.
InitLegacy ==
    /\ AllowLegacy
    /\ approval \in IF risky THEN {"pending", "approved"} ELSE {"none"}
    /\ approver \in IF approval = "approved" THEN Approvers \ {Requester} ELSE {NoUser}
    /\ snap = NoRow
    /\ \/ /\ native = "created"
          /\ extraction = "none"
          /\ evidence = FALSE
          /\ browserRuns = 0
       \/ /\ approval # "pending"
          /\ native = "completed"
          /\ extraction \in {"valid", "invalid"}
          /\ evidence \in BOOLEAN
          /\ browserRuns = 1

Init ==
    /\ risky \in BOOLEAN
    /\ InitAttached \/ InitLegacy
    /\ quote = "none"
    /\ review = "none"
    /\ reviewCount = 0
    /\ claim = NoProc
    /\ pc = [p \in Procs |-> "idle"]
    /\ loc = [p \in Procs |-> NoLoc]
    /\ canceling = FALSE
    /\ resolving = NoRead
    /\ crashes = 0
    /\ claimLosses = 0

(***************************************************************************)
(* Helpers.                                                                *)
(***************************************************************************)

Goto(p, next) == pc' = [pc EXCEPT ![p] = next]

\* The request answers: its claim session closes and the row lock goes.
Return(p) ==
    /\ pc' = [pc EXCEPT ![p] = "idle"]
    /\ loc' = [loc EXCEPT ![p] = NoLoc]
    /\ claim' = IF claim = p THEN NoProc ELSE claim

\* The enterprise step of the snapshot moves inside the caller's transaction.
MoveTo(step, byExtraction) ==
    /\ CanAdvance(snap, step)
    /\ snap' = Advance(snap, step, native = "completed", byExtraction)

\* _persist_supplier_quote: the evidence artifact must exist and belong to
\* the task, the unique index allows one quote, the step becomes completed.
MutPersistQuote(by, byExtraction) ==
    /\ evidence
    /\ quote = "none"
    /\ quote' = by
    /\ snap' = snap

PersistQuote(by, byExtraction) ==
    /\ evidence
    /\ quote = "none"
    /\ quote' = by
    /\ MoveTo("completed", byExtraction)

(***************************************************************************)
(* Approval decision: _decide.  The approval and the task row are locked;  *)
(* rejecting cancels the task in the same transaction.                     *)
(***************************************************************************)
MutMayDecide(u) == u \in Approvers

MayDecide(u) == u \in Approvers /\ u # Requester

MutDecide(u, decision) ==
    /\ MayDecide(u)
    /\ approval = "pending"
    /\ native = "created"
    /\ approval' = decision
    /\ approver' = u
    /\ MoveTo(IF decision = "approved" THEN "ready" ELSE "rejected", FALSE)
    /\ UNCHANGED <<risky, native_vars, outcome, proc_vars, bounds>>

Decide(u, decision) ==
    /\ MayDecide(u)
    /\ approval = "pending"
    /\ native = "created"
    /\ approval' = decision
    /\ approver' = u
    /\ native' = IF decision = "rejected" THEN "canceled" ELSE native
    /\ MoveTo(IF decision = "approved" THEN "ready" ELSE "rejected", FALSE)
    /\ UNCHANGED <<risky, extraction, evidence, canceling, browserRuns,
                   outcome, proc_vars, bounds>>

(***************************************************************************)
(* recover_quote_task, one transaction or read at a time.                  *)
(***************************************************************************)
MayContinue == IF approval = "none" THEN ~risky ELSE approval = "approved"

MutClaimFree(p) == claim # p

\* SELECT ... FOR UPDATE SKIP LOCKED returned the TaskExtension row.
ClaimFree(p) == claim = NoProc

Claim(p) ==
    /\ pc[p] = "idle"
    /\ ClaimFree(p)
    /\ MayContinue
    /\ claim' = p
    /\ Goto(p, "check_quote")
    /\ UNCHANGED <<facts, snap, native_vars, outcome, loc, bounds>>

CheckQuote(p) ==
    /\ pc[p] = "check_quote"
    /\ IF quote # "none"
       THEN Return(p)
       ELSE Goto(p, "check_review") /\ UNCHANGED <<loc, claim>>
    /\ UNCHANGED <<facts, snap, native_vars, outcome, bounds>>

\* Any review, whatever its status, ends automatic recovery.
CheckReview(p) ==
    /\ pc[p] = "check_review"
    /\ IF reviewCount > 0
       THEN Return(p)
       ELSE Goto(p, "read_task") /\ UNCHANGED <<loc, claim>>
    /\ UNCHANGED <<facts, snap, native_vars, outcome, bounds>>

MutReadTask(p) ==
    /\ pc[p] = "read_task"
    /\ IF native \in {"created", "completed"}
       THEN /\ loc' = [loc EXCEPT ![p].seen = native]
            /\ Goto(p, "load_plan")
            /\ UNCHANGED claim
       ELSE Return(p)
    /\ UNCHANGED <<facts, snap, native_vars, outcome, bounds>>

\* Only an untouched or a finished native task is planned; an interrupted one
\* goes to a human.
ReadTask(p) ==
    /\ pc[p] = "read_task"
    /\ loc' = [loc EXCEPT ![p].seen = native]
    /\ Goto(p, IF native \in {"created", "completed"} THEN "load_plan" ELSE "review")
    /\ UNCHANGED <<facts, snap, native_vars, outcome, claim, bounds>>

\* The planner is asked after this read and before the write in SavePlan.
LoadPlan(p) ==
    /\ pc[p] = "load_plan"
    /\ loc' = [loc EXCEPT ![p].row = snap]
    /\ Goto(p, "save_plan")
    /\ UNCHANGED <<facts, snap, native_vars, outcome, claim, bounds>>

SaveQuotePlan(p) ==
    LET plan == PlanFor(loc[p].seen = "completed")
    IN  /\ pc[p] = "save_plan"
        /\ IF CanSavePlan(loc[p].row, snap)
           THEN /\ snap' = SavePlan(loc[p].row, snap, plan)
                /\ Goto(p, IF "execute_native" \in plan.steps
                           THEN "start" ELSE "check_result")
                /\ loc' = [loc EXCEPT ![p].row = NoRow]
                /\ UNCHANGED claim
           ELSE Return(p) /\ UNCHANGED snap
        /\ UNCHANGED <<facts, native_vars, outcome, bounds>>

MutMayStart == native \in {"created", "running"}

\* The task row is locked and must still be created.
MayStart == native = "created"

\* The uncertainty marker: Task.running and the running step commit before
\* any browser side effect.
Start(p) ==
    /\ pc[p] = "start"
    /\ IF MayStart /\ CanAdvance(snap, "running")
       THEN /\ native' = "running"
            /\ MoveTo("running", FALSE)
            /\ Goto(p, "launch")
            /\ UNCHANGED <<loc, claim>>
       ELSE Return(p) /\ UNCHANGED <<native, snap>>
    /\ UNCHANGED <<facts, extraction, evidence, canceling, browserRuns, outcome, bounds>>

(***************************************************************************)
(* Native execution: BackgroundTaskExecutor and ForgeAgent.                *)
(***************************************************************************)

\* execute_task writes running without looking at the status it replaces.
Launch(p) ==
    /\ pc[p] = "launch"
    /\ native' = "running"
    /\ browserRuns' = browserRuns + 1
    /\ Goto(p, "executing")
    /\ UNCHANGED <<facts, snap, extraction, evidence, canceling, outcome, claim, loc, bounds>>

\* A screenshot or page snapshot is stored while the browser works.
RecordEvidence(p) ==
    /\ pc[p] = "executing"
    /\ ~evidence
    /\ evidence' = TRUE
    /\ UNCHANGED <<facts, snap, native, extraction, canceling, browserRuns,
                   outcome, proc_vars, bounds>>

\* ForgeAgent.update_task re-reads the task and validates the transition ...
AgentDecides(p, s) ==
    /\ pc[p] = "executing"
    /\ CanUpdateTo(native, s)
    /\ loc' = [loc EXCEPT ![p].outcome = s]
    /\ Goto(p, "writing")
    /\ UNCHANGED <<facts, snap, native_vars, outcome, claim, bounds>>

\* ... and AgentDB.update_task then writes it, whatever happened meanwhile.
AgentWrites(p) ==
    /\ pc[p] = "writing"
    /\ native' = loc[p].outcome
    /\ extraction' \in IF loc[p].outcome = "completed" THEN {"valid", "invalid"} ELSE {extraction}
    /\ loc' = [loc EXCEPT ![p].outcome = "created"]
    /\ Goto(p, "reread")
    /\ UNCHANGED <<facts, snap, evidence, canceling, browserRuns, outcome, claim, bounds>>

\* The agent notices the cancellation between two steps and stops.
AgentStops(p) ==
    /\ pc[p] = "executing"
    /\ native = "canceled"
    /\ Goto(p, "reread")
    /\ UNCHANGED <<facts, snap, native_vars, outcome, claim, loc, bounds>>

\* Starting or running the agent raises.
ExecutionRaises(p) ==
    /\ pc[p] \in {"launch", "executing"}
    /\ Goto(p, "review")
    /\ UNCHANGED <<facts, snap, native_vars, outcome, claim, loc, bounds>>

(***************************************************************************)
(* After execution.                                                        *)
(***************************************************************************)
RereadTask(p) ==
    /\ pc[p] = "reread"
    /\ Goto(p, IF native = "completed" THEN "check_result" ELSE "review")
    /\ UNCHANGED <<facts, snap, native_vars, outcome, claim, loc, bounds>>

\* _persist_extracted_quote up to its transaction: a quote written meanwhile
\* is the answer, an unusable extraction goes to a human.
CheckResult(p) ==
    /\ pc[p] = "check_result"
    /\ IF quote # "none"
       THEN Return(p)
       ELSE /\ Goto(p, IF extraction = "valid" THEN "persist" ELSE "review")
            /\ UNCHANGED <<loc, claim>>
    /\ UNCHANGED <<facts, snap, native_vars, outcome, bounds>>

\* The transaction: no artifact goes to a human; a quote inserted meanwhile
\* violates the unique index and is returned; a refused step is a 409.
PersistExtracted(p) ==
    /\ pc[p] = "persist"
    /\ IF ~evidence
       THEN Goto(p, "review") /\ UNCHANGED <<snap, quote, claim, loc>>
       ELSE /\ Return(p)
            /\ IF quote = "none" /\ CanAdvance(snap, "completed")
               THEN PersistQuote("extracted", TRUE)
               ELSE UNCHANGED <<snap, quote>>
    /\ UNCHANGED <<facts, native_vars, review, reviewCount, resolving, bounds>>

MutReviewNeeded == TRUE

\* No pending review yet: the partial unique index allows one per task.
ReviewNeeded == review # "pending"

\* _create_or_get_quote_human_review: review, step and audit commit together.
CreateReview(p) ==
    /\ pc[p] = "review"
    /\ Return(p)
    /\ IF ReviewNeeded /\ CanAdvance(snap, "needs_human")
       THEN /\ review' = "pending"
            /\ reviewCount' = reviewCount + 1
            /\ MoveTo("needs_human", FALSE)
       ELSE UNCHANGED <<snap, review, reviewCount>>
    /\ UNCHANGED <<facts, native_vars, quote, resolving, bounds>>

(***************************************************************************)
(* Operators: the direct quote and the resolution of a human review.       *)
(***************************************************************************)

\* POST /quotes: it takes no claim and looks at no review.
CreateSupplierQuote ==
    /\ PersistQuote("manual", FALSE)
    /\ UNCHANGED <<facts, native_vars, review, reviewCount, resolving, proc_vars, bounds>>

\* The review row is pending and not locked by another resolution.
ReviewOpen == review = "pending" /\ resolving = NoRead

\* resolve_human_review, under the lock of the review row.
ResolveManually ==
    /\ ReviewOpen
    /\ PersistQuote("manual", FALSE)
    /\ review' = "resolved"
    /\ UNCHANGED <<facts, native_vars, reviewCount, resolving, proc_vars, bounds>>

ResolveBySkipping ==
    /\ ReviewOpen
    /\ MoveTo("skipped", FALSE)
    /\ review' = "resolved"
    /\ UNCHANGED <<facts, native_vars, quote, reviewCount, resolving, proc_vars, bounds>>

\* The task row is read without a lock ...
TerminateReads ==
    /\ ReviewOpen
    /\ resolving' = native
    /\ UNCHANGED <<facts, snap, native_vars, quote, review, reviewCount, proc_vars, bounds>>

\* ... and follows where the transition table allows it from what was read.
ResolveByTerminating ==
    /\ resolving # NoRead
    /\ resolving' = NoRead
    /\ native' = IF CanUpdateTo(resolving, "terminated") THEN "terminated" ELSE native
    /\ MoveTo("terminated", FALSE)
    /\ review' = "terminated"
    /\ UNCHANGED <<facts, extraction, evidence, canceling, browserRuns,
                   quote, reviewCount, proc_vars, bounds>>

\* The step is refused, or the request dies: everything rolls back.
TerminateRollsBack ==
    /\ resolving # NoRead
    /\ resolving' = NoRead
    /\ UNCHANGED <<facts, snap, native_vars, quote, review, reviewCount, proc_vars, bounds>>

(***************************************************************************)
(* The native cancel endpoint: validated on one read, written afterwards.  *)
(***************************************************************************)
CancelValidates ==
    /\ ~canceling
    /\ CanUpdateTo(native, "canceled")
    /\ canceling' = TRUE
    /\ UNCHANGED <<facts, snap, native, extraction, evidence, browserRuns,
                   outcome, proc_vars, bounds>>

CancelWrites ==
    /\ canceling
    /\ canceling' = FALSE
    /\ native' = "canceled"
    /\ UNCHANGED <<facts, snap, extraction, evidence, browserRuns,
                   outcome, proc_vars, bounds>>

(***************************************************************************)
(* Failures.                                                               *)
(***************************************************************************)

\* The worker process dies, or a statement of this request fails: its open
\* transaction rolls back, the row lock goes, the in-process agent is gone.
Crash(p) ==
    /\ pc[p] # "idle"
    /\ crashes < MaxCrashes
    /\ crashes' = crashes + 1
    /\ Return(p)
    /\ UNCHANGED <<facts, snap, native_vars, outcome, claimLosses>>

\* The database drops the claim's connection; the request uses that session
\* no more after its checks, so it goes on without noticing.
LoseClaim(p) ==
    /\ claim = p
    /\ pc[p] \notin {"check_quote", "check_review"}
    /\ claimLosses < MaxClaimLosses
    /\ claimLosses' = claimLosses + 1
    /\ claim' = NoProc
    /\ UNCHANGED <<facts, snap, native_vars, outcome, pc, loc, crashes>>

(***************************************************************************)
(* The specification.                                                      *)
(***************************************************************************)

Agent(p) ==
    \/ RecordEvidence(p)
    \/ \E s \in {"completed", "failed", "terminated", "timed_out"} : AgentDecides(p, s)
    \/ AgentWrites(p)
    \/ AgentStops(p)
    \/ ExecutionRaises(p)

Recovery(p) ==
    \/ CheckQuote(p)
    \/ CheckReview(p)
    \/ ReadTask(p)
    \/ LoadPlan(p)
    \/ SaveQuotePlan(p)
    \/ Start(p)
    \/ Launch(p)
    \/ RereadTask(p)
    \/ CheckResult(p)
    \/ PersistExtracted(p)
    \/ CreateReview(p)

Operator ==
    \/ CreateSupplierQuote
    \/ ResolveManually
    \/ ResolveBySkipping
    \/ TerminateReads
    \/ ResolveByTerminating
    \/ TerminateRollsBack

Next ==
    \/ \E u \in Users : Decide(u, "approved") \/ Decide(u, "rejected")
    \/ \E p \in Procs : Claim(p) \/ Recovery(p) \/ Agent(p) \/ Crash(p) \/ LoseClaim(p)
    \/ Operator
    \/ CancelValidates
    \/ CancelWrites

Spec == Init /\ [][Next]_vars

\* Handlers keep running, the agent stops after finitely many steps, a
\* validated cancel is written, and clients retry an unanswered quote task.
Fairness ==
    /\ \A p \in Procs : WF_vars(Recovery(p)) /\ WF_vars(Agent(p))
    /\ WF_vars(CancelWrites)
    /\ WF_vars(\E p \in Procs : Claim(p))

FairSpec == Spec /\ Fairness

(***************************************************************************)
(* Properties.                                                             *)
(***************************************************************************)

\* At most one browser execution is ever started for a quote task: the
\* committed running marker of recover_quote_task admits one, whatever dies,
\* is retried, or loses its row lock.
BrowserRunsOnce == browserRuns <= 1

\* The browser works on a risky task only after another user than its
\* requester approved it, and a later rejection cannot follow.
RunIsAuthorised ==
    browserRuns > 0 /\ risky => approval = "approved" /\ approver # Requester

\* A rejected task is canceled and the browser never worked on it, however
\* the decision interleaves with retries and native cancellations.
RejectionStops == approval = "rejected" => native = "canceled" /\ browserRuns = 0

\* The snapshot tells the operator what the other tables say: every step
\* agrees with the approval, the quote and the review rows, although five
\* handlers and the recovery write them independently.
StepMatchesFacts ==
    /\ snap.step = "awaiting_approval" => approval = "pending"
    /\ snap.step = "rejected" <=> approval = "rejected"
    /\ snap.step = "completed" <=> quote # "none"
    /\ snap.step = "needs_human" => review = "pending"
    /\ snap.step = "terminated" <=> review = "terminated"
    /\ snap.step = "skipped" => review = "resolved"
    /\ review = "pending" => snap.step \in {"needs_human", "completed"}

\* Retries and late failures of one task never open a second human review.
AtMostOneReview == reviewCount <= 1

\* The skill projection never claims a native extraction for a quote a human
\* entered, and never credits a human with an extracted one while the native
\* task is still completed.
SkillProvenance ==
    /\ snap.skill = "completed" =>
          quote = "extracted" /\ extraction = "valid" /\ evidence
    /\ quote = "manual" => snap.skill = "manual_completed"
    /\ quote = "extracted" /\ native = "completed" => snap.skill = "completed"

\* A plan lists execute_native as done only when the native task did complete.
PlanMatchesBrowser ==
    "execute_native" \in snap.plan.completed => extraction # "none"

\* A snapshot at a final step is never written again, not even by a planner
\* that loaded the row before the step became final.
TerminalSnapshotFrozen == [][snap.step \in TerminalSteps => snap' = snap]_snap

\* While the claim holds, crashes and retries use at most the one replan that
\* the row advertises in max_replans.
ReplansWithinBudget == snap.replans <= MaxReplans

\* An authorised task does not get stuck between the browser and the operator:
\* if clients retry, it ends up with a quote or in front of a human.
QuoteOrHuman ==
    (IF risky THEN approval = "approved" ELSE approval = "none")
        ~> (quote # "none" \/ reviewCount > 0)

\* What TaskStatus.can_update_to says of a canceled task: it may still become
\* completed and nothing else.  execute_task does not ask (see the findings).
CancelSticks ==
    [][native = "canceled" => native' \in {"canceled", "completed"}]_native

\* What the guide says of a human review: a pending one can always be
\* terminated.  A quote posted beside it takes that away (see the findings).
PendingReviewCanTerminate == review = "pending" => CanAdvance(snap, "terminated")

\* The phase of the abstract contract that the tables amount to.
Phase ==
    CASE snap.step = "absent"             -> IF approval = "pending" THEN "waiting" ELSE "open"
      [] snap.step = "awaiting_approval"  -> "waiting"
      [] snap.step = "ready"              -> "open"
      [] snap.step = "running"            -> "working"
      [] snap.step = "needs_human"        -> "human"
      [] snap.step = "completed"          -> "settled"
      [] OTHER                            -> "closed"

Contract == INSTANCE QuoteContract WITH phase <- Phase, runs <- browserRuns

\* While the claim holds, the tables and handlers together behave like the
\* small contract of QuoteContract.tla.
ImplementsContract == Contract!Spec

===============================================================================
