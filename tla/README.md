# TLA+ models of the procurement enterprise layer

The repository is a fork of the Skyvern browser-automation platform
(`src/skyvern`) with a procurement layer on top of it (`src/enterprise`). The
layer lets an operator submit a quote task or a workflow template, has risky
work approved by somebody else, lets the native platform do the browsing, and
turns the result into a checked supplier quote or hands it to a human. What is
hard about it is not the browsing but that every step commits in transactions
of its own while other requests, approvers, operators, retries, native
cancellations and dying workers go on beside it. The modules here model that.

## 1. Inventory

State is in PostgreSQL unless said otherwise; a transaction is a step.

| Component | State it keeps | Operations | Talks to |
| --- | --- | --- | --- |
| Quote state and plan (`procurement/quote_state.py`, `agent/quote_planner.py`) | one coordination row per task: step, skill projection, plan, replans, version | `advance_quote_state`, `load_quote_state`, `save_quote_plan`, `plan_quote` | called inside the transactions of every component below |
| Submission (`quote_task`, `_attach_procurement_context`) | task extension with the hash of the Idempotency-Key, approval, audit; an in-process lock | submit, attach, resolve a conflict, cancel the orphan | creates native tasks, ends in the continuation |
| Continuation (`recover_quote_task`) | none of its own: resumes from the tables | claim, plan, mark running, launch, persist quote, open a review | native task, snapshot, quotes, reviews |
| Human review (`resolve_human_review`) | review rows, one pending per task | manual complete, skip, terminate | snapshot, quotes, native task |
| Approvals (`approval/routes.py`) | approval request, the connections a request holds | approve, reject, continue, long poll for updates | native task, snapshot, Redis |
| Publish and wait (`approval/notifications.py`, `approval/pubsub.py`) | a Redis channel | publish a decision, wait for a message; create and wait (tests only) | the approval routes |
| Workflow instances (`workflows/routes.py`, `workflows/runtime.py`) | instance row: status, version, steps, plan, native run | instantiate, dispatch, recover, terminate, guards around every block | native executor, credentials |
| Native executor of workflow runs (`skyvern/forge/sdk/workflow/service.py`) | workflow runs, artifacts | launch, status writes, cancel | calls the guards back |
| Native task and agent loop (`skyvern/forge/agent.py`) | tasks, steps, the open calls of `execute_step`, the speculation | act, retry, verify and speculate, settle, fail, cancel | browser, model, the workflow run around it |
| Coordinator and planner (`agent/coordinator.py`, `planner.py`, `executor.py`) | coordination row with compare-and-swap on the version | run, replan, escalate | handlers, human review |
| Risk and routing (`approval/risk_detector.py`, `routing.py`) | none | assess, route | an LLM that may only raise the level |
| LLM access (`llm/`) | action cache, task states | call with retries, fall back, cache | providers |
| Skills (`skills/`) | none | run a pipeline with a failure strategy per step | native blocks |
| Audit (`audit/`) | append-only rows, objects in MinIO | write, upload, sign | everybody |
| Notification (`notification/`) | none | best-effort delivery | after commits |
| Auth, tenant (`auth/`, `tenant/`) | users, roles, credentials | check | every request |
| Comparison, dashboard | none | read | quotes |

Hard behaviours, and what makes each part correct:

* **Quote task**: two recoveries of one task, a lost row lock, a crash between
  any two commits, a decision or a manual quote while the planner is awaited, a
  cancel beside a launch. Correct means: one browser execution, only with the
  approval of another user; the step of the snapshot agrees with the approval,
  quote and review tables; a final snapshot never changes; the client who keeps
  asking ends with a quote or a human.
* **Submission**: several workers, one key, a native task committed before
  anything else. Correct means: clients are told of one task per key, only that
  one is executed, and duplicates are canceled without touching it.
* **Workflow instance**: dispatch, recover and terminate compete, and an
  executor comes back from the browser to an instance that was stopped. Correct
  means: one executor, blocks in order and once, completion only with evidence,
  settled instances stay settled, no silent executor holds an instance for ever.
* **Approvals outside the quote path**: a continuation reads the task in one
  session, writes it in another and holds the row lock meanwhile; notices are
  lost, late or forged; the pool of connections may be used up by requests that
  wait for the lock. Correct means: the browser gets the task once and only
  after an approval, a client that keeps polling learns the committed decision
  and nothing else, every request ends.
* **Coordinator**: two calls hold one version of the snapshot, a call dies
  between a subtask and the save that records it, the human review commits
  before the snapshot that points to it. Correct means: the snapshot never
  claims more than what happened, progress is never taken back, the planner is
  not asked more often than allowed, a subtask is repeated only after a fault.
* **Native task**: the loop is a recursion inside its own exception handlers,
  creates the next step before the goal is verified, and reads and writes the
  status of the task in two statements beside a cancel. Correct means: steps are
  attempted in order within the budgets, the loop ends, and it leaves neither a
  task nor a step without an end.

The remaining components and the reason each one is not modelled (yet) are in
`PROJECT.json`, as is the list of hazards with the line where each one bites.

## 2. Modules

| Module | Models |
| --- | --- |
| `TaskStatus` | the status table of native tasks, `TaskStatus.can_update_to` |
| `QuoteState` | the coordination row as operators: which steps may follow, what a step does to skill and plan, when a plan may be saved |
| `QuoteLifecycle` | one quote task: approvals, recoveries statement by statement, the native agent, reviews and manual quotes; uses the two above |
| `QuoteContract` | the promise behind it: waiting, open, working, human, settled or closed |
| `QuoteSubmission` | requests of several workers with Idempotency-Keys until their task is attached |
| `IdempotencyContract` | the promise of a key |
| `WorkflowInstance` | one workflow instance: endpoints, guards, native executor |
| `WorkflowContract` | its promise: blocks in order, once, and no way back from a halt |
| `ApprovalUpdates` | an approval that belongs to no quote: decisions, continuations, connections, the long poll |
| `Coordinator` | the calls of `AgentCoordinator.run` for one task, with handler, planner, snapshot and review |
| `CheckpointContract` | what the snapshot promises to the callers of `run` |
| `AgentLoop` | `execute_step` for one native task, with its nested calls, handlers and what runs beside it |
| `AttemptContract` | which steps may be attempted, how often, and when a task may be settled |
| `QuoteLifecycleProofs`, `QuoteSubmissionProofs`, `WorkflowInstanceProofs`, `ApprovalUpdatesProofs`, `CoordinatorProofs`, `AgentLoopProofs` | theorems about one module each |
| `QuoteContractProofs` | extends `QuoteLifecycleProofs`: what quotes and plans claim, the budget of replans, the refinement of `QuoteContract` |
| `AttemptProofs` | extends `AgentLoopProofs`: the rows of the loop and the refinement of `AttemptContract` |
| `MC...` | small instances of the module named behind `MC`, for TLC |

The modules compose where the code does: `QuoteLifecycle` uses the operators of
`QuoteState` inside its transactions and, like `AgentLoop`, the status table of
`TaskStatus`. The browser execution that `QuoteLifecycle` sees as one action
with a result is what `AgentLoop` opens up, and the coordinator's subtasks are
handled by an injected handler, so these are not run together.

### How state and actions correspond to the code

`QuoteLifecycle`. `snap` is the coordination row, `native` the status of the
native task, `approval`, `quote` and `review` the other tables, `claim` the row
lock a recovery holds on the approval or the task. `pc` and `loc` are the program
counter and the local variables of a recovery: a value that the code read before
an `await` (the row given to the planner, the status of the task) stays in `loc`
until it is used, so that everything that can happen in between does. A native
cancel is two actions, validate and write, because it is a read and a
write in the code. `browserRuns` and `reviewCount` count what really happened.

`QuoteSubmission`. Every attempt of a client has a native task of its own,
`<<client, attempt>>`. `attached` are the tasks with an extension row; the
unique index is the guard `Unique`. Of a task's later life only the approval,
the running marker and the end of the execution are kept. `lock` is
`_SMOKE_LOCK`, one per worker.

`WorkflowInstance`. The row (`status`, `version`, `bound`, `steps`, `plan`), the
native side (`run`, `begun`, `task`, `evidence`), requests (`pc`, `seen`) and executors
(`xpc`, `xat`). `before_native_block`, `after_native_block` and `fail_native` are
the actions `BeforeBlock`, `AfterBlock` and `FailNative`; the statements of
`execute_workflow` around them are the other executor actions.

`ApprovalUpdates`. `approval` and `task` are the two rows, `notice` is the last
message on the channel and may say anything, `pc` is the statement a request is
at and `poll` that of a client. A request holds a connection while it waits for
the row lock or owns it; `claim` is the place where a continuation asks for the
second one. Statement and pool timeouts are actions of their own. The native
cancel endpoint and the agent read and validate the task (`CancelRead`,
`SettleRead`) and write it later, over whatever it is by then (`CancelWrite`,
`SettleWrite`).

`Coordinator`. `row` is the versioned snapshot, `mine` the copy each call keeps
in memory, `after` where it goes on when the save has succeeded. `SaveThen` is
the compare-and-swap; a call that loses it is refused. `Die` ends a call at any
place, before or after a commit took effect. `performed`, `skipped`, `repeated`,
`overlapped` and `asked` record what really happened.

`AgentLoop`. `frames` is the stack of open calls of `execute_step`. The phase of
a frame says where an exception goes: `outside` its try block, `inside`, in
`fail_task` (`failing`), or past its handlers (`handled`). `update_task` is the
two actions `ReadTask` and `WriteTask` because the status is read, validated and
written in statements between which the cancel endpoint may write. `Fault` may
strike at every statement, but it is an `Exception`. `CancelledError` is none:
`agent_step` and the wait for the speculation handle it, no handler of
`execute_step` or `fail_task` does, so a coroutine that is canceled leaves all
its calls at once (`Interrupted`). The worker may die at every place and takes
the coroutines beside the loop with it (`WorkerDies`). `holes` records where an
exception fell through and that the loop was interrupted.

### Abstractions

* A transaction is one action. That is justified by row locks (`FOR UPDATE`),
  the compare-and-swap on the snapshot's version and unique indexes: two
  transactions that touch the same row are serialised, and the statement that
  waits re-reads the row. What two transactions read and write across rows is
  kept apart as several actions.
* Tasks and instances share no rows, so one of each is enough; the lock order
  (approval or task first, snapshot second) is the same everywhere, which is why
  no deadlock of the database is modelled.
* `expected_version` and `FOR UPDATE SKIP LOCKED` only refuse requests. The
  refusal is modelled where it has consequences (`LockBusy` inside an exception
  handler), and left out where it changes nothing.
* Block outcomes failed, terminated and timed out are one outcome. The
  actor's permission and the credential are one boolean, which the environment
  may withdraw.
* A coordinator without a session factory keeps nothing durable, and its audit
  callback changes no state: both are left out. A plan is the sequence of the
  failure strategies of its subtasks; a planner that raises leaves the empty one.
* `continue_request` hands the approval of a quote task to `recover_quote_task`,
  which `QuoteLifecycle` models; `ApprovalUpdates` models all other approvals.
* In the agent loop a step with a speculative plan has the same outcomes as one
  without, so the plan's content is left out, as are artifacts, webhooks and the
  mode that runs one step per request. What happens inside one browser action or
  model call is an outcome. A page was scraped whenever the goal is verified, and
  the feature flags keep their value while a task runs.
* Exits that only refuse are folded into others or left out: the 403 and 404 of
  `get_procurement_task` for a task that is stored (`Lookup`), the refusal of
  `_load_state` to read the row of a quote task (`coordinator.py:103`), a subtask
  without a handler (`executor.py:57`), which fails like one whose handler does.
  `execute_safe` turns most exceptions of a block into a failed result
  (`block.py:571`), which is one of the outcomes of `BrowseEnds`; `BlockRaises`
  stands for those it lets through. A block without a result fails the run as a
  failed one does (`service.py:2055`).
* Amounts, texts, artifacts and audit rows are data no property depends on; that
  artifacts exist and the result validates is the boolean `evidence` (and
  `extraction` for quotes).

## 3. Runs

| Run | Bounds | Shows |
| --- | --- | --- |
| `quote_faults` | 2 recoveries, 3 users of which 2 approvers, 2 crashes, 1 lost row lock | `TypeOK`, `BrowserRunsOnce`, `RunIsAuthorised`, `RejectionStops`, `StepMatchesFacts`, `AtMostOneReview`, `SkillProvenance`, `PlanMatchesBrowser`, `TerminalSnapshotFrozen` |
| `quote_contract` | 2 recoveries, 2 crashes, no lost lock | `ReplansWithinBudget`, `QuoteOrHuman`, `ImplementsContract` |
| `cancel_overwritten` | 1 recovery | finding: a cancel is lost to the launch |
| `review_stranded` | 1 recovery | finding: a review without a way out |
| `submission_safety` | 2 workers, 1 key, 2 attempts each, 2 faults | `TypeOK`, `OneBrowserPerKey`, `NoStrayTask`, `CleanupSparesOwner`, `ImplementsIdempotency` |
| `submission_lock` | 3 clients, 2 of them behind one lock, 2 keys, 1 fault | `Answered` |
| `workflow_safety` | 2 requests, 3 blocks, 2 crashes | `TypeOK`, `OneExecutor`, `BlocksInOrder`, `CompletedIsProven`, `NativeSuccessIsShared`, `StoppedInstanceFrozen`, `SettledStays` |
| `workflow_contract` | 2 requests, 2 blocks, 1 crash | `Settles`, `ImplementsContract` |
| `workflow_cancel_lost` | 1 request, 2 blocks | finding: the canceled run is marked running again |
| `approval_updates` | 2 approvers, 2 continuations, 1 polling client, 2 connections | `ApprovalGatesExecution`, `AnswerIsCurrent`, `LearnsDecision`, `RequestsEnd` |
| `coordinator` | 2 calls of the owning organization and 1 of another, 2 plans that show the 4 failure strategies, 1 replan, 1 retry, every call may die | `SnapshotIsTrue`, `BudgetKept`, `RepeatNeedsFault`, `CallEnds`, `ImplementsCheckpoints` |
| `agent_loop` | 5 kinds of task, 3 steps, 1 retry of each, exceptions at every statement, cancellation of the coroutine, death of the worker | `SettledUnlessHole`, `NoStrayStep`, `LoopEnds`, `ImplementsAttempts` |

Why the bounds are enough: the races are between two writers of one row, so two
processes show them; a crash after a crash needs two; three blocks are a first,
a middle and a last one. With two connections one continuation that holds the
lock and one request that waits for it use up the pool. Two calls of the
coordinator race for one version, the third is the one that must be kept out;
one replan and one retry are the first that is granted and the next that is
not. Three steps nest the agent loop deep enough for an exception to pass a
retried and a completed step. The proofs of section 5 remove the bounds for
all safety properties and refinements of the passing runs. `ImplementsContract` of the quote is checked
without lost row locks because with one a second recovery may open a review
beside a browser that is about to start, and `ReplansWithinBudget` is checked with
it; the safety properties of `quote_faults` hold even then.

`CHECK_DEADLOCK FALSE` everywhere: a settled task or instance, an answered call
and an ended loop really stop. The type invariants of `ApprovalUpdates`,
`Coordinator` and `AgentLoop` are not in a cfg; they are proved.

Every checked property has a mutant in `PROJECT.json`: a definition of the model
changed the way a plausible bug in the code would, under which TLC finds the
property violated. The operators named `Mut...` in the modules are these mutants.

## 4. Fairness

* `QuoteLifecycle`: a handler that runs keeps running, the native agent stops
  (its steps are limited), a validated cancel is written, and the client keeps
  asking for the recovery. Nothing is assumed of approvers and reviewers.
* `QuoteSubmission`: a handler that holds the lock keeps running;
  `asyncio.Lock` wakes its waiters in order, hence strong fairness of `Lock`.
* `WorkflowInstance`: a request is answered, the row lock is not held at every
  single try of `_dispatch`, and the client of an unsettled instance asks to
  recover it. Nothing is assumed of the native executor: `Settles` holds even if
  it stops without a word.
* `ApprovalUpdates`: a request goes on (every wait for a connection or a lock has
  a timeout, which is a step too), and a client polls until it knows. Nothing is
  assumed of Redis or of approvers.
* `Coordinator`: a call that was made is scheduled again after every `await`;
  handler, planner and database answer or raise. That a call is made, or dies,
  is not assumed.
* `AgentLoop`: what the loop or the speculation awaits answers or raises. The
  coroutine that discards the speculated step needs no fairness for what is
  claimed, and cancels, exceptions and interruptions have none.

## 5. Proofs

`QuoteLifecycleProofs` proves for any number of recoveries, users, crashes and
lost locks: `TypeOK`, `BrowserRunsOnce`, `RunIsAuthorised`, `RejectionStops`,
`StepMatchesFacts`, `AtMostOneReview` and `TerminalSnapshotFrozen`, under
`LifecycleAssumption` only (the requester is a user, approvers are users, the
null values are no processes or users). The safety properties are not inductive.
What carries them is `Inv`: once the running marker is committed the native
status never is `created` again (so a second start is impossible, whoever holds
the lock), a request that passed the claim has seen an approval that is
final, and each step of the snapshot is tied to the rows that led to it.

`QuoteContractProofs` goes on from there. `SkillProvenance` and
`PlanMatchesBrowser` hold without any further assumption. They rest on
`ExtractionInv` (whoever stands at the browser stands there alone and before any
result, a request about to persist has seen a valid one, and a planner that
remembers a completed task remembers a result) and `SkillInv` (an extracted
quote rests on a valid extraction and on evidence that nobody takes away).

`ReplansWithinBudget` and the refinement of `QuoteContract` are proved under the
hypothesis `MaxClaimLosses = 0`, no recovery loses its row lock, and they need it:
the lock of `recover_quote_task` is a session of its own. When that session is
gone, a recovery that had read the untouched task may plan for it after another
one executed it and replanned, and so replan once more; or a second recovery may
open a review beside a browser that is about to start. TLC finds both with
`MaxClaimLosses = 1`. Crashes are not excluded, nor is anything approvers,
reviewers and the native side do. `ClaimInv` says that who is under way holds the
lock; `BudgetInv` that a plan is recorded at most twice, before the browser ran
and after it completed, and that a planner for an untouched task cannot meet the
plan for a completed one; `PhaseInv` that nothing is executed before a decision
and that no human review interferes with a request past its checks. The phase
and the counter of browser runs map each transaction to a step of the contract;
the lemmas sort the actions by what they do to the tables (`Moved`, `Quoted`,
`Planned`, `Launched` and those nobody sees).

`WorkflowInstanceProofs` proves for any number of blocks, requests and crashes
`TypeOK`, `OneExecutor`, `BlocksInOrder`, `CompletedIsProven`,
`NativeSuccessIsShared`, `SettledStays`, `StoppedInstanceFrozen`, and that
`WorkflowInstance` implements `WorkflowContract`. Its invariant has five parts:
`StartInv` (one request at a time is responsible for the run, from the insert to
the launch: without it two dispatches of one version cannot be excluded),
`BlockInv` (what the status of a block says about the browser and about its
predecessors), `AtInv` (the executor at a block is the one that marked it
running), `DoneInv` and `SuccessInv` (an executor about to report success has
completed the instance). The refinement maps the two counters of the contract to
the numbers of touched and completed blocks; the lemmas `CountsBefore` and
`CountsAt` show that these sets are prefixes of the blocks.

`QuoteSubmissionProofs` proves every safety property of the submission and that
it implements `IdempotencyContract`, for any number of clients, workers, keys,
attempts and faults, under `SubmissionAssumption` and `NoTaskAssumption`. The
invariant says that what a request found or a client was told is the owner of
the key (`OwnerInv`), that an attempt has no rows until it attaches them
(`AttemptInv`), that a task that was started never is `created` again (`RunInv`),
and, for `NoStrayTask`, that without a fault a conflict means that the key has an
owner. It does not mention the lock of a worker: the unique index alone keeps
the requests apart.

`ApprovalUpdatesProofs` proves `TypeOK`, `ApprovalGatesExecution` and
`AnswerIsCurrent` for any number of approvers, continuations, clients and
connections, under `ApprovalAssumption` (a request is not both a decision and a
continuation, there is a connection). `Gate` carries it: one request at a time
is between the lock and its release, one that is past the read has seen an
approval, and once a continuation has claimed the task it never is `created`
again, so no other continuation can claim it.

`CoordinatorProofs` proves every safety property and the refinement of
`CheckpointContract` for any number of calls, plans, replans and retries, under
`CoordinatorAssumption`, `NullAssumption` and `ViewAssumption` (the null values
are no plans, rows or views). The invariant relates each call's memory to the
row: a copy whose version is the row's holds the row and what the call
did since (`RowInv`), so a compare-and-swap that succeeds extends the row;
`TruthInv`, `StatusInv` and `BudgetInv` say of each copy, wherever the call is,
what `SnapshotIsTrue` and `BudgetKept` say of the row; `Ledger` ties the budget of
the row to what was asked. `RepeatNeedsFault` has an invariant of its own:
without a fault and without overlap at most one call is at work, and the
subtasks performed are those of its memory.

`AgentLoopProofs` proves `TypeOK` and `SettledUnlessHole` for any kind of task and
any budget, under `AgentLoopAssumption`. The invariant adds that a frame that went
through its handlers, not only a loop that is over, leaves a settled task: that
is what the outer calls rely on when an exception passes them. The exceptions to
it are the hypothesis of `SettledUnlessHole`, as the model reaches each of them:
`late`, `failing` and `outside`, where an exception escapes its handlers, and
`interrupted`.

`AttemptProofs` proves `NoStrayStep` and the refinement of `AttemptContract`, under
the same assumption. A loop that calls itself makes the invariant one about the
whole stack: each open call holds the row of its own number (`StackInv`,
`PlaceInv`), every caller knows the final status of its row and the innermost
call knows what its place says (`CallInv`), every row but the last has ended and
the next one is its retry within the budget or the next step (`ChainInv`), a row
nobody works on waits for the loop or for the coroutine that discards it
(`StrayInv`, `CoroutineInv`), and a task is written as completed or terminated
only after an attempt that ended (`TaskInv`). What a call knows is claimed only
until the loop is over: an interruption may leave the last row in any state
(`StopKeeps`), but no caller goes on after it. TLC checked the invariant on the
instance of `agent_loop` before it was proved. The refinement maps the contract's
attempt to the last row that was worked on (`LatestAttempt`); a row that was only
created is no attempt, which is why creating, planning and discarding the
speculated step are stutters.

Only model-checked: everything about liveness (`QuoteOrHuman`, `Settles`,
`Answered`, `LearnsDecision`, `RequestsEnd`, `CallEnds`, `LoopEnds`), which is
beyond the prover. All other properties of the passing runs are theorems. The
three expected violations are counterexamples, for which TLC is enough.

## 6. Findings

* `cancel_overwritten`: the launch of a task writes `running` over a cancel that
  committed after the running marker.
* `review_stranded`: a supplier quote posted directly while a review is pending
  completes the task; no action can resolve the review afterwards.
* `workflow_cancel_lost`: `terminate` cancels the native run, and the executor
  that starts or fails afterwards overwrites it. The instance itself stays
  terminated (`SettledStays`), and its steps stay frozen
  (`StoppedInstanceFrozen`).

Four behaviours are in the models without a run that expects a violation,
because no document promises the opposite:

* `fail_task` fails the step before it touches the task (`agent.py:1105`). After a
  completed step that statement raises, and the task stays `running` with nobody
  at work on it: the hole `late`, which `SettledUnlessHole` names.
* The last handler of `execute_step` is `except Exception` (`agent.py:1077`), which
  does not catch `CancelledError`. A coroutine that is canceled outside
  `agent_step` and the wait for the speculation leaves its task `running`, like a
  worker that dies: the hole `interrupted`.
* A planner that raises leaves a failed snapshot with an empty plan; the next
  call of `run` resumes it, finds nothing to do and reports `completed`
  (`coordinator.py:276`).
* The docstring at `agent.py:4062` says the pre-scraping of the next step is
  canceled when the goal is reached; the speculation is shielded
  (`agent.py:2308`) and only the row of its step is canceled.

## 7. Plan

Done: `TaskStatus`, `QuoteState`, `QuoteLifecycle`, `QuoteSubmission`,
`WorkflowInstance`, `Coordinator` and `AgentLoop` with their contracts and with
proofs of every safety property and refinement; `ApprovalUpdates` with proofs.

Left: a contract of `ApprovalUpdates`, whose two safety properties are stated
directly; the mode of the agent that runs one step per request.

### Not modelled

* Browser automation, the vendored web interface, CLI and generated clients:
  most of the repository by size. Their content is pages and prompts; the control
  around them that decides what becomes of a task is `AgentLoop`.
* The scripts, loops, branches and finally blocks of the native workflow engine:
  a procurement template compiles to a plain sequence of blocks.
* Risk level, approver routing, comparison and dashboard: pure functions of
  texts, rules and amounts, without state; a model would repeat their unit tests.
* Skills: a sequential pipeline whose failure strategies are those `Coordinator`
  models for subtasks. LLM access: retries around one call, without shared state
  but a cache whose entries are isolated by their key.
* Audit and notifications: append-only rows inside the modelled transactions, and
  best-effort deliveries after them; nothing reads their result.
* `create_approval_and_wait` and `wait_for_decision` of `pubsub.py`: only tests call
  them; the routes use `notifications.py`.
* Templates, encryption, tokens and roles: validation and cryptography.
