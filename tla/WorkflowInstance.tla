--------------------------- MODULE WorkflowInstance ---------------------------
(***************************************************************************)
(* The life of ONE native workflow instance: the idempotent instantiation, *)
(* the dispatch, recover and terminate endpoints of workflows/routes.py,   *)
(* the guards of workflows/runtime.py around every native block, and the   *)
(* native executor they are called from, with every request, crash, native *)
(* cancellation and credential change that may run beside them.            *)
(*                                                                         *)
(* The instance row is only written under its row lock, so a transaction   *)
(* is one action.  The routes take the lock with SKIP LOCKED and give up   *)
(* when it is held (LockBusy); the runtime waits for it.  A client that    *)
(* sends an old expected_version is refused and changes nothing, so only   *)
(* requests with the version of the moment are actions.                    *)
(*                                                                         *)
(* Operators whose name starts with Mut are deliberate mistakes used to    *)
(* show that a property notices them.                                      *)
(***************************************************************************)
EXTENDS Naturals, FiniteSets, TaskStatus

CONSTANTS
    Procs,        \* requests in flight; each may start one native executor
    N,            \* blocks of the compiled template
    MaxCrashes    \* bound: worker processes that die

ASSUME InstanceAssumption == N \in Nat \ {0} /\ MaxCrashes \in Nat

Blocks == 1 .. N

VARIABLES
    status,     \* procurement_workflow_instances.status, "absent" without a row
    version,    \* its version
    bound,      \* workflow_run_id has been stored in it
    steps,      \* state["steps"]: the status of every block
    plan,       \* state["plan"]["steps"]: the labels left to do
    run,        \* workflow_runs.status, "none" before prepare_workflow
    begun,      \* how often the browser worked on each block
    task,       \* status of the native task of each block, "none" without one
    evidence,   \* the block left artifacts and a result that validates
    credential, \* the stored credential still is the one that was bound
    launches,   \* native executors started
    pc,         \* where each request is
    seen,       \* the version each request read before it dispatches
    xpc,        \* where the native executor of each request is
    xat,        \* the block it is at
    crashes

row == <<status, version, bound, steps, plan>>
native == <<run, begun, task, evidence>>
requests == <<pc, seen>>
executors == <<xpc, xat>>
vars == <<row, native, credential, launches, requests, executors, crashes>>

Unsettled == {"preparing", "ready", "running"}
InstanceStatuses == Unsettled \cup {"absent", "completed", "needs_human", "terminated"}
RunStatuses == {"none", "created", "running", "completed", "failed", "canceled"}
StepStatuses == {"pending", "running", "completed", "needs_human"}
RequestPCs == {"idle", "insert", "prepare", "bind", "prepare_failed", "dispatch",
               "launch", "launch_failed"}
ExecutorPCs == {"off", "mark", "init", "remark", "check", "before", "browse", "browsing",
                "result", "after", "fail", "mark_failed", "refresh", "complete", "done"}

TypeOK ==
    /\ status \in InstanceStatuses
    /\ version \in Nat
    /\ bound \in BOOLEAN
    /\ steps \in [Blocks -> StepStatuses]
    /\ plan \in SUBSET Blocks
    /\ run \in RunStatuses
    /\ begun \in [Blocks -> Nat]
    /\ task \in [Blocks -> {"none", "running", "completed", "failed", "canceled"}]
    /\ evidence \in [Blocks -> BOOLEAN]
    /\ credential \in BOOLEAN
    /\ launches \in Nat
    /\ pc \in [Procs -> RequestPCs]
    /\ seen \in [Procs -> Nat]
    /\ xpc \in [Procs -> ExecutorPCs]
    /\ xat \in [Procs -> Blocks]
    /\ crashes \in Nat

Init ==
    /\ status = "absent"
    /\ version = 0
    /\ bound = FALSE
    /\ steps = [b \in Blocks |-> "pending"]
    /\ plan = Blocks
    /\ run = "none"
    /\ begun = [b \in Blocks |-> 0]
    /\ task = [b \in Blocks |-> "none"]
    /\ evidence = [b \in Blocks |-> FALSE]
    /\ credential = TRUE
    /\ launches = 0
    /\ pc = [p \in Procs |-> "idle"]
    /\ seen = [p \in Procs |-> 0]
    /\ xpc = [p \in Procs |-> "off"]
    /\ xat = [p \in Procs |-> 1]
    /\ crashes = 0

(***************************************************************************)
(* Helpers.                                                                *)
(***************************************************************************)

Goto(p, next) == pc' = [pc EXCEPT ![p] = next]

\* The request answers and forgets the version it read.
Return(p) ==
    /\ pc' = [pc EXCEPT ![p] = "idle"]
    /\ seen' = [seen EXCEPT ![p] = 0]

XGoto(p, next) == xpc' = [xpc EXCEPT ![p] = next]

SetStatus(s) == status' = s /\ version' = version + 1

MutHalt == SetStatus("needs_human")

MutHaltFailed == IF status \in Unsettled THEN SetStatus("failed") ELSE UNCHANGED <<status, version>>

\* The exception handlers: an ambiguous instance goes to a human, a settled
\* one keeps its status.
Halt ==
    IF status \notin {"completed", "terminated", "needs_human"}
    THEN SetStatus("needs_human")
    ELSE UNCHANGED <<status, version>>

(***************************************************************************)
(* instantiate_template.                                                   *)
(***************************************************************************)

\* The idempotency key is looked up first; a known key answers with its row.
Instantiate(p) ==
    /\ pc[p] = "idle"
    /\ status = "absent"
    /\ credential
    /\ Goto(p, "insert")
    /\ UNCHANGED <<row, native, credential, launches, seen, executors, crashes>>

\* The unique key hash decides between requests that both found nothing.
Insert(p) ==
    /\ pc[p] = "insert"
    /\ IF status = "absent"
       THEN SetStatus("preparing") /\ Goto(p, "prepare") /\ UNCHANGED seen
       ELSE Return(p) /\ UNCHANGED <<status, version>>
    /\ UNCHANGED <<bound, steps, plan, native, credential, launches, executors, crashes>>

\* create_workflow_from_request and prepare_workflow commit on their own.
Prepare(p) ==
    /\ pc[p] = "prepare"
    /\ run' = "created"
    /\ Goto(p, "bind")
    /\ UNCHANGED <<row, begun, task, evidence, credential, launches, seen, executors, crashes>>

PrepareRaises(p) ==
    /\ pc[p] = "prepare"
    /\ Goto(p, "prepare_failed")
    /\ UNCHANGED <<row, native, credential, launches, seen, executors, crashes>>

MutBind(p) ==
    /\ pc[p] = "bind"
    /\ bound' = TRUE
    /\ SetStatus("ready")
    /\ \E next \in {"dispatch", "prepare_failed"} : Goto(p, next)
    /\ seen' = [seen EXCEPT ![p] = version']
    /\ UNCHANGED <<steps, plan, native, credential, launches, executors, crashes>>

\* The run is stored and the instance is ready, unless somebody settled it
\* meanwhile.  A commit whose answer is lost counts as a failure.
Bind(p) ==
    /\ pc[p] = "bind"
    /\ IF status = "preparing"
       THEN /\ bound' = TRUE
            /\ SetStatus("ready")
            /\ \E next \in {"dispatch", "prepare_failed"} : Goto(p, next)
            /\ seen' = [seen EXCEPT ![p] = version']
       ELSE /\ Goto(p, "prepare_failed")
            /\ UNCHANGED <<status, version, bound, seen>>
    /\ UNCHANGED <<steps, plan, native, credential, launches, executors, crashes>>

PrepareFailed(p) ==
    /\ pc[p] = "prepare_failed"
    /\ Halt
    /\ Return(p)
    /\ UNCHANGED <<bound, steps, plan, native, credential, launches, executors, crashes>>

(***************************************************************************)
(* _dispatch.                                                              *)
(***************************************************************************)
MutMayDispatch(p) == credential

\* The version the caller saw is current, the instance is ready, and actor
\* and credential still check out.
MayDispatch(p) == version = seen[p] /\ status = "ready" /\ credential

\* The running status commits before the native executor is called; a run
\* that is not untouched is not started.
Dispatch(p) ==
    /\ pc[p] = "dispatch"
    /\ IF ~MayDispatch(p)
       THEN Return(p) /\ UNCHANGED <<status, version>>
       ELSE IF run = "created" /\ \A b \in Blocks : begun[b] = 0
       THEN SetStatus("running") /\ Goto(p, "launch") /\ UNCHANGED seen
       ELSE SetStatus("needs_human") /\ Return(p)
    /\ UNCHANGED <<bound, steps, plan, native, credential, launches, executors, crashes>>

\* execute_workflow hands the run to a background task of this worker.
Launch(p) ==
    /\ pc[p] = "launch"
    /\ xpc[p] = "off"
    /\ launches' = launches + 1
    /\ XGoto(p, "mark")
    /\ Return(p)
    /\ UNCHANGED <<row, native, credential, xat, crashes>>

LaunchRaises(p) ==
    /\ pc[p] = "launch"
    /\ Goto(p, "launch_failed")
    /\ UNCHANGED <<row, native, credential, launches, seen, executors, crashes>>

LaunchFailed(p) ==
    /\ pc[p] = "launch_failed"
    /\ Halt
    /\ Return(p)
    /\ UNCHANGED <<bound, steps, plan, native, credential, launches, executors, crashes>>

\* FOR UPDATE SKIP LOCKED found the row locked: 409, which is an exception
\* like any other for the code around it.
LockBusy(p) ==
    /\ \/ pc[p] = "bind" /\ Goto(p, "prepare_failed") /\ UNCHANGED seen
       \/ pc[p] \in {"prepare_failed", "dispatch", "launch_failed"} /\ Return(p)
    /\ UNCHANGED <<row, native, credential, launches, executors, crashes>>

(***************************************************************************)
(* recover_instance and terminate_instance.                                *)
(***************************************************************************)
MutRecover(p) ==
    /\ pc[p] = "idle"
    /\ \/ /\ status = "ready"
          /\ Goto(p, "dispatch")
          /\ seen' = [seen EXCEPT ![p] = version]
          /\ UNCHANGED <<status, version>>
       \/ /\ status = "running"
          /\ SetStatus("needs_human")
          /\ UNCHANGED requests
    /\ UNCHANGED <<bound, steps, plan, native, credential, launches, executors, crashes>>

\* Only a ready instance can be started; whoever else was under way may have
\* died, and a human decides.
Recover(p) ==
    /\ pc[p] = "idle"
    /\ \/ /\ status = "ready"
          /\ Goto(p, "dispatch")
          /\ seen' = [seen EXCEPT ![p] = version]
          /\ UNCHANGED <<status, version>>
       \/ /\ status \in {"preparing", "running"}
          /\ SetStatus("needs_human")
          /\ UNCHANGED requests
    /\ UNCHANGED <<bound, steps, plan, native, credential, launches, executors, crashes>>

\* The native run and its unfinished tasks are canceled with the instance.
Terminate ==
    /\ status \in {"preparing", "ready", "running", "needs_human"}
    /\ SetStatus("terminated")
    /\ run' = IF bound THEN "canceled" ELSE run
    /\ task' = [b \in Blocks |->
                   IF bound /\ task[b] = "running" THEN "canceled" ELSE task[b]]
    /\ UNCHANGED <<bound, steps, plan, begun, evidence, credential, launches,
                   requests, executors, crashes>>

(***************************************************************************)
(* The native executor, WorkflowService.execute_workflow, with the guards  *)
(* of workflows/runtime.py.                                                *)
(***************************************************************************)

\* mark_workflow_run_as_running, before and after the run context is set up,
\* without looking at the status it replaces.
MarkRunning(p) ==
    /\ \/ xpc[p] = "mark" /\ XGoto(p, "init")
       \/ xpc[p] = "remark" /\ XGoto(p, "check")
    /\ run' = "running"
    /\ UNCHANGED <<row, begun, task, evidence, credential, launches, requests, xat, crashes>>

\* initialize_workflow_run_context calls check_credential_binding, and may
\* raise for reasons of its own.
InitContext(p) ==
    /\ xpc[p] = "init"
    /\ \/ status = "running" /\ credential /\ XGoto(p, "remark")
       \/ XGoto(p, "fail")
    /\ UNCHANGED <<row, native, credential, launches, requests, xat, crashes>>

\* A canceled run is left alone: no block starts, nothing is failed.
CheckCanceled(p) ==
    /\ xpc[p] = "check"
    /\ XGoto(p, IF run = "canceled" THEN "refresh" ELSE "before")
    /\ UNCHANGED <<row, native, credential, launches, requests, xat, crashes>>

Remaining == {b \in Blocks : steps[b] # "completed"}

MutMayBegin(b) ==
    /\ credential
    /\ plan = Remaining
    /\ b \in Remaining /\ \A c \in Remaining : b <= c
    /\ steps[b] = "pending"

\* The instance runs, the plan is what is left, and b is the first of it.
MayBegin(b) ==
    /\ credential
    /\ plan = Remaining
    /\ status = "running"
    /\ b \in Remaining /\ \A c \in Remaining : b <= c
    /\ steps[b] = "pending"

BeforeBlock(p) ==
    /\ xpc[p] = "before"
    /\ IF MayBegin(xat[p])
       THEN /\ steps' = [steps EXCEPT ![xat[p]] = "running"]
            /\ version' = version + 1
            /\ XGoto(p, "browse")
       ELSE XGoto(p, "fail") /\ UNCHANGED <<steps, version>>
    /\ UNCHANGED <<status, bound, plan, native, credential, launches, requests, xat, crashes>>

\* The block row and its task are created and the agent goes to work.
Browse(p) ==
    /\ xpc[p] = "browse"
    /\ begun' = [begun EXCEPT ![xat[p]] = @ + 1]
    /\ task' = [task EXCEPT ![xat[p]] = "running"]
    /\ XGoto(p, "browsing")
    /\ UNCHANGED <<row, run, evidence, credential, launches, requests, xat, crashes>>

\* The agent finishes the task.  It notices a canceled run or task, but a
\* task may also be completed after it was canceled (TaskStatus).
BrowseEnds(p, end, valid) ==
    /\ xpc[p] = "browsing"
    /\ \/ end = task[xat[p]]
       \/ end = "canceled" /\ run = "canceled"
       \/ end # "canceled" /\ CanUpdateTo(task[xat[p]], end)
    /\ end # "running"
    /\ valid => end = "completed"
    /\ task' = [task EXCEPT ![xat[p]] = end]
    /\ evidence' = [evidence EXCEPT ![xat[p]] = valid]
    /\ XGoto(p, "result")
    /\ UNCHANGED <<row, run, begun, credential, launches, requests, xat, crashes>>

MutBlockRaises(p) ==
    /\ xpc[p] = "browsing"
    /\ XGoto(p, "browse")
    /\ UNCHANGED <<row, native, credential, launches, requests, xat, crashes>>

\* Anything in _execute_single_block may raise: a read, the parameters, the
\* browser, the agent.  An unfinished task is marked failed; max_retries is 0.
BlockRaises(p) ==
    /\ xpc[p] \in {"check", "before", "browse", "browsing", "result", "after"}
    /\ task' = [task EXCEPT ![xat[p]] = IF @ = "running" THEN "failed" ELSE @]
    /\ XGoto(p, "fail")
    /\ UNCHANGED <<row, run, begun, evidence, credential, launches, requests, xat, crashes>>

\* _handle_block_result_status: a block that did not complete decides the
\* status of the run.
HandleResult(p) ==
    /\ xpc[p] = "result"
    /\ run' = IF task[xat[p]] = "completed" THEN run ELSE task[xat[p]]
    /\ XGoto(p, "after")
    /\ UNCHANGED <<row, begun, task, evidence, credential, launches, requests, xat, crashes>>

MutMayFinish(b) == steps[b] = "running"

MayFinish(b) == status = "running" /\ steps[b] = "running"

MutProven(b) == task[b] = "completed"

\* Task, block and result are completed, artifacts exist, and the extracted
\* table or the downloaded file checks out.
Proven(b) == task[b] = "completed" /\ evidence[b]

\* after_native_block.  Whatever follows it may still raise.
AfterBlock(p) ==
    LET b == xat[p] IN
    /\ xpc[p] = "after"
    /\ IF MayFinish(b) /\ Proven(b)
       THEN /\ steps' = [steps EXCEPT ![b] = "completed"]
            /\ plan' = Remaining \ {b}
            /\ SetStatus(IF Remaining = {b} THEN "completed" ELSE "running")
            /\ \/ b < N /\ xat' = [xat EXCEPT ![p] = b + 1] /\ XGoto(p, "check")
               \/ b = N /\ UNCHANGED xat /\ XGoto(p, "refresh")
               \/ UNCHANGED xat /\ XGoto(p, "fail")
       ELSE /\ IF MayFinish(b)
               THEN steps' = [steps EXCEPT ![b] = "needs_human"] /\ SetStatus("needs_human")
               ELSE UNCHANGED <<steps, status, version>>
            /\ XGoto(p, "fail")
            /\ UNCHANGED <<plan, xat>>
    /\ UNCHANGED <<bound, native, credential, launches, requests, crashes>>

FailNative(p) ==
    /\ xpc[p] = "fail"
    /\ Halt
    /\ XGoto(p, "mark_failed")
    /\ UNCHANGED <<bound, steps, plan, native, credential, launches, requests, xat, crashes>>

MarkFailed(p) ==
    /\ xpc[p] = "mark_failed"
    /\ run' = "failed"
    /\ XGoto(p, "refresh")
    /\ UNCHANGED <<row, begun, task, evidence, credential, launches, requests, xat, crashes>>

MutRefresh(p) ==
    /\ xpc[p] = "refresh"
    /\ XGoto(p, IF run = "canceled" THEN "done" ELSE "complete")
    /\ UNCHANGED <<row, native, credential, launches, requests, xat, crashes>>

\* The run is read again and completed unless it was stopped.
Refresh(p) ==
    /\ xpc[p] = "refresh"
    /\ XGoto(p, IF run \in {"canceled", "failed"} THEN "done" ELSE "complete")
    /\ UNCHANGED <<row, native, credential, launches, requests, xat, crashes>>

MarkCompleted(p) ==
    /\ xpc[p] = "complete"
    /\ run' = "completed"
    /\ XGoto(p, "done")
    /\ UNCHANGED <<row, begun, task, evidence, credential, launches, requests, xat, crashes>>

(***************************************************************************)
(* The environment.                                                        *)
(***************************************************************************)

\* The native endpoint cancels a run whatever its status.
NativeCancel ==
    /\ run \notin {"none", "canceled"}
    /\ run' = "canceled"
    /\ UNCHANGED <<row, begun, task, evidence, credential, launches, requests,
                   executors, crashes>>

\* The credential is deleted or rotated, or the actor loses the permission.
Revoke ==
    /\ credential
    /\ credential' = FALSE
    /\ UNCHANGED <<row, native, launches, requests, executors, crashes>>

\* A worker dies with the request, or with the executor, it was serving.
Crash(p) ==
    /\ crashes < MaxCrashes
    /\ crashes' = crashes + 1
    /\ \/ pc[p] # "idle" /\ Return(p) /\ UNCHANGED executors
       \/ xpc[p] \notin {"off", "done"} /\ XGoto(p, "done") /\ UNCHANGED <<requests, xat>>
    /\ UNCHANGED <<row, native, credential, launches>>

(***************************************************************************)
(* The specification.                                                      *)
(***************************************************************************)

Request(p) ==
    \/ Insert(p)
    \/ Prepare(p)
    \/ PrepareRaises(p)
    \/ Bind(p)
    \/ PrepareFailed(p)
    \/ Dispatch(p)
    \/ Launch(p)
    \/ LaunchRaises(p)
    \/ LaunchFailed(p)
    \/ LockBusy(p)

Ends == {"completed", "failed", "canceled"}

Executor(p) ==
    \/ MarkRunning(p)
    \/ InitContext(p)
    \/ CheckCanceled(p)
    \/ BeforeBlock(p)
    \/ Browse(p)
    \/ \E end \in Ends, valid \in BOOLEAN : BrowseEnds(p, end, valid)
    \/ BlockRaises(p)
    \/ HandleResult(p)
    \/ AfterBlock(p)
    \/ FailNative(p)
    \/ MarkFailed(p)
    \/ Refresh(p)
    \/ MarkCompleted(p)

Next ==
    \/ \E p \in Procs : Instantiate(p) \/ Request(p) \/ Recover(p) \/ Executor(p) \/ Crash(p)
    \/ Terminate
    \/ NativeCancel
    \/ Revoke

Spec == Init /\ [][Next]_vars

\* Requests are answered, the row lock is not held at every try, and the
\* client of an unsettled instance asks to recover it.  Nothing is assumed of
\* the native executor, which may stop anywhere.
Fairness ==
    /\ \A p \in Procs : WF_vars(Request(p)) /\ SF_vars(Dispatch(p))
    /\ WF_vars(\E p \in Procs : Recover(p))

FairSpec == Spec /\ Fairness

(***************************************************************************)
(* Properties.                                                             *)
(***************************************************************************)

\* Retried instantiations, recoveries and lost answers never start a second
\* native executor for the run.
OneExecutor == launches <= 1

\* The browser works on a block at most once, only after the block was marked
\* running, and only when every block before it is done with its evidence.
BlocksInOrder ==
    \A b \in Blocks : begun[b] > 0 =>
        /\ begun[b] = 1
        /\ steps[b] # "pending"
        /\ \A c \in 1 .. (b - 1) : steps[c] = "completed" /\ evidence[c]

\* Once an instance went to a human or was terminated, the executor that may
\* still be at work moves none of its steps and none of its plan.
StoppedInstanceFrozen ==
    [][status # "running" => UNCHANGED <<steps, plan>>]_<<steps, plan>>

\* An instance is completed only with the evidence of every block.
CompletedIsProven ==
    status = "completed" =>
        \A b \in Blocks : task[b] = "completed" /\ evidence[b] /\ begun[b] = 1

\* The native engine never reports success for an instance that a human has
\* to look at, that was terminated, or that is unfinished.
NativeSuccessIsShared == run = "completed" => status = "completed"

\* DECISIONS.md: a late failure of the preparation or the dispatch does not
\* overwrite a settled status, and a human only ever gets it terminated.
SettledStays ==
    [][/\ status \in {"completed", "terminated"} => UNCHANGED <<status, version>>
       /\ status = "needs_human" => status' \in {"needs_human", "terminated"}]_<<status, version>>

\* As long as its client comes back, an instance leaves preparing, ready and
\* running even if the native executor stops silently.  Only a ready instance
\* whose credential was revoked waits, until somebody terminates it.
Settles ==
    status # "absent" ~>
        \/ status \in {"completed", "needs_human", "terminated"}
        \/ status = "ready" /\ ~credential

\* What DECISIONS.md says of terminate: it cancels the native run, and what
\* comes later does not overwrite that.  The executor does (see the findings).
TerminatedRunIsCanceled == status = "terminated" /\ bound => run = "canceled"

Phase ==
    CASE status = "absent"                 -> "none"
      [] status \in {"preparing", "ready"} -> "open"
      [] status = "running"                -> "working"
      [] status = "needs_human"            -> "human"
      [] OTHER                             -> status

Contract == INSTANCE WorkflowContract WITH
    phase <- Phase,
    begun <- Cardinality({b \in Blocks : steps[b] # "pending"}),
    done  <- Cardinality({b \in Blocks : steps[b] = "completed"})

\* Requests, guards and executor together behave like WorkflowContract.tla.
ImplementsContract == Contract!Spec

===============================================================================
