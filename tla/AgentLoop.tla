------------------------------- MODULE AgentLoop -------------------------------
(***************************************************************************)
(* ForgeAgent.execute_step (skyvern/forge/agent.py): the loop that works   *)
(* off ONE native task step by step, retries failed steps, verifies the    *)
(* goal beside the speculation about the next step, and settles the task.  *)
(*                                                                         *)
(* execute_step calls itself for every further step, inside its own try    *)
(* block: an exception that leaves an inner call is caught by the handlers *)
(* of the call around it, which hold an older step.  The stack of calls is *)
(* part of the state.  Beside the loop run the speculation, the coroutine  *)
(* that discards its plan, the cancel endpoint and the workflow run that   *)
(* is canceled or times out.  Each database statement that others can see  *)
(* is one action; browser and model calls answer or raise, the coroutine   *)
(* may be canceled and the worker may die at every place.                  *)
(*                                                                         *)
(* Left out: the content of a plan (a step with a speculative plan has the *)
(* same outcomes), is_last, artifacts, webhooks, one step at a time mode.  *)
(*                                                                         *)
(* Operators whose name starts with Mut are deliberate mistakes used to    *)
(* show that a property notices them.                                      *)
(***************************************************************************)
EXTENDS Naturals, SequencesExt, TaskStatus

CONSTANTS
    MaxSteps,     \* max_steps_per_run
    MaxRetries,   \* max_retries_per_step
    Modes         \* the kinds of task that are run

AllModes == {"goto",       \* neither a goal nor a criterion: open the page
             "plain",      \* the user goal check is disabled
             "verified",   \* it runs beside the next step's speculation
             "action",     \* an ActionBlock
             "download"}   \* complete_on_download

ASSUME AgentLoopAssumption ==
    /\ MaxSteps \in Nat \ {0}
    /\ MaxRetries \in Nat
    /\ Modes \subseteq AllModes

VARIABLES
    mode,         \* the kind of this task
    task,         \* tasks.status
    steps,        \* the rows of steps, in the order of their creation
    run,          \* the status of the workflow run around the task
    frames,       \* the calls of execute_step that are open
    pc,           \* where the innermost one is
    outcome,      \* what its step ended with
    want,         \* the status update_task is to write
    speculation,  \* _speculate_next_step_plan: "none", "working", "plan", "nothing"
    discarding,   \* a coroutine waits to discard the plan and cancel its step
    canceler,     \* the cancel endpoint: "idle", "read", "done"
    holes         \* where an exception fell through the handlers

loop == <<frames, pc, outcome, want>>
vars == <<mode, task, steps, run, loop, speculation, discarding, canceler, holes>>

StepStatuses == {"created", "running", "failed", "completed", "canceled"}
Final == {"completed", "failed", "terminated", "canceled", "timed_out"}
Outcomes == {"none", "goal", "terminated", "progress", "failed"}
Phases == {"outside", "inside", "failing", "handled"}
PCs == {"enter", "refresh", "prepare", "act", "acting", "acted", "judge", "launch",
        "verify", "conclude", "await", "exhausted", "read", "write", "cleanup", "over"}
Holes == {"late",         \* after the step was completed
          "failing",      \* inside fail_task
          "outside",      \* before the try block of the outermost call
          "nested",       \* before the try block of an inner call
          "background",   \* while the discarded step is canceled
          "interrupted"}  \* no exception: canceled, or dead with its worker

Row(order, retry) == [order |-> order, retry |-> retry, status |-> "created"]

\* A call of execute_step: its step, the status of the step object in its
\* hands, and where it is with respect to its try block and its handlers.
Frame(i) == [step |-> i, known |-> "created", phase |-> "outside"]

Top == Last(frames)
Current == steps[Top.step]
NextRow == Len(steps)

TypeOK ==
    /\ mode \in Modes
    /\ task \in Statuses
    /\ steps \in Seq([order : Nat, retry : Nat, status : StepStatuses])
    /\ run \in {"running", "canceled", "timed_out"}
    /\ frames \in Seq([step : Nat, known : StepStatuses, phase : Phases])
    /\ frames # <<>>
    /\ \A i \in DOMAIN frames : frames[i].step \in DOMAIN steps
    /\ pc \in PCs
    /\ outcome \in Outcomes
    /\ want \in Statuses
    /\ speculation \in {"none", "working", "plan", "nothing"}
    /\ discarding \in BOOLEAN
    /\ canceler \in {"idle", "read", "done"}
    /\ holes \subseteq Holes

\* The launch has created the first step and marked the task running.
Init ==
    /\ mode \in Modes
    /\ task = "running"
    /\ steps = <<Row(0, 0)>>
    /\ run = "running"
    /\ frames = <<Frame(1)>>
    /\ pc = "enter"
    /\ outcome = "none"
    /\ want = "running"
    /\ speculation = "none"
    /\ discarding = FALSE
    /\ canceler = "idle"
    /\ holes = {}

(***************************************************************************)
(* Helpers.                                                                *)
(***************************************************************************)

others == <<mode, run, canceler>>
aside == <<speculation, discarding>>

\* The innermost call goes on in phase ph, holding its step with status s.
InTop(s, ph) ==
    frames' = [frames EXCEPT ![Len(frames)].known = s, ![Len(frames)].phase = ph]

SetRow(i, s) == steps' = [steps EXCEPT ![i].status = s]

\* update_step with a status, and the object it returns.
MarkStep(s, ph) == SetRow(Top.step, s) /\ InTop(s, ph)

\* update_task(status = s), the next thing the call does.
Settle(s) == pc' = "read" /\ want' = s

\* execute_step calls itself for row i.
Recurse(i) ==
    /\ frames' = Append(frames, Frame(i))
    /\ pc' = "enter"
    /\ outcome' = "none"
    /\ UNCHANGED want

(***************************************************************************)
(* Before the step.                                                        *)
(***************************************************************************)

\* A workflow run that ended takes the task with it.
Enter ==
    /\ pc = "enter"
    /\ IF run = "running"
       THEN pc' = "refresh" /\ UNCHANGED <<steps, frames, want>>
       ELSE MarkStep("canceled", "outside") /\ Settle(run)
    /\ UNCHANGED <<task, outcome, others, aside, holes>>

\* So does a cancel of the task; otherwise the task runs and
\* validate_step_execution has no objection.
Refresh ==
    /\ pc = "refresh"
    /\ task \in {"canceled", "running"}
    /\ IF task = "canceled"
       THEN MarkStep("canceled", "outside") /\ pc' = "cleanup"
       ELSE InTop("created", "inside") /\ pc' = "prepare" /\ UNCHANGED steps
    /\ UNCHANGED <<task, outcome, want, others, aside, holes>>

\* The browser is there.  Without any goal, opening the page was the task.
Prepare ==
    /\ pc = "prepare"
    /\ IF mode = "goto"
       THEN MarkStep("completed", "inside") /\ Settle("completed")
       ELSE pc' = "act" /\ UNCHANGED <<steps, frames, want>>
    /\ UNCHANGED <<task, outcome, others, aside, holes>>

(***************************************************************************)
(* agent_step.                                                             *)
(***************************************************************************)

Act ==
    /\ pc = "act"
    /\ SetRow(Top.step, "running")
    /\ pc' = "acting"
    /\ UNCHANGED <<task, frames, outcome, want, others, aside, holes>>

\* Its actions succeeded, or one of them or an exception made the step fail.
Acted ==
    /\ pc = "acting"
    /\ pc' = "acted"
    /\ \/ MarkStep("completed", "inside") /\ outcome' \in {"goal", "terminated", "progress"}
       \/ MarkStep("failed", "inside") /\ outcome' = "failed"
    /\ UNCHANGED <<task, want, others, aside, holes>>

\* A downloaded file completes a download task, even if the step failed.
Download ==
    /\ pc = "acted"
    /\ \/ mode = "download" /\ Settle("completed")
       \/ pc' = "judge" /\ UNCHANGED want
    /\ UNCHANGED <<task, steps, frames, outcome, others, aside, holes>>

(***************************************************************************)
(* handle_failed_step and handle_completed_step.                           *)
(***************************************************************************)

RetryOf(row) == Row(row.order, row.retry + 1)

NextOf(row) == Row(row.order + 1, 0)

MutOutOfSteps(row) == row.order >= MaxSteps

OutOfSteps(row) == row.order + 1 >= MaxSteps

MutHandleFailed ==
    /\ pc = "judge" /\ outcome = "failed"
    /\ IF Current.retry < MaxRetries
       THEN steps' = Append(steps, RetryOf(Current)) /\ Recurse(NextRow + 1)
       ELSE pc' = "cleanup" /\ UNCHANGED <<steps, frames, outcome, want>>
    /\ UNCHANGED <<task, others, aside, holes>>

MutRetryInPlace ==
    /\ pc = "judge" /\ outcome = "failed"
    /\ IF Current.retry < MaxRetries
       THEN pc' = "enter" /\ InTop("created", "outside") /\ UNCHANGED <<steps, outcome, want>>
       ELSE Settle("failed") /\ UNCHANGED <<steps, frames, outcome>>
    /\ UNCHANGED <<task, others, aside, holes>>

HandleFailed ==
    /\ pc = "judge" /\ outcome = "failed"
    /\ IF Current.retry < MaxRetries
       THEN steps' = Append(steps, RetryOf(Current)) /\ Recurse(NextRow + 1)
       ELSE Settle("failed") /\ UNCHANGED <<steps, frames, outcome>>
    /\ UNCHANGED <<task, others, aside, holes>>

\* The agent itself says that the goal is reached or cannot be reached, or an
\* action block did its one step.
Decided ==
    /\ pc = "judge"
    /\ \/ outcome = "goal" /\ Settle("completed")
       \/ outcome = "terminated" /\ Settle("terminated")
       \/ outcome = "progress" /\ mode = "action" /\ Settle("completed")
    /\ UNCHANGED <<task, steps, frames, outcome, others, aside, holes>>

\* It is not done.
Continue ==
    /\ pc = "judge" /\ outcome = "progress" /\ mode \notin {"verified", "action"}
    /\ IF OutOfSteps(Current)
       THEN Settle("failed") /\ UNCHANGED <<steps, frames, outcome>>
       ELSE steps' = Append(steps, NextOf(Current)) /\ Recurse(NextRow + 1)
    /\ UNCHANGED <<task, others, aside, holes>>

(***************************************************************************)
(* _handle_completed_step_with_parallel_verification.                      *)
(***************************************************************************)

\* The next step exists before anybody knows whether it is needed.
Verify ==
    /\ pc = "judge" /\ outcome = "progress" /\ mode = "verified"
    /\ steps' = Append(steps, NextOf(Current))
    /\ pc' = "launch"
    /\ UNCHANGED <<task, frames, outcome, want, others, aside, holes>>

\* One second later the speculation starts.
Launch ==
    /\ pc = "launch"
    /\ speculation' = "working"
    /\ pc' = "verify"
    /\ UNCHANGED <<task, steps, frames, outcome, want, others, discarding, holes>>

\* It ends with a plan, or with nothing: it failed, or the step was routed for
\* a procurement task.
Speculate ==
    /\ speculation = "working"
    /\ speculation' \in {"plan", "nothing"}
    /\ UNCHANGED <<task, steps, loop, others, discarding, holes>>

\* The goal is reached, or cannot be.
Verified ==
    /\ pc = "verify"
    /\ outcome' \in {"goal", "terminated"}
    /\ discarding' = TRUE
    /\ pc' = "conclude"
    /\ UNCHANGED <<task, steps, frames, want, others, speculation, holes>>

Conclude ==
    /\ pc = "conclude"
    /\ MarkStep("completed", "inside")
    /\ Settle(IF outcome = "goal" THEN "completed" ELSE "terminated")
    /\ UNCHANGED <<task, outcome, others, aside, holes>>

\* It is not, or the verification raised.
NotVerified ==
    /\ pc = "verify"
    /\ pc' = "await"
    /\ UNCHANGED <<task, steps, frames, outcome, want, others, aside, holes>>

TakePlan ==
    /\ pc = "await"
    /\ speculation \in {"plan", "nothing"}
    /\ IF OutOfSteps(Current)
       THEN pc' = "exhausted" /\ UNCHANGED <<frames, outcome, want, speculation>>
       ELSE Recurse(NextRow) /\ speculation' = "none"
    /\ UNCHANGED <<task, steps, others, discarding, holes>>

\* _cancel_speculative_step swallows its exceptions.
CancelNext ==
    \/ SetRow(NextRow, "canceled") /\ UNCHANGED holes
    \/ holes' = holes \cup {"background"} /\ UNCHANGED steps

Exhaust ==
    /\ pc = "exhausted"
    /\ CancelNext
    /\ Settle("failed")
    /\ UNCHANGED <<task, frames, outcome, others, aside>>

MutDiscard ==
    /\ discarding
    /\ speculation # "working"
    /\ discarding' = FALSE
    /\ UNCHANGED <<task, steps, loop, others, speculation, holes>>

\* _persist_speculative_metadata_for_discarded_plan, whenever the speculation
\* is over; an exception while it persists skips the cancel.
Discard ==
    /\ discarding
    /\ speculation # "working"
    /\ CancelNext
    /\ discarding' = FALSE
    /\ UNCHANGED <<task, loop, others, speculation>>

(***************************************************************************)
(* Exceptions.                                                             *)
(***************************************************************************)

\* The call whose frame is the last of fs enters its handlers.
Handling(fs, ph) == frames' = [fs EXCEPT ![Len(fs)].phase = ph]

\* TaskAlreadyCanceled, TaskAlreadyTimeout, InvalidTaskStatusTransition: the
\* task is settled, clean up.
CatchSettled(fs) ==
    /\ Handling(fs, "handled")
    /\ pc' = "cleanup"
    /\ UNCHANGED <<steps, want, holes>>

\* Any other Exception calls fail_task, whose first statement fails the step.
\* A step that is completed cannot fail, and the statement itself may raise:
\* that exception is swallowed, and fail_task reports success without having
\* touched the task.
CatchError(fs, more) ==
    LET f == Last(fs)
        settled == f.known \in {"completed", "canceled"}
    IN  \/ /\ Handling(fs, "handled")
           /\ pc' = "cleanup"
           /\ holes' = holes \cup more \cup {IF settled THEN "late" ELSE "failing"}
           /\ UNCHANGED <<steps, want>>
        \/ /\ ~settled
           /\ SetRow(f.step, "failed")
           /\ Handling(fs, "failing")
           /\ Settle("failed")
           /\ holes' = holes \cup more

\* An exception outside the try block, or in a handler, leaves the call; the
\* outermost call has nobody around it.
Catchers == IF Top.phase = "inside" THEN frames ELSE Front(frames)

\* A statement of the innermost call raises an Exception.
Fault ==
    /\ pc # "over" /\ Top.phase # "failing"
    /\ \/ Catchers # <<>> /\ CatchError(Catchers, IF Top.phase = "outside" THEN {"nested"} ELSE {})
       \/ /\ Catchers = <<>>
          /\ pc' = "over"
          /\ holes' = IF Top.phase = "outside" THEN holes \cup {"outside"} ELSE holes
          /\ UNCHANGED <<steps, frames, want>>
    /\ UNCHANGED <<task, outcome, others, aside>>

\* fail_task swallows its own exceptions, and the call cleans up.
FailTaskRaises ==
    /\ Top.phase = "failing" /\ pc \in {"read", "write"}
    /\ Handling(frames, "handled")
    /\ pc' = "cleanup"
    /\ holes' = holes \cup {"failing"}
    /\ UNCHANGED <<task, steps, outcome, want, others, aside>>

\* The loop stops where it is.
Stop ==
    /\ pc' = "over"
    /\ UNCHANGED <<task, steps, frames, outcome, want, others>>

\* The coroutine is canceled.  CancelledError is no Exception: agent_step makes
\* it a failed step (Acted) and the wait for the speculation swallows it, but
\* no handler of execute_step or fail_task catches it, so it leaves all calls.
\* In the cleanup nothing is left to be lost.
Interrupted ==
    /\ pc \notin {"cleanup", "over"}
    /\ Stop
    /\ holes' = holes \cup {"interrupted"}
    /\ UNCHANGED aside

\* The worker dies, and the coroutines beside the loop with it.
WorkerDies ==
    /\ pc # "over" \/ discarding
    /\ Stop
    /\ holes' = holes \cup (IF pc \in {"cleanup", "over"} THEN {} ELSE {"interrupted"})
                     \cup (IF discarding THEN {"background"} ELSE {})
    /\ discarding' = FALSE
    /\ speculation' = "none"

(***************************************************************************)
(* update_task: the status is read, validated, and written.                *)
(***************************************************************************)

ReadTask ==
    /\ pc = "read" /\ CanUpdateTo(task, want)
    /\ pc' = "write"
    /\ UNCHANGED <<task, steps, frames, outcome, want, others, aside, holes>>

\* It is settled already.  fail_task reports that, and most of its callers then
\* leave out the cleanup.
Refused ==
    /\ pc = "read" /\ ~CanUpdateTo(task, want)
    /\ \/ /\ Top.phase = "failing"
          /\ pc' \in {"cleanup", "over"}
          /\ Handling(frames, "handled")
          /\ UNCHANGED <<steps, want, holes>>
       \/ Top.phase # "failing" /\ Catchers # <<>> /\ CatchSettled(Catchers)
       \/ /\ Top.phase # "failing" /\ Catchers = <<>>
          /\ pc' = "over"
          /\ UNCHANGED <<steps, frames, want, holes>>
    /\ UNCHANGED <<task, outcome, others, aside>>

\* Only the workflow run's end is followed by no cleanup.
WriteTask ==
    /\ pc = "write"
    /\ task' = want
    /\ pc' = IF Top.phase = "outside" THEN "over" ELSE "cleanup"
    /\ frames' = IF Top.phase = "failing"
                 THEN [frames EXCEPT ![Len(frames)].phase = "handled"] ELSE frames
    /\ UNCHANGED <<steps, outcome, want, others, aside, holes>>

\* clean_up_task; then every open call returns.  (So it does when the webhook
\* cannot be sent.)
CleanUp ==
    /\ pc = "cleanup"
    /\ pc' = "over"
    /\ UNCHANGED <<task, steps, frames, outcome, want, others, aside, holes>>

(***************************************************************************)
(* The cancel endpoint goes through update_task too, once.                 *)
(***************************************************************************)

CancelRead ==
    /\ canceler = "idle"
    /\ canceler' = IF CanUpdateTo(task, "canceled") THEN "read" ELSE "done"
    /\ UNCHANGED <<mode, task, steps, run, loop, aside, holes>>

CancelWrite ==
    /\ canceler = "read"
    /\ canceler' = "done"
    /\ task' = "canceled"
    /\ UNCHANGED <<mode, steps, run, loop, aside, holes>>

RunEnds ==
    /\ run = "running"
    /\ run' \in {"canceled", "timed_out"}
    /\ UNCHANGED <<mode, task, steps, loop, aside, canceler, holes>>

Progress ==
    \/ Enter \/ Refresh \/ Prepare \/ Act \/ Acted \/ Download
    \/ HandleFailed \/ Decided \/ Continue
    \/ Verify \/ Launch \/ Verified \/ Conclude \/ NotVerified \/ TakePlan \/ Exhaust
    \/ ReadTask \/ Refused \/ WriteTask \/ CleanUp

Next ==
    \/ Progress
    \/ Fault \/ FailTaskRaises \/ Interrupted \/ WorkerDies
    \/ Speculate \/ Discard
    \/ CancelRead \/ CancelWrite \/ RunEnds

Spec == Init /\ [][Next]_vars

\* Whatever the loop or the speculation awaits answers or raises.
FairSpec == Spec /\ WF_vars(Progress) /\ WF_vars(Speculate)

(***************************************************************************)
(* Properties.                                                             *)
(***************************************************************************)

Over == pc = "over" /\ ~discarding

\* A loop that is over has settled its task, whatever was raised or raced,
\* unless an exception struck after the step was completed, inside fail_task or
\* outside every try block, or the loop was interrupted before it came to the
\* cleanup: by CancelledError, which no handler catches, or with its worker.
SettledUnlessHole ==
    pc = "over" /\ holes \cap {"late", "failing", "outside", "interrupted"} = {} => task \in Final

\* Nor does an orderly loop leave a step open: the step created beside the
\* verification was worked on or canceled, by the loop or by the coroutine it
\* left behind.
NoStrayStep ==
    Over /\ holes = {} => \A i \in DOMAIN steps : steps[i].status \notin {"created", "running"}

\* The loop ends, through retries, nested calls, verification and handlers.
LoopEnds == <>(pc = "over")

Attempts == {i \in DOMAIN steps : steps[i].status \notin {"created", "canceled"}}

LatestAttempt ==
    IF Attempts = {} THEN [order |-> 0, retry |-> 0, result |-> "none"]
    ELSE LET row == steps[CHOOSE i \in Attempts : \A j \in Attempts : j <= i]
         IN  [order |-> row.order, retry |-> row.retry, result |-> row.status]

Contract == INSTANCE AttemptContract WITH attempt <- LatestAttempt

\* The steps that are worked on are a legal sequence of attempts within the
\* budgets, and none begins after the task was settled by the loop.
ImplementsAttempts == Contract!Spec

===============================================================================
