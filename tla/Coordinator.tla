------------------------------ MODULE Coordinator ------------------------------
(***************************************************************************)
(* AgentCoordinator.run (enterprise/agent/coordinator.py) for ONE task:    *)
(* every call of run, retried or concurrent, of the owning or of another   *)
(* organization, with the executor's attempts, the planner's answers, the  *)
(* versioned snapshot row and the human review it may leave.               *)
(*                                                                         *)
(* A call keeps the snapshot it loaded in memory and writes it back with a *)
(* compare-and-set on the version; each database transaction, each call of *)
(* the action handler and each call of the planner is one action.  A call  *)
(* may die between any two of them: the worker is killed, or persistence   *)
(* raises, before or after the commit took effect.  The model is of a      *)
(* coordinator with a session factory; without one nothing is durable.     *)
(*                                                                         *)
(* Operators whose name starts with Mut are deliberate mistakes used to    *)
(* show that a property notices them.                                      *)
(***************************************************************************)
EXTENDS Naturals, Sequences

CONSTANTS
    Calls,        \* the calls of run for the task, each made once
    Org,          \* the organization each call is made for
    Shapes,       \* the plans a planner makes: sequences of failure strategies
    MaxReplans,   \* max_replans
    MaxRetries,   \* max_retries of a subtask
    NoRow,        \* the task has no snapshot row
    NoPlan        \* no plan was made yet

Strategies == {"retry", "skip", "abort", "replan"}

ASSUME CoordinatorAssumption ==
    /\ Shapes \subseteq Seq(Strategies)
    /\ MaxReplans \in Nat
    /\ MaxRetries \in Nat

VARIABLES
    row,         \* the procurement_coordination_states row, or NoRow
    review,      \* the human review of the task: "none", "pending", "resolved"
    pc,          \* where each call is
    after,       \* where it goes on once its snapshot is saved
    mine,        \* the snapshot it has in memory
    tries,       \* failed attempts at the current subtask
    answer,      \* the status it returned, "nothing" before
    performed,   \* subtasks the action handler reported done
    skipped,     \* subtasks given up with the strategy skip
    repeated,    \* a subtask was reported done twice
    overlapped,  \* a call was made while another one was at work
    asked        \* how often the planner was asked to replan

database == <<row, review>>
memory == <<pc, after, mine, tries, answer>>
history == <<performed, skipped, repeated, overlapped, asked>>
vars == <<database, memory, history>>

Statuses == {"running", "completed", "failed", "needs_human"}
PCs == {"start", "recheck", "plan", "save", "loop", "execute", "succeeded", "failed",
        "replan", "review", "insert_review", "returned", "refused", "dead"}
Ended == {"returned", "refused", "dead"}

(***************************************************************************)
(* Plans.  A plan carries an identity of its own (plan_id), its subtasks   *)
(* are numbered in it.                                                     *)
(***************************************************************************)

PlanIds == Calls \X Nat

Plan(id, shape) == [id |-> id, steps |-> shape]
EmptyPlan(c) == Plan(<<c, 0>>, <<>>)

Plans == [id: PlanIds, steps: Seq(Strategies)]

Fresh == [version |-> 0, plan |-> NoPlan, completed |-> {}, replans |-> 0,
          status |-> "running"]

\* The loop over plan.subtasks skips what is completed already.
Left(s) == {i \in DOMAIN s.plan.steps : <<s.plan.id, i>> \notin s.completed}
Position(s) == CHOOSE i \in Left(s) : \A j \in Left(s) : i <= j
Current(s) == <<s.plan.id, Position(s)>>
Strategy(s) == s.plan.steps[Position(s)]

Snapshots ==
    [version: Nat, plan: {NoPlan} \cup Plans,
     completed: SUBSET (PlanIds \X Nat), replans: Nat, status: Statuses]

\* A row is stored with a plan, at version 1 or later.
Rows ==
    {r \in [org: {Org[c] : c \in Calls}, snap: Snapshots] :
         r.snap.version > 0 /\ r.snap.plan # NoPlan}

ASSUME NullAssumption == NoPlan \notin Plans /\ NoRow \notin Rows

TypeOK ==
    /\ row \in Rows \cup {NoRow}
    /\ review \in {"none", "pending", "resolved"}
    /\ pc \in [Calls -> PCs]
    /\ after \in [Calls -> PCs]
    /\ mine \in [Calls -> Snapshots]
    /\ tries \in [Calls -> 0 .. MaxRetries]
    /\ answer \in [Calls -> Statuses \cup {"nothing"}]
    /\ performed \subseteq PlanIds \X Nat
    /\ skipped \subseteq PlanIds \X Nat
    /\ repeated \in BOOLEAN
    /\ overlapped \in BOOLEAN
    /\ asked \in Nat

Init ==
    /\ row = NoRow
    /\ review = "none"
    /\ pc = [c \in Calls |-> "start"]
    /\ after = [c \in Calls |-> "start"]
    /\ mine = [c \in Calls |-> Fresh]
    /\ tries = [c \in Calls |-> 0]
    /\ answer = [c \in Calls |-> "nothing"]
    /\ performed = {}
    /\ skipped = {}
    /\ repeated = FALSE
    /\ overlapped = FALSE
    /\ asked = 0

(***************************************************************************)
(* Helpers.                                                                *)
(***************************************************************************)

Goto(c, next) == pc' = [pc EXCEPT ![c] = next]

\* Continue with the snapshot s in memory.
Continue(c, next, s) ==
    /\ Goto(c, next)
    /\ mine' = [mine EXCEPT ![c] = s]
    /\ UNCHANGED <<after, tries, answer>>

\* Save the snapshot s, then go on at next.
SaveThen(c, next, s) ==
    /\ Goto(c, "save")
    /\ after' = [after EXCEPT ![c] = next]
    /\ mine' = [mine EXCEPT ![c] = s]
    /\ UNCHANGED answer

\* The call is over; what it had in memory is gone.
End(c, how, status) ==
    /\ Goto(c, how)
    /\ after' = [after EXCEPT ![c] = "start"]
    /\ mine' = [mine EXCEPT ![c] = Fresh]
    /\ tries' = [tries EXCEPT ![c] = 0]
    /\ answer' = [answer EXCEPT ![c] = status]

With(s, status) == [s EXCEPT !.status = status]

\* The current subtask is behind the task, done or skipped.
Behind(s) == [s EXCEPT !.completed = s.completed \cup {Current(s)}]

\* One more replan is paid for.
Paid(s) == [s EXCEPT !.replans = s.replans + 1]

Saved(s) == [s EXCEPT !.version = s.version + 1]

(***************************************************************************)
(* _load_state and the plan.                                               *)
(***************************************************************************)

MutResumed(s) == [s EXCEPT !.status = "running", !.completed = {}]

\* run continues a stored snapshot, a failed one too.
Resumed(s) == [s EXCEPT !.status = "running"]

\* The row the organization of the call sees.
Visible(c) == IF row = NoRow THEN FALSE ELSE row.org = Org[c]

Load(c) ==
    /\ pc[c] = "start"
    /\ overlapped' = (overlapped \/ \E d \in Calls : pc[d] \notin Ended \cup {"start"})
    /\ CASE ~Visible(c) -> Continue(c, "recheck", mine[c])
         [] Visible(c) /\ row.snap.status \in {"completed", "needs_human"} ->
              End(c, "returned", row.snap.status)
         [] OTHER -> SaveThen(c, "loop", Resumed(row.snap)) /\ UNCHANGED tries
    /\ UNCHANGED <<database, performed, skipped, repeated, asked>>

\* Nothing was found for the organization: a row that exists by now, the
\* organization's own one included, refuses the call.
Recheck(c) ==
    /\ pc[c] = "recheck"
    /\ IF row = NoRow THEN Continue(c, "plan", Fresh) ELSE End(c, "refused", "nothing")
    /\ UNCHANGED <<database, history>>

\* A planner that raises leaves a failed snapshot with an empty plan.
CreatePlan(c) ==
    /\ pc[c] = "plan"
    /\ \/ \E shape \in Shapes :
             SaveThen(c, "loop", [mine[c] EXCEPT !.plan = Plan(<<c, 0>>, shape)])
       \/ SaveThen(c, "returned",
                   [mine[c] EXCEPT !.status = "failed", !.plan = EmptyPlan(c)])
    /\ UNCHANGED <<tries, database, history>>

(***************************************************************************)
(* _save_state: an insert for a snapshot that was never saved, a compare-  *)
(* and-set on organization and version afterwards.                         *)
(***************************************************************************)

MutMayWrite(c) == IF mine[c].version = 0 THEN row = NoRow ELSE Visible(c)

MayWrite(c) ==
    IF mine[c].version = 0
    THEN row = NoRow
    ELSE Visible(c) /\ row.snap.version = mine[c].version

Save(c) ==
    /\ pc[c] = "save"
    /\ MayWrite(c)
    /\ LET s == Saved(mine[c])
       IN  /\ row' = [org |-> Org[c], snap |-> s]
           /\ IF after[c] = "returned"
              THEN End(c, "returned", s.status)
              ELSE Continue(c, after[c], s)
    /\ UNCHANGED <<review, history>>

MutConflict(c) ==
    /\ pc[c] = "save"
    /\ ~MayWrite(c)
    /\ Goto(c, "save")
    /\ UNCHANGED <<after, mine, tries, answer, database, history>>

\* Another call wrote the row: this one raises CoordinationStateConflict.
Conflict(c) ==
    /\ pc[c] = "save"
    /\ ~MayWrite(c)
    /\ End(c, "refused", "nothing")
    /\ UNCHANGED <<database, history>>

(***************************************************************************)
(* _execute_plan and ExecutorAgent.execute_subtask.                        *)
(***************************************************************************)

NextSubtask(c) ==
    /\ pc[c] = "loop"
    /\ IF Left(mine[c]) = {}
       THEN SaveThen(c, "returned", With(mine[c], "completed"))
       ELSE SaveThen(c, "execute", mine[c])
    /\ UNCHANGED <<tries, database, history>>

\* The action handler reports the subtask done.
Perform(c) ==
    /\ pc[c] = "execute"
    /\ SaveThen(c, "succeeded", mine[c])
    /\ tries' = [tries EXCEPT ![c] = 0]
    /\ performed' = performed \cup {Current(mine[c])}
    /\ repeated' = (repeated \/ Current(mine[c]) \in performed)
    /\ UNCHANGED <<database, skipped, overlapped, asked>>

\* It fails or raises: the next attempt, or the retries are exhausted.
Fail(c) ==
    /\ pc[c] = "execute"
    /\ IF tries[c] < MaxRetries
       THEN /\ tries' = [tries EXCEPT ![c] = @ + 1]
            /\ UNCHANGED <<pc, after, mine, answer>>
       ELSE /\ SaveThen(c, "failed", mine[c])
            /\ tries' = [tries EXCEPT ![c] = 0]
    /\ UNCHANGED <<database, history>>

Succeed(c) ==
    /\ pc[c] = "succeeded"
    /\ SaveThen(c, "loop", Behind(mine[c]))
    /\ UNCHANGED <<tries, database, history>>

(***************************************************************************)
(* _handle_failure, one action per strategy.                               *)
(***************************************************************************)

Failed(c, strategies) == pc[c] = "failed" /\ Strategy(mine[c]) \in strategies

Skip(c) ==
    /\ Failed(c, {"skip"})
    /\ SaveThen(c, "loop", Behind(mine[c]))
    /\ skipped' = skipped \cup {Current(mine[c])}
    /\ UNCHANGED <<tries, database, performed, repeated, overlapped, asked>>

\* Retries happened inside the executor: both strategies give the task up.
Abort(c) ==
    /\ Failed(c, {"abort", "retry"})
    /\ SaveThen(c, "returned", With(mine[c], "failed"))
    /\ UNCHANGED <<tries, database, history>>

MutReplan(c) ==
    /\ Failed(c, {"replan"})
    /\ IF mine[c].replans >= MaxReplans
       THEN Continue(c, "review", With(mine[c], "needs_human"))
       ELSE Continue(c, "replan", Paid(mine[c]))
    /\ UNCHANGED <<database, history>>

\* The replan is paid for, durably, before the planner is asked.
Replan(c) ==
    /\ Failed(c, {"replan"})
    /\ IF mine[c].replans >= MaxReplans
       THEN Continue(c, "review", With(mine[c], "needs_human"))
       ELSE /\ SaveThen(c, "replan", Paid(mine[c]))
            /\ UNCHANGED tries
    /\ UNCHANGED <<database, history>>

AskPlanner(c) ==
    /\ pc[c] = "replan"
    /\ asked' = asked + 1
    /\ \/ \E shape \in Shapes :
             /\ SaveThen(c, "loop", [mine[c] EXCEPT !.plan =
                                         Plan(<<c, mine[c].replans>>, shape)])
             /\ UNCHANGED tries
       \/ Continue(c, "review", With(mine[c], "needs_human"))
    /\ UNCHANGED <<database, performed, skipped, repeated, overlapped>>

(***************************************************************************)
(* _ensure_human_review, before the snapshot that needs it is saved.       *)
(***************************************************************************)

\* A pending review is enough; otherwise one is inserted.  (A task without a
\* procurement context has none: that exception is one of those of Die.)
FindReview(c) ==
    /\ pc[c] = "review"
    /\ IF review = "pending"
       THEN SaveThen(c, "returned", mine[c]) /\ UNCHANGED tries
       ELSE Continue(c, "insert_review", mine[c])
    /\ UNCHANGED <<database, history>>

MutInsertReview(c) ==
    /\ pc[c] = "insert_review"
    /\ SaveThen(c, "returned", mine[c])
    /\ UNCHANGED <<tries, database, history>>

\* A task has one pending review: the second insert violates its index, and
\* nothing catches that.
InsertReview(c) ==
    /\ pc[c] = "insert_review"
    /\ IF review = "pending"
       THEN End(c, "dead", "nothing") /\ UNCHANGED review
       ELSE SaveThen(c, "returned", mine[c]) /\ UNCHANGED tries /\ review' = "pending"
    /\ UNCHANGED <<row, history>>

\* An operator resolves the review; the snapshot stays as it is.
Resolve ==
    /\ review = "pending"
    /\ review' = "resolved"
    /\ UNCHANGED <<row, memory, history>>

(***************************************************************************)
(* The worker dies, or an exception that nobody catches ends the call.     *)
(***************************************************************************)
Die(c) ==
    /\ pc[c] \notin Ended \cup {"start"}
    /\ End(c, "dead", "nothing")
    /\ UNCHANGED <<database, history>>

Step(c) ==
    \/ Load(c) \/ Recheck(c) \/ CreatePlan(c)
    \/ Save(c) \/ Conflict(c)
    \/ NextSubtask(c) \/ Perform(c) \/ Fail(c) \/ Succeed(c)
    \/ Skip(c) \/ Abort(c) \/ Replan(c) \/ AskPlanner(c)
    \/ FindReview(c) \/ InsertReview(c)

Next ==
    \/ \E c \in Calls : Step(c) \/ Die(c)
    \/ Resolve

Spec == Init /\ [][Next]_vars

\* A call that is made is scheduled again after every await; the handler, the
\* planner and the database answer or raise.
Fairness == \A c \in Calls : WF_vars(Step(c))

FairSpec == Spec /\ Fairness

(***************************************************************************)
(* Properties.                                                             *)
(***************************************************************************)

\* The durable snapshot never claims more than what happened: a subtask in it
\* was reported done or was skipped, a task that is completed has every subtask
\* of its plan behind it, and a task that waits for a human has a review.
SnapshotIsTrue ==
    row # NoRow =>
        /\ row.snap.completed \subseteq performed \cup skipped
        /\ row.snap.status = "completed" => Left(row.snap) = {}
        /\ row.snap.status = "needs_human" => review # "none"

\* However often the task is resumed, the planner is asked to replan at most
\* max_replans times, and every question was recorded before it was asked.
BudgetKept ==
    row # NoRow => asked <= row.snap.replans /\ row.snap.replans <= MaxReplans

\* A resumed task does a subtask again only if a call died in between or two
\* calls worked side by side: a retry after an orderly failure repeats nothing.
RepeatNeedsFault ==
    repeated => overlapped \/ \E c \in Calls : pc[c] = "dead"

\* Every call that is made comes to an end, with an answer or an exception,
\* through replans, retries, conflicts and races for the review.
CallEnds == \A c \in Calls : pc[c] # "start" ~> pc[c] \in Ended

\* What callers see of the row.
View == IF row = NoRow THEN NoRow
        ELSE [status |-> row.snap.status, done |-> row.snap.completed,
              replans |-> row.snap.replans]

ASSUME ViewAssumption ==
    NoRow \notin [status: Statuses, done: SUBSET (PlanIds \X Nat), replans: Nat]

Contract == INSTANCE CheckpointContract WITH
    NoSnap <- NoRow,
    told <- answer,
    snap <- View

\* What callers see of the row and of the answers is the checkpoint contract:
\* progress is never taken back, final outcomes stay, no answer was invented.
ImplementsCheckpoints == Contract!Spec

===============================================================================
