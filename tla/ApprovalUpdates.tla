---------------------------- MODULE ApprovalUpdates ----------------------------
(***************************************************************************)
(* One approval request that belongs to no quote (approval/routes.py): the *)
(* decisions, the continuations that start its task, and the clients that  *)
(* follow it through the long poll and its best-effort Redis notices       *)
(* (approval/notifications.py).                                            *)
(*                                                                         *)
(* Decisions and continuations lock the approval row in a session and so   *)
(* hold one connection of the pool while they wait for the lock; a         *)
(* continuation reads and writes the task through further sessions, so it  *)
(* needs a second connection while it holds the lock.  The pool gives up   *)
(* after its timeout, the database after the statement timeout.            *)
(*                                                                         *)
(* Operators whose name starts with Mut are deliberate mistakes used to    *)
(* show that a property notices them.                                      *)
(***************************************************************************)
EXTENDS Naturals, FiniteSets

CONSTANTS
    Deciders,      \* requests of approvers other than the requester
    Continuers,    \* requests of the requester to continue the task
    Clients,       \* users who poll the updates
    Connections    \* size of the connection pool

ASSUME ApprovalAssumption ==
    /\ Deciders \cap Continuers = {}
    /\ Connections \in Nat \ {0}

Requests == Deciders \cup Continuers
Decisions == {"approved", "rejected"}

VARIABLES
    approval,     \* approval_requests.status
    task,         \* tasks.status of the approved task
    executions,   \* how often the native executor was given the task
    notice,       \* the status claimed by the last message on the channel
    pc,           \* where each request is
    poll,         \* where each client is
    answer,       \* the last answer each client got
    active,       \* the user of the client is active and in scope
    validated     \* native updates of the task that read it and will write

service == <<approval, task, executions>>
others == <<poll, answer, active, validated>>
vars == <<service, notice, pc, others>>

TaskStatuses == {"created", "running", "completed", "failed", "canceled"}

TypeOK ==
    /\ approval \in {"pending"} \cup Decisions
    /\ task \in TaskStatuses
    /\ executions \in Nat
    /\ notice \in {"none"} \cup Decisions
    /\ pc \in [Requests -> {"start", "lock", "read", "claim", "publish", "execute",
                            "write_failed", "done"}]
    /\ poll \in [Clients -> {"idle", "wait", "reload", "reread", "denied"}]
    /\ answer \in [Clients -> {"none", "pending"} \cup Decisions]
    /\ active \in [Clients -> BOOLEAN]
    /\ validated \subseteq {"cancel", "settle"}

Init ==
    /\ approval = "pending"
    /\ task = "created"
    /\ executions = 0
    /\ notice = "none"
    /\ pc = [r \in Requests |-> "start"]
    /\ poll = [c \in Clients |-> "idle"]
    /\ answer = [c \in Clients |-> "none"]
    /\ active = [c \in Clients |-> TRUE]
    /\ validated = {}

Goto(r, next) == pc' = [pc EXCEPT ![r] = next]
PollGoto(c, next) == poll' = [poll EXCEPT ![c] = next]

(***************************************************************************)
(* Connections and the row lock.  A request that waits for the lock, or    *)
(* has it, keeps its session open.                                         *)
(***************************************************************************)

Used == Cardinality({r \in Requests : pc[r] \in {"lock", "read", "claim"}})
FreeConnection == Used < Connections

LockFree == \A r \in Requests : pc[r] \notin {"read", "claim"}

Connect(r) ==
    /\ pc[r] = "start"
    /\ FreeConnection
    /\ Goto(r, "lock")
    /\ UNCHANGED <<service, notice, others>>

Waits(r) ==
    \/ pc[r] \in {"start", "read", "claim"} /\ ~FreeConnection
    \/ pc[r] = "lock" /\ ~LockFree

MutGiveUp(r) ==
    /\ pc[r] = "start" /\ ~FreeConnection
    /\ Goto(r, "done")
    /\ UNCHANGED <<service, notice, others>>

\* QueuePool's timeout or statement_timeout: the request raises, its session is
\* rolled back and gives the connection and the lock back.
GiveUp(r) ==
    /\ Waits(r)
    /\ Goto(r, "done")
    /\ UNCHANGED <<service, notice, others>>

(***************************************************************************)
(* _decide: one transaction, then the notice.                              *)
(***************************************************************************)

MayDecide == approval = "pending" /\ task = "created"

\* A rejection cancels the task together with the approval.
Decide(d) ==
    /\ pc[d] = "lock"
    /\ LockFree
    /\ IF MayDecide
       THEN /\ approval' \in Decisions
            /\ task' = IF approval' = "rejected" THEN "canceled" ELSE task
            /\ Goto(d, "publish")
       ELSE Goto(d, "done") /\ UNCHANGED <<approval, task>>
    /\ UNCHANGED <<executions, notice, others>>

\* publish_update swallows every error, so the message may be lost.
Publish(d) ==
    /\ pc[d] = "publish"
    /\ notice' \in {notice, approval}
    /\ Goto(d, "done")
    /\ UNCHANGED <<service, others>>

(***************************************************************************)
(* continue_request.                                                       *)
(***************************************************************************)

LockApproved(r) ==
    /\ pc[r] = "lock"
    /\ LockFree
    /\ Goto(r, IF approval = "approved" THEN "read" ELSE "done")
    /\ UNCHANGED <<service, notice, others>>

MutReadTask(r) ==
    /\ pc[r] = "read"
    /\ FreeConnection
    /\ Goto(r, "claim")
    /\ UNCHANGED <<service, notice, others>>

\* get_task runs in a session of its own.
ReadTask(r) ==
    /\ pc[r] = "read"
    /\ FreeConnection
    /\ Goto(r, IF task = "created" THEN "claim" ELSE "done")
    /\ UNCHANGED <<service, notice, others>>

\* update_task writes running over whatever the task is by now; the session of
\* the approval ends and with it the lock.
Claim(r) ==
    /\ pc[r] = "claim"
    /\ FreeConnection
    /\ task' = "running"
    /\ Goto(r, "execute")
    /\ UNCHANGED <<approval, executions, notice, others>>

\* The executor creates the first step, writes running once more and takes the
\* task, or raises before or after that.
Execute(r) ==
    /\ pc[r] = "execute"
    /\ \/ /\ executions' = executions + 1
          /\ task' = "running"
          /\ Goto(r, "done")
       \/ /\ task' \in {task, "running"}
          /\ Goto(r, "write_failed")
          /\ UNCHANGED executions
    /\ UNCHANGED <<approval, notice, others>>

\* The failure is recorded if the database lets it.
WriteFailed(r) ==
    /\ pc[r] = "write_failed"
    /\ task' \in {task, "failed"}
    /\ Goto(r, "done")
    /\ UNCHANGED <<approval, executions, notice, others>>

(***************************************************************************)
(* approval_updates: read, wait, reload the user, read again.              *)
(***************************************************************************)

Tell(c, status) ==
    /\ PollGoto(c, "idle")
    /\ answer' = [answer EXCEPT ![c] = status]

Poll(c) ==
    /\ poll[c] = "idle"
    /\ answer[c] \notin Decisions
    /\ IF active[c]
       THEN IF approval = "pending"
            THEN PollGoto(c, "wait") /\ UNCHANGED answer
            ELSE Tell(c, approval)
       ELSE PollGoto(c, "denied") /\ UNCHANGED answer
    /\ UNCHANGED <<service, notice, pc, active, validated>>

MutWake(c) ==
    /\ poll[c] = "wait"
    /\ IF notice = "none"
       THEN PollGoto(c, "reload") /\ UNCHANGED answer
       ELSE Tell(c, notice)
    /\ UNCHANGED <<service, notice, pc, active, validated>>

MutWait(c) ==
    /\ poll[c] = "wait"
    /\ notice # "none"
    /\ PollGoto(c, "reload")
    /\ UNCHANGED <<service, notice, pc, answer, active, validated>>

\* Any message, the timeout or a Redis error ends the wait; the body of the
\* message is never looked at.
Wake(c) ==
    /\ poll[c] = "wait"
    /\ PollGoto(c, "reload")
    /\ UNCHANGED <<service, notice, pc, answer, active, validated>>

ReloadUser(c) ==
    /\ poll[c] = "reload"
    /\ PollGoto(c, IF active[c] THEN "reread" ELSE "denied")
    /\ UNCHANGED <<service, notice, pc, answer, active, validated>>

\* A fresh session sees what was committed by now.
Reread(c) ==
    /\ poll[c] = "reread"
    /\ Tell(c, approval)
    /\ UNCHANGED <<service, notice, pc, active, validated>>

(***************************************************************************)
(* The environment.                                                        *)
(***************************************************************************)

\* Anybody on the Redis server may publish on the channel.
ForgeNotice ==
    /\ notice' \in Decisions
    /\ UNCHANGED <<service, pc, others>>

\* ForgeAgent.update_task reads the task and validates the new status, then
\* writes it over whatever the task is by now; no lock is held in between.
Validate(update) ==
    /\ update \notin validated
    /\ validated' = validated \cup {update}
    /\ UNCHANGED <<service, notice, pc, poll, answer, active>>

Write(update, status) ==
    /\ update \in validated
    /\ validated' = validated \ {update}
    /\ task' = status
    /\ UNCHANGED <<approval, executions, notice, pc, poll, answer, active>>

\* The native cancel endpoint.
CancelRead == task \in {"created", "running"} /\ Validate("cancel")
CancelWrite == Write("cancel", "canceled")

\* The agent settles a task it was given.
SettleRead == executions > 0 /\ task = "running" /\ Validate("settle")
SettleWrite == \E status \in {"completed", "failed"} : Write("settle", status)

Deactivate(c) ==
    /\ active[c]
    /\ active' = [active EXCEPT ![c] = FALSE]
    /\ UNCHANGED <<service, notice, pc, poll, answer, validated>>

\* The worker dies or an exception nobody handles ends the request; what it
\* committed stays.
Die(r) ==
    /\ pc[r] # "done"
    /\ Goto(r, "done")
    /\ UNCHANGED <<service, notice, others>>

RequestStep(r) ==
    \/ Connect(r) \/ GiveUp(r)
    \/ r \in Deciders /\ (Decide(r) \/ Publish(r))
    \/ r \in Continuers /\ (\/ LockApproved(r) \/ ReadTask(r) \/ Claim(r)
                            \/ Execute(r) \/ WriteFailed(r))

ClientStep(c) == Poll(c) \/ Wake(c) \/ ReloadUser(c) \/ Reread(c)

Next ==
    \/ \E r \in Requests : RequestStep(r) \/ Die(r)
    \/ \E c \in Clients : ClientStep(c) \/ Deactivate(c)
    \/ ForgeNotice
    \/ CancelRead \/ CancelWrite \/ SettleRead \/ SettleWrite

Spec == Init /\ [][Next]_vars

\* A client polls until it knows the decision; every wait has a timeout.
Fairness ==
    /\ \A r \in Requests : WF_vars(RequestStep(r))
    /\ \A c \in Clients : WF_vars(ClientStep(c))

FairSpec == Spec /\ Fairness

(***************************************************************************)
(* Properties.                                                             *)
(***************************************************************************)

\* However requests to continue, decisions and native cancellations meet, the
\* browser is given the task at most once, only after an approval, and never
\* for a rejected request, whose task stays canceled.
ApprovalGatesExecution ==
    /\ executions <= 1
    /\ executions = 1 => approval = "approved"
    /\ approval = "rejected" => task = "canceled"

\* A poll answers with what is committed when it answers: not with what it read
\* before the wait, nor with what a message on the channel claims.
AnswerIsCurrent ==
    [][\A c \in Clients : answer'[c] # answer[c] => answer'[c] = approval]_vars

\* A client that keeps polling learns the decision even if every notice was
\* lost, unless its user was deactivated.
LearnsDecision ==
    \A c \in Clients :
        approval # "pending" ~> answer[c] = approval \/ ~active[c]

\* Every decision and continuation ends, also when all connections of the pool
\* are held by requests that wait for the lock or for a second connection.  (One
\* that is done stays so.)
RequestsEnd == <>(\A r \in Requests : pc[r] = "done")

===============================================================================
