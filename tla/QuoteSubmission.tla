--------------------------- MODULE QuoteSubmission ---------------------------
(***************************************************************************)
(* The idempotent submission of quote tasks (quote_task of                 *)
(* procurement/routes.py): requests of several workers, some with the same *)
(* Idempotency-Key, that look the key up, assess the risk, create a native *)
(* task in a transaction of its own and attach the enterprise rows to it,  *)
(* with lost answers, failing cleanups, retries and workers that die.      *)
(*                                                                         *)
(* What happens to a task after it was attached is QuoteLifecycle.tla; of  *)
(* it only the approval, the running marker and the end of the execution   *)
(* are kept here.                                                          *)
(***************************************************************************)
EXTENDS Naturals, FiniteSets

CONSTANTS
    Requests,       \* clients, each with a request of its own
    Workers,        \* worker processes of the service
    Keys,           \* idempotency keys
    Key,            \* the key each client sends
    Worker,         \* the worker that serves each client
    MaxAttempts,    \* bound: how often a client sends its request
    MaxFaults,      \* bound: lost answers, failing cleanups, dying workers
    NoRequest,
    NoTask

ASSUME SubmissionAssumption ==
    /\ Key \in [Requests -> Keys]
    /\ Worker \in [Requests -> Workers]
    /\ NoRequest \notin Requests
    /\ MaxAttempts \in Nat /\ MaxFaults \in Nat

\* Every attempt of a client creates at most one native task.
Tasks == Requests \X (1 .. MaxAttempts)

KeyOf(t) == Key[t[1]]

ASSUME NoTaskAssumption == NoTask \notin Tasks

VARIABLES
    status,     \* tasks.status, "none" before the task exists
    attached,   \* tasks with a task_extensions row that holds their key
    approval,   \* their approval request
    runs,       \* browser executions started
    lock,       \* _SMOKE_LOCK of every worker
    pc,         \* where each request is
    high,       \* the risk it assessed asks for an approval
    attempt,    \* how often it was sent
    found,      \* the stored task it is about to answer with
    answer,     \* the task the client was told of
    faults

tasks == <<status, attached, approval, runs>>
local == <<high, attempt, found>>
vars == <<tasks, lock, pc, local, answer, faults>>

PCs == {"idle", "waiting", "lookup", "assess", "create", "attach", "resolve",
        "cancel_duplicate", "cancel_refused", "recover", "browsing"}
Statuses == {"none", "created", "running", "completed", "failed", "canceled"}

TypeOK ==
    /\ status \in [Tasks -> Statuses]
    /\ attached \in SUBSET Tasks
    /\ approval \in [Tasks -> {"none", "pending", "approved", "rejected"}]
    /\ runs \in [Tasks -> Nat]
    /\ lock \in [Workers -> Requests \cup {NoRequest}]
    /\ pc \in [Requests -> PCs]
    /\ high \in [Requests -> BOOLEAN]
    /\ attempt \in [Requests -> Nat]
    /\ found \in [Requests -> Tasks \cup {NoTask}]
    /\ \A r \in Requests :
         found[r] # NoTask <=> pc[r] \in {"cancel_duplicate", "recover", "browsing"}
    /\ answer \in [Requests -> Tasks \cup {NoTask}]
    /\ faults \in Nat

Init ==
    /\ status = [t \in Tasks |-> "none"]
    /\ attached = {}
    /\ approval = [t \in Tasks |-> "none"]
    /\ runs = [t \in Tasks |-> 0]
    /\ lock = [w \in Workers |-> NoRequest]
    /\ pc = [r \in Requests |-> "idle"]
    /\ high = [r \in Requests |-> FALSE]
    /\ attempt = [r \in Requests |-> 0]
    /\ found = [r \in Requests |-> NoTask]
    /\ answer = [r \in Requests |-> NoTask]
    /\ faults = 0

(***************************************************************************)
(* Helpers.                                                                *)
(***************************************************************************)

\* The native task of the attempt at hand.
Mine(r) == <<r, attempt[r]>>

\* The unique index on organisation and key hash leaves at most one.
Persisted(k) == {t \in attached : KeyOf(t) = k}

Goto(r, next) == pc' = [pc EXCEPT ![r] = next]

Fault == faults < MaxFaults /\ faults' = faults + 1

MutLeave(r) ==
    /\ found' = [found EXCEPT ![r] = NoTask]
    /\ Goto(r, "idle")
    /\ UNCHANGED <<lock, high, attempt>>

\* The handler is left: the lock is released and the request forgets.
Leave(r) ==
    /\ lock' = [lock EXCEPT ![Worker[r]] = NoRequest]
    /\ found' = [found EXCEPT ![r] = NoTask]
    /\ Goto(r, "idle")
    /\ UNCHANGED <<high, attempt>>

Answer(r, t) == Leave(r) /\ answer' = [answer EXCEPT ![r] = t]

\* An HTTPException: the client learns of no task.
Refuse(r) == Leave(r) /\ UNCHANGED answer

(***************************************************************************)
(* quote_task.                                                             *)
(***************************************************************************)

\* A client sends its request, for the first time or again.
Submit(r) ==
    /\ pc[r] = "idle"
    /\ attempt[r] < MaxAttempts
    /\ attempt' = [attempt EXCEPT ![r] = @ + 1]
    /\ Goto(r, "waiting")
    /\ UNCHANGED <<tasks, lock, high, found, answer, faults>>

\* async with _SMOKE_LOCK, which other workers do not see.
Lock(r) ==
    /\ pc[r] = "waiting"
    /\ lock[Worker[r]] = NoRequest
    /\ lock' = [lock EXCEPT ![Worker[r]] = r]
    /\ Goto(r, "lookup")
    /\ UNCHANGED <<tasks, local, answer, faults>>

\* A stored task is recovered unless it is waiting for its approval or has
\* its quote, which a completed task may.
Lookup(r) ==
    /\ pc[r] = "lookup"
    /\ IF Persisted(Key[r]) = {}
       THEN Goto(r, "assess") /\ UNCHANGED <<lock, local, answer>>
       ELSE \E t \in Persisted(Key[r]) :
              \/ /\ approval[t] = "none" \/ status[t] # "created"
                 /\ found' = [found EXCEPT ![r] = t]
                 /\ Goto(r, "recover")
                 /\ UNCHANGED <<lock, high, attempt, answer>>
              \/ /\ \/ approval[t] # "none" /\ status[t] = "created"
                    \/ status[t] = "completed"
                 /\ Answer(r, t)
    /\ UNCHANGED <<tasks, faults>>

\* The model review is awaited: two requests may come to different levels.
Assess(r) ==
    /\ pc[r] = "assess"
    /\ \E h \in BOOLEAN : high' = [high EXCEPT ![r] = h]
    /\ Goto(r, "create")
    /\ UNCHANGED <<tasks, lock, attempt, found, answer, faults>>

\* run_task with defer_execution commits the native task; it may raise after.
Create(r) ==
    /\ pc[r] = "create"
    /\ \/ /\ status' = [status EXCEPT ![Mine(r)] = "created"]
          /\ Goto(r, "attach")
          /\ UNCHANGED <<lock, local, answer, faults>>
       \/ /\ Fault
          /\ status' \in {status, [status EXCEPT ![Mine(r)] = "created"]}
          /\ Refuse(r)
    /\ UNCHANGED <<attached, approval, runs>>

MutUnique(t) == t \notin attached

\* uq_task_extension_org_request_key: no other task holds the key.
Unique(t) == Persisted(KeyOf(t)) = {}

\* Context, approval, audit and first snapshot are one transaction.
Attach(r) ==
    LET t == Mine(r) IN
    /\ pc[r] = "attach"
    /\ Unique(t)
    /\ attached' = attached \cup {t}
    /\ approval' = [approval EXCEPT ![t] = IF high[r] THEN "pending" ELSE "none"]
    /\ \/ /\ high[r]
          /\ Answer(r, t)
          /\ UNCHANGED faults
       \/ /\ ~high[r]
          /\ found' = [found EXCEPT ![r] = t]
          /\ Goto(r, "recover")
          /\ UNCHANGED <<lock, high, attempt, answer, faults>>
       \/ Fault /\ Refuse(r)        \* committed, but the answer is lost
    /\ UNCHANGED <<status, runs>>

\* The index, or another constraint, refuses the rows.
AttachConflicts(r) ==
    /\ pc[r] = "attach"
    /\ \/ ~Unique(Mine(r)) /\ UNCHANGED faults
       \/ Fault
    /\ Goto(r, "resolve")
    /\ UNCHANGED <<tasks, lock, local, answer>>

\* No approver can be found, the state table refuses, or the database fails.
AttachRaises(r) ==
    /\ pc[r] = "attach"
    /\ \/ Goto(r, "cancel_refused") /\ UNCHANGED <<lock, local, answer, faults>>
       \/ Fault /\ Refuse(r)
    /\ UNCHANGED tasks

MutResolve(r) ==
    /\ pc[r] = "resolve"
    /\ found' = [found EXCEPT ![r] = IF Persisted(Key[r]) = {} THEN NoTask
                                    ELSE CHOOSE t \in Persisted(Key[r]) : TRUE]
    /\ Goto(r, "cancel_duplicate")
    /\ UNCHANGED <<tasks, lock, high, attempt, answer, faults>>

\* Whoever holds the key is answered; without one the conflict is an error.
Resolve(r) ==
    /\ pc[r] = "resolve"
    /\ IF Persisted(Key[r]) = {}
       THEN Refuse(r)
       ELSE \E t \in Persisted(Key[r]) :
              /\ found' = [found EXCEPT ![r] = t]
              /\ Goto(r, "cancel_duplicate")
              /\ UNCHANGED <<lock, high, attempt, answer>>
    /\ UNCHANGED <<tasks, faults>>

MutOrphan(r) == found[r]

\* The task to clean up: the one this attempt created.
Orphan(r) == Mine(r)

MutCancelOrphan(r) ==
    /\ pc[r] \in {"cancel_duplicate", "cancel_refused"}
    /\ UNCHANGED <<status, faults>>
    /\ IF pc[r] = "cancel_duplicate" THEN Answer(r, found[r]) ELSE Refuse(r)
    /\ UNCHANGED <<attached, approval, runs>>

\* _cancel_orphan_task is best effort; the client is answered either way.
CancelOrphan(r) ==
    /\ pc[r] \in {"cancel_duplicate", "cancel_refused"}
    /\ \/ status' = [status EXCEPT ![Orphan(r)] = "canceled"] /\ UNCHANGED faults
       \/ Fault /\ UNCHANGED status
    /\ \/ pc[r] = "cancel_duplicate" /\ Answer(r, found[r])
       \/ Refuse(r)        \* always after a refusal, or reading the task failed
    /\ UNCHANGED <<attached, approval, runs>>

MutMayRun(t) == approval[t] \in {"none", "approved"}

\* A task is started once, and a risky one only with its approval.
MayRun(t) == status[t] = "created" /\ approval[t] \in {"none", "approved"}

\* recover_quote_task: the running marker commits before the browser starts;
\* a task that cannot be started is handed to a human or refused.
Recover(r) ==
    LET t == found[r] IN
    /\ pc[r] = "recover"
    /\ IF MayRun(t)
       THEN /\ status' = [status EXCEPT ![t] = "running"]
            /\ runs' = [runs EXCEPT ![t] = @ + 1]
            /\ Goto(r, "browsing")
            /\ UNCHANGED <<lock, local, answer>>
       ELSE /\ Answer(r, t) \/ Refuse(r)
            /\ UNCHANGED <<status, runs>>
    /\ UNCHANGED <<attached, approval, faults>>

\* The execution ends; a quote that cannot be saved is an error.
BrowseEnds(r) ==
    /\ pc[r] = "browsing"
    /\ \E end \in {"completed", "failed"} : status' = [status EXCEPT ![found[r]] = end]
    /\ Answer(r, found[r]) \/ Refuse(r)
    /\ UNCHANGED <<attached, approval, runs, faults>>

(***************************************************************************)
(* The environment.                                                        *)
(***************************************************************************)

\* An approver decides; a rejection cancels the task in its transaction.
Decide(t) ==
    /\ approval[t] = "pending"
    /\ \E d \in {"approved", "rejected"} :
         /\ approval' = [approval EXCEPT ![t] = d]
         /\ status' = IF d = "rejected" THEN [status EXCEPT ![t] = "canceled"] ELSE status
    /\ UNCHANGED <<attached, runs, lock, pc, local, answer, faults>>

\* continue_request recovers an approved task, in whatever worker.
Continue(t) ==
    /\ approval[t] = "approved"
    /\ MayRun(t)
    /\ \E end \in {"running", "completed", "failed"} : status' = [status EXCEPT ![t] = end]
    /\ runs' = [runs EXCEPT ![t] = @ + 1]
    /\ UNCHANGED <<attached, approval, lock, pc, local, answer, faults>>

\* A worker dies with its lock and all the requests it was serving.
Crash(w) ==
    /\ Fault
    /\ lock' = [lock EXCEPT ![w] = NoRequest]
    /\ pc' = [r \in Requests |-> IF Worker[r] = w THEN "idle" ELSE pc[r]]
    /\ found' = [r \in Requests |-> IF Worker[r] = w THEN NoTask ELSE found[r]]
    /\ UNCHANGED <<tasks, high, attempt, answer>>

(***************************************************************************)
(* The specification.                                                      *)
(***************************************************************************)

Handle(r) ==
    \/ Lookup(r)
    \/ Assess(r)
    \/ Create(r)
    \/ Attach(r)
    \/ AttachConflicts(r)
    \/ AttachRaises(r)
    \/ Resolve(r)
    \/ CancelOrphan(r)
    \/ Recover(r)
    \/ BrowseEnds(r)

Next ==
    \/ \E r \in Requests : Submit(r) \/ Lock(r) \/ Handle(r)
    \/ \E t \in Tasks : Decide(t) \/ Continue(t)
    \/ \E w \in Workers : Crash(w)

Spec == Init /\ [][Next]_vars

\* Requests that hold the lock keep running, and asyncio.Lock wakes its
\* waiters in the order they came, so none is passed over for ever.
Fairness == \A r \in Requests : WF_vars(Handle(r)) /\ SF_vars(Lock(r))

FairSpec == Spec /\ Fairness

(***************************************************************************)
(* Properties.                                                             *)
(***************************************************************************)

\* However many workers and retries use a key, the browser is started for
\* one task of it, once, and only for a task whose enterprise rows exist and
\* whose approval, if it needs one, was given.
OneBrowserPerKey ==
    /\ \A t, u \in Tasks : runs[t] > 0 /\ runs[u] > 0 /\ KeyOf(t) = KeyOf(u) => t = u
    /\ \A t \in Tasks : runs[t] > 0 =>
         runs[t] = 1 /\ t \in attached /\ approval[t] \in {"none", "approved"}

\* Without a lost answer, a failing cleanup or a dying worker, every native
\* task without enterprise rows is canceled when its request has answered.
NoStrayTask ==
    faults = 0 => \A r \in Requests : \A n \in 1 .. MaxAttempts :
        status[<<r, n>>] = "created" /\ <<r, n>> \notin attached =>
            n = attempt[r] /\ pc[r] # "idle"

\* The cleanup of a duplicate never takes the task that holds the key: an
\* attached task is canceled by the rejection of its approval only.
CleanupSparesOwner ==
    \A t \in attached : status[t] = "canceled" => approval[t] = "rejected"

\* No request waits for ever for the lock or for another worker's request.
Answered == \A r \in Requests : pc[r] # "idle" ~> pc[r] = "idle"

Contract == INSTANCE IdempotencyContract WITH
    owner  <- [k \in Keys |-> IF Persisted(k) = {} THEN NoTask
                              ELSE CHOOSE t \in Persisted(k) : TRUE],
    worked <- {KeyOf(t) : t \in {u \in Tasks : runs[u] > 0}},
    told   <- [k \in Keys |-> {answer[r] : r \in {q \in Requests : Key[q] = k}} \ {NoTask}]

\* Workers that share nothing but the database implement the contract of the
\* key, as DECISIONS.md asks of the unique index.
ImplementsIdempotency == Contract!Spec

===============================================================================
