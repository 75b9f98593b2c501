--------------------------- MODULE ApprovalUpdatesProofs ---------------------------
(***************************************************************************)
(* Theorems about ApprovalUpdates for any number of approvers, continuing  *)
(* requests, clients and connections: its types, that an approval gates    *)
(* one execution, and that no poll answers with stale or forged news.      *)
(***************************************************************************)
EXTENDS ApprovalUpdates, TLAPS

PCs == {"start", "lock", "read", "claim", "publish", "execute", "write_failed", "done"}
Polls == {"idle", "wait", "reload", "reread", "denied"}

(***************************************************************************)
(* Type correctness.                                                       *)
(***************************************************************************)

\* What is published is a decision.
Announced == \A r \in Requests : pc[r] = "publish" => approval # "pending"

\* A request only moves to places of the program.
LEMMA GotoType ==
  ASSUME TypeOK, NEW r \in Requests, NEW next \in PCs, Goto(r, next)
  PROVE  pc' \in [Requests -> PCs] /\ pc'[r] = next
                 /\ \A s \in Requests : s # r => pc'[s] = pc[s]
  BY DEF TypeOK, Goto, PCs

\* A client only moves to places of the program.
LEMMA PollGotoType ==
  ASSUME TypeOK, NEW c \in Clients, NEW next \in Polls, PollGoto(c, next)
  PROVE  poll' \in [Clients -> Polls]
  BY DEF TypeOK, PollGoto, Polls

\* A client that is told a status is idle again and knows nothing else.
LEMMA TellType ==
  ASSUME TypeOK, NEW c \in Clients, NEW status \in {"none", "pending"} \cup Decisions,
         Tell(c, status)
  PROVE  /\ poll' \in [Clients -> Polls]
         /\ answer' \in [Clients -> {"none", "pending"} \cup Decisions]
         /\ \A d \in Clients : answer'[d] # answer[d] => answer'[d] = status
  BY PollGotoType DEF TypeOK, Tell, Polls

\* The request is created pending, its task not started.
LEMMA TypeInit == Init => TypeOK
<1> SUFFICES ASSUME Init PROVE TypeOK
  OBVIOUS
<1>1. active \in [Clients -> BOOLEAN]
  BY Zenon DEF Init
<1>2. QED
  BY <1>1 DEF Init, TypeOK, TaskStatuses, Decisions

\* The steps of a request keep the types.
LEMMA RequestType ==
  ASSUME TypeOK, Announced, NEW r \in Requests, RequestStep(r) \/ Die(r)
  PROVE  TypeOK'
<1> USE DEF service, others
<1>1. CASE Connect(r) \/ GiveUp(r) \/ Die(r)
  BY <1>1, GotoType DEF Connect, GiveUp, Die, TypeOK, PCs
<1>2. CASE Decide(r)
  <2>1. pc' \in [Requests -> PCs]
    BY <1>2, GotoType DEF Decide, PCs
  <2>2. approval' \in {"pending"} \cup Decisions /\ task' \in TaskStatuses
    BY <1>2 DEF Decide, TypeOK, TaskStatuses
  <2>3. QED
    BY <1>2, <2>1, <2>2 DEF Decide, TypeOK, PCs
<1>3. CASE Publish(r) /\ r \in Deciders
  BY <1>3, GotoType DEF Publish, Announced, TypeOK, PCs
<1>4. CASE LockApproved(r) \/ ReadTask(r)
  BY <1>4, GotoType DEF LockApproved, ReadTask, TypeOK, PCs
<1>5. CASE Claim(r) \/ Execute(r) \/ WriteFailed(r)
  <2>1. pc' \in [Requests -> PCs] /\ task' \in TaskStatuses /\ executions' \in Nat
    BY <1>5, GotoType DEF Claim, Execute, WriteFailed, TypeOK, PCs, TaskStatuses
  <2>2. UNCHANGED <<approval, notice, others>>
    BY <1>5 DEF Claim, Execute, WriteFailed
  <2>3. QED
    BY <2>1, <2>2 DEF TypeOK, PCs
<1>6. QED
  BY <1>1, <1>2, <1>3, <1>4, <1>5 DEF RequestStep

\* So do those of the clients.
LEMMA ClientType ==
  ASSUME TypeOK, NEW c \in Clients, ClientStep(c) \/ Deactivate(c)
  PROVE  TypeOK'
<1> USE DEF service, others
<1>1. CASE Poll(c)
  BY <1>1, PollGotoType, TellType DEF Poll, TypeOK, Polls
<1>2. CASE Wake(c) \/ ReloadUser(c)
  BY <1>2, PollGotoType DEF Wake, ReloadUser, TypeOK, Polls
<1>3. CASE Reread(c)
  BY <1>3, TellType DEF Reread, TypeOK, Polls
<1>4. CASE Deactivate(c)
  <2>1. active' \in [Clients -> BOOLEAN]
    BY <1>4, Zenon DEF Deactivate, TypeOK
  <2>2. QED
    BY <1>4, <2>1 DEF Deactivate, TypeOK
<1>5. QED
  BY <1>1, <1>2, <1>3, <1>4 DEF ClientStep

\* And those of the environment.
LEMMA EnvironmentType ==
  ASSUME TypeOK, ForgeNotice \/ CancelRead \/ CancelWrite \/ SettleRead \/ SettleWrite
  PROVE  TypeOK'
  BY DEF ForgeNotice, CancelRead, CancelWrite, SettleRead, SettleWrite, Validate, Write,
         service, others, TypeOK, TaskStatuses, Decisions

\* A decided request never is pending again.
LEMMA AnnouncedStep ==
  ASSUME TypeOK, Announced, Next
  PROVE  Announced'
<1> USE DEF service, others
<1>1. CASE \E d \in Deciders : Decide(d)
  <2>1. PICK d \in Deciders : Decide(d)
    BY <1>1
  <2>2. CASE MayDecide
    BY <2>1, <2>2 DEF Decide, Announced, Decisions
  <2>3. CASE ~MayDecide
    BY <2>1, <2>3, GotoType DEF Decide, Announced, PCs, Requests
  <2>4. QED
    BY <2>2, <2>3
<1>2. CASE \E r \in Requests : RequestStep(r) \/ Die(r)
  <2>1. PICK r \in Requests : RequestStep(r) \/ Die(r)
    BY <1>2
  <2>2. CASE r \in Deciders /\ Decide(r)
    BY <1>1, <2>2
  <2>3. CASE ~(r \in Deciders /\ Decide(r))
    <3>1. approval' = approval /\ \E next \in PCs \ {"publish"} : Goto(r, next)
      BY <2>1, <2>3
      DEF RequestStep, Connect, GiveUp, Publish, LockApproved, ReadTask, Claim, Execute,
          WriteFailed, Die, PCs
    <3>2. QED
      BY <3>1, GotoType DEF Announced
  <2>4. QED
    BY <2>2, <2>3
<1>3. CASE pc' = pc /\ approval' = approval
  BY <1>3 DEF Announced
<1>4. QED
  BY <1>2, <1>3
  DEF Next, ClientStep, Poll, Wake, ReloadUser, Reread, Deactivate, ForgeNotice,
      CancelRead, CancelWrite, SettleRead, SettleWrite, Validate, Write

\* Types and announcements are kept by every step.
LEMMA TypeStep ==
  ASSUME TypeOK, Announced, [Next]_vars
  PROVE  TypeOK' /\ Announced'
<1>1. CASE UNCHANGED vars
  BY <1>1 DEF vars, service, others, TypeOK, Announced
<1>2. CASE Next
  BY <1>2, RequestType, ClientType, EnvironmentType, AnnouncedStep DEF Next
<1>3. QED
  BY <1>1, <1>2

\* Requests, clients, task and messages always have their types.
THEOREM TypeCorrect == Spec => []TypeOK
<1>1. Init => TypeOK /\ Announced
  BY TypeInit DEF Init, Announced
<1>2. QED
  BY <1>1, TypeStep, PTL DEF Spec

(***************************************************************************)
(* The approval gates the execution.  The row lock is what makes the task  *)
(* seen as created still untouched by other continuations when it is       *)
(* claimed.                                                                *)
(***************************************************************************)

Locking == {"read", "claim"}
Claiming == {"claim", "execute"}

\* One request holds the lock.
LockInv == \A r, s \in Requests : pc[r] \in Locking /\ pc[s] \in Locking => r = s

\* Only the continuation of an approved request gets past the lock.
ApprovedInv ==
    \A r \in Requests :
        pc[r] \in {"read", "claim", "execute", "write_failed"} => approval = "approved"

\* One continuation goes from the task it saw as created to the executor, and
\* none does once the executor was called.  Only then the agent settles the task.
ClaimInv ==
    /\ \A r, s \in Requests : pc[r] \in Claiming /\ pc[s] \in Claiming => r = s
    /\ \A r \in Requests : pc[r] \in Claiming => executions = 0
    /\ \A r \in Requests : pc[r] = "execute" => task # "created"
    /\ executions > 0 => task # "created"
    /\ "settle" \in validated => executions > 0

Gate == LockInv /\ ApprovedInv /\ ClaimInv /\ ApprovalGatesExecution

Inv == TypeOK /\ Announced /\ Gate

\* Nothing has happened yet.
LEMMA InvInit == Init => Inv
  BY TypeInit
  DEF Init, Inv, Announced, Gate, LockInv, ApprovedInv, Gate, ClaimInv, ApprovalGatesExecution, Locking, Claiming

\* A request that moves to a place of no consequence, with the rows unchanged,
\* keeps the invariant.
LEMMA IdleMove ==
  ASSUME Inv, NEW r \in Requests, NEW next \in PCs, Goto(r, next),
         next \notin {"read", "claim", "execute", "write_failed"},
         UNCHANGED <<service, validated>>
  PROVE  Gate'
  BY GotoType
  DEF Inv, Gate, LockInv, ApprovedInv, Gate, ClaimInv, ApprovalGatesExecution, Locking, Claiming, service

\* A decision is made once; a rejection cancels the task that nobody claimed.
LEMMA DecideInv ==
  ASSUME Inv, NEW d \in Deciders, Decide(d)
  PROVE  Gate'
<1>1. TypeOK
  BY DEF Inv
<1>2. CASE ~MayDecide
  BY <1>2, IdleMove DEF Decide, service, others, PCs, Requests
<1>3. CASE MayDecide
  <2>1. /\ approval' \in Decisions /\ approval = "pending" /\ executions = 0
        /\ UNCHANGED <<executions, validated>> /\ "settle" \notin validated
    BY <1>1, <1>3 DEF Decide, others, ClaimInv, MayDecide, Inv, Gate, ApprovalGatesExecution, TypeOK, Decisions
  <2>2. task' = IF approval' = "rejected" THEN "canceled" ELSE task
    BY <1>3 DEF Decide
  <2>3. \A r \in Requests : pc'[r] \notin {"read", "claim", "execute", "write_failed"}
    BY <1>1, <1>3, <2>1, GotoType
    DEF Decide, Inv, Gate, ApprovedInv, PCs, Requests
  <2>4. QED
    BY <2>1, <2>2, <2>3
    DEF Gate, LockInv, ApprovedInv, ClaimInv, ApprovalGatesExecution, Locking, Claiming
<1>4. QED
  BY <1>2, <1>3

\* The steps of a request keep the invariant.
LEMMA RequestInv ==
  ASSUME Inv, NEW r \in Requests, RequestStep(r) \/ Die(r)
  PROVE  Gate'
<1> USE DEF service, others
<1>1. TypeOK
  BY DEF Inv
<1>2. CASE Connect(r) \/ GiveUp(r) \/ Die(r) \/ Publish(r)
  BY <1>1, <1>2, IdleMove DEF Connect, GiveUp, Die, Publish, PCs
<1>3. CASE r \in Deciders /\ Decide(r)
  BY <1>3, DecideInv
<1>4. CASE LockApproved(r)
  <2>1. CASE approval = "approved"
    <3>1. Goto(r, "read") /\ LockFree
      BY <1>4, <2>1 DEF LockApproved
    <3>2. LockInv' /\ ApprovedInv'
      BY <1>1, <1>4, <2>1, <3>1, GotoType
      DEF LockApproved, LockFree, Inv, LockInv, ApprovedInv, Locking, PCs
    <3>3. ClaimInv' /\ ApprovalGatesExecution'
      BY <1>1, <1>4, <2>1, <3>1, GotoType
      DEF LockApproved, Inv, Gate, ClaimInv, ApprovalGatesExecution, Claiming, PCs
    <3>4. QED
      BY <3>2, <3>3 DEF Gate
  <2>2. CASE approval # "approved"
    BY <1>1, <1>4, <2>2, IdleMove DEF LockApproved, PCs
  <2>3. QED
    BY <2>1, <2>2
<1>5. CASE ReadTask(r)
  <2>1. CASE task = "created"
    <3>1. Goto(r, "claim") /\ pc[r] = "read" /\ UNCHANGED <<service, validated>>
      BY <1>5, <2>1 DEF ReadTask
    <3>2. LockInv' /\ ApprovedInv'
      BY <1>1, <3>1, GotoType DEF Inv, Gate, LockInv, ApprovedInv, Locking, PCs
    <3>3. executions = 0 /\ \A s \in Requests : pc[s] \notin Claiming
      BY <1>1, <2>1, <3>1 DEF Inv, Gate, LockInv, Gate, ClaimInv, TypeOK, Locking, Claiming
    <3>4. ClaimInv' /\ ApprovalGatesExecution'
      BY <1>1, <3>1, <3>3, GotoType
      DEF Inv, Gate, ClaimInv, ApprovalGatesExecution, Claiming, PCs
    <3>5. QED
      BY <3>2, <3>4 DEF Gate
  <2>2. CASE task # "created"
    BY <1>1, <1>5, <2>2, IdleMove DEF ReadTask, PCs
  <2>3. QED
    BY <2>1, <2>2
<1>6. CASE Claim(r)
  <2>1. Goto(r, "execute") /\ pc[r] = "claim" /\ task' = "running"
        /\ UNCHANGED <<approval, executions, validated>>
    BY <1>6 DEF Claim
  <2>2. approval = "approved" /\ executions = 0
    BY <2>1 DEF Inv, Gate, ApprovedInv, Gate, ClaimInv, Claiming
  <2>3. LockInv' /\ ApprovedInv'
    BY <1>1, <2>1, GotoType DEF Inv, Gate, LockInv, ApprovedInv, Locking, PCs
  <2>4. ClaimInv' /\ ApprovalGatesExecution'
    BY <1>1, <2>1, <2>2, GotoType DEF Inv, Gate, ClaimInv, ApprovalGatesExecution, Claiming, PCs
  <2>5. QED
    BY <2>3, <2>4 DEF Gate
<1>7. CASE Execute(r)
  <2>1. pc[r] = "execute" /\ approval = "approved" /\ executions = 0 /\ task # "created"
        /\ UNCHANGED <<approval, validated>> /\ "settle" \notin validated
    BY <1>7 DEF Execute, Inv, ApprovedInv, Gate, ClaimInv, Claiming
  <2>2. PICK next \in {"done", "write_failed"} :
            /\ Goto(r, next) /\ task' \in {task, "running"}
            /\ executions' = executions \/ (executions' = executions + 1)
    BY <1>7 DEF Execute
  <2>3. \A s \in Requests : pc'[s] \notin Claiming
    BY <1>1, <2>1, <2>2, GotoType DEF Inv, Gate, ClaimInv, Claiming, PCs
  <2>4. LockInv' /\ ApprovedInv'
    BY <1>1, <2>1, <2>2, GotoType DEF Inv, Gate, LockInv, ApprovedInv, Locking, PCs
  <2>5. ClaimInv' /\ ApprovalGatesExecution'
    BY <2>1, <2>2, <2>3 DEF ClaimInv, ApprovalGatesExecution, Claiming
  <2>6. QED
    BY <2>4, <2>5 DEF Gate
<1>8. CASE WriteFailed(r)
  <2>1. pc[r] = "write_failed" /\ Goto(r, "done") /\ task' \in {task, "failed"}
        /\ UNCHANGED <<approval, executions, validated>>
    BY <1>8 DEF WriteFailed
  <2>2. approval = "approved"
    BY <2>1 DEF Inv, Gate, ApprovedInv
  <2>3. LockInv' /\ ApprovedInv'
    BY <1>1, <2>1, GotoType DEF Inv, Gate, LockInv, ApprovedInv, Locking, PCs
  <2>4. ClaimInv' /\ ApprovalGatesExecution'
    BY <1>1, <2>1, <2>2, GotoType DEF Inv, Gate, ClaimInv, ApprovalGatesExecution, Claiming, PCs
  <2>5. QED
    BY <2>3, <2>4 DEF Gate
<1>9. QED
  BY <1>2, <1>3, <1>4, <1>5, <1>6, <1>7, <1>8 DEF RequestStep

\* Clients change none of it; native cancellations and the agent only leave
\* statuses from which no rejected task comes back.
LEMMA OtherInv ==
  ASSUME Inv, \/ \E c \in Clients : ClientStep(c) \/ Deactivate(c)
              \/ ForgeNotice \/ CancelRead \/ CancelWrite \/ SettleRead \/ SettleWrite
              \/ UNCHANGED vars
  PROVE  Gate'
<1> USE DEF service, others
<1>1. TypeOK
  BY DEF Inv
<1>2. pc' = pc /\ approval' = approval /\ executions' = executions
  BY DEF ClientStep, Poll, Wake, ReloadUser, Reread, Deactivate, ForgeNotice, CancelRead,
         CancelWrite, SettleRead, SettleWrite, Validate, Write, vars, others
<1>3. /\ task' = task \/ CancelWrite \/ SettleWrite
      /\ "settle" \in validated' => "settle" \in validated \/ SettleRead
  BY DEF ClientStep, Poll, Wake, ReloadUser, Reread, Deactivate, ForgeNotice, CancelRead,
         CancelWrite, SettleRead, SettleWrite, Validate, Write, vars, others
<1>4. ClaimInv' /\ ApprovalGatesExecution'
  BY <1>1, <1>2, <1>3 DEF CancelWrite, SettleRead, SettleWrite, Write, Inv, Gate, TypeOK,
         ClaimInv, ApprovalGatesExecution, Claiming
<1>5. LockInv' /\ ApprovedInv'
  BY <1>2 DEF Inv, Gate, LockInv, ApprovedInv
<1>6. QED
  BY <1>4, <1>5 DEF Gate

\* The invariant holds in every reachable state.
LEMMA Invariant == Spec => []Inv
<1>1. Inv /\ [Next]_vars => Inv'
  BY RequestInv, OtherInv, TypeStep DEF Next, Inv
<1>2. QED
  BY InvInit, <1>1, PTL DEF Spec

\* However requests to continue, decisions and native cancellations meet, the
\* browser is given the task at most once, only after an approval, and never
\* for a rejected request, whose task stays canceled.
THEOREM ApprovalGates == Spec => []ApprovalGatesExecution
  BY Invariant, PTL DEF Inv, Gate

(***************************************************************************)
(* The answers of the long poll.                                           *)
(***************************************************************************)

\* A poll answers with what is committed when it answers.
THEOREM AnswersAreCurrent == Spec => AnswerIsCurrent
<1> DEFINE A == \A c \in Clients : answer'[c] # answer[c] => answer'[c] = approval
<1>1. ASSUME TypeOK, [Next]_vars PROVE [A]_vars
  <2>1. CASE \E c \in Clients : Poll(c) \/ Reread(c)
    <3>1. PICK c \in Clients : Poll(c) \/ Reread(c)
      BY <2>1
    <3>2. Tell(c, approval) \/ answer' = answer
      BY <3>1 DEF Poll, Reread
    <3>3. QED
      BY <1>1, <3>2, TellType DEF TypeOK, Decisions
  <2>2. CASE ~ \E c \in Clients : Poll(c) \/ Reread(c)
    <3>1. answer' = answer
      BY <1>1, <2>2
      DEF Next, vars, others, RequestStep, Connect, GiveUp, Decide, Publish, LockApproved,
          ReadTask, Claim, Execute, WriteFailed, Die, ClientStep, Wake, ReloadUser,
          Deactivate, ForgeNotice, CancelRead, CancelWrite, SettleRead, SettleWrite,
          Validate, Write
    <3>2. QED
      BY <3>1
  <2>3. QED
    BY <2>1, <2>2
<1>2. QED
  BY TypeCorrect, <1>1, PTL DEF Spec, AnswerIsCurrent

===============================================================================
