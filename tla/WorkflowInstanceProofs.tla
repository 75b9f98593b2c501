------------------------- MODULE WorkflowInstanceProofs -------------------------
(***************************************************************************)
(* Theorems about WorkflowInstance for any number of requests, crashes and *)
(* blocks: its types, its safety properties, and that it implements        *)
(* WorkflowContract.                                                       *)
(***************************************************************************)
EXTENDS WorkflowInstance, FiniteSetTheorems, TLAPS

(***************************************************************************)
(* Type correctness.                                                       *)
(***************************************************************************)

\* A request only moves to places of the program.
LEMMA GotoType ==
  ASSUME TypeOK, NEW p \in Procs, NEW next \in RequestPCs, Goto(p, next)
  PROVE  pc' \in [Procs -> RequestPCs]
  BY DEF TypeOK, Goto

\* A request that answers keeps its variables typed.
LEMMA ReturnType ==
  ASSUME TypeOK, NEW p \in Procs, Return(p)
  PROVE  pc' \in [Procs -> RequestPCs] /\ seen' \in [Procs -> Nat]
  BY DEF TypeOK, Return, RequestPCs

\* An executor only moves to places of the program.
LEMMA XGotoType ==
  ASSUME TypeOK, NEW p \in Procs, NEW next \in ExecutorPCs, XGoto(p, next)
  PROVE  xpc' \in [Procs -> ExecutorPCs]
  BY DEF TypeOK, XGoto

\* A new status comes with the next version.
LEMMA SetStatusType ==
  ASSUME TypeOK, NEW s \in InstanceStatuses, SetStatus(s)
  PROVE  status' \in InstanceStatuses /\ version' \in Nat
  BY DEF TypeOK, SetStatus

\* The exception handlers leave a typed row and reach no status but needs_human.
LEMMA HaltType ==
  ASSUME TypeOK, Halt
  PROVE  /\ status' \in InstanceStatuses /\ version' \in Nat
         /\ \/ status' = "needs_human"
            \/ status' = status /\ status \in {"completed", "terminated"}
  BY DEF TypeOK, Halt, SetStatus, InstanceStatuses, Unsettled

\* The row starts typed.
LEMMA TypeInit == Init => TypeOK
<1> SUFFICES ASSUME Init PROVE TypeOK
  OBVIOUS
<1>1. bound \in BOOLEAN /\ credential \in BOOLEAN /\ evidence \in [Blocks -> BOOLEAN]
  BY Zenon DEF Init
<1>2. 1 \in Blocks
  BY InstanceAssumption DEF Blocks
<1>3. QED
  BY <1>1, <1>2
  DEF Init, TypeOK, InstanceStatuses, Unsettled, RunStatuses, StepStatuses, RequestPCs,
      ExecutorPCs

\* The steps of a request keep the types.
LEMMA RequestType ==
  ASSUME TypeOK, NEW p \in Procs, Instantiate(p) \/ Request(p) \/ Recover(p)
  PROVE  TypeOK'
<1> USE DEF row, native, requests, executors
<1>1. CASE Instantiate(p) \/ PrepareRaises(p) \/ LaunchRaises(p)
  BY <1>1, GotoType DEF Instantiate, PrepareRaises, LaunchRaises, TypeOK, RequestPCs
<1>2. CASE Insert(p)
  <2>1. status' \in InstanceStatuses /\ version' \in Nat
    BY <1>2, SetStatusType DEF Insert, TypeOK, InstanceStatuses, Unsettled
  <2>2. pc' \in [Procs -> RequestPCs] /\ seen' \in [Procs -> Nat]
    BY <1>2, GotoType, ReturnType DEF Insert, TypeOK, RequestPCs
  <2>3. QED
    BY <1>2, <2>1, <2>2 DEF Insert, TypeOK
<1>3. CASE Prepare(p)
  BY <1>3, GotoType DEF Prepare, TypeOK, RequestPCs, RunStatuses
<1>4. CASE Bind(p)
  <2>1. bound' \in BOOLEAN
    BY <1>4, Zenon DEF Bind, TypeOK
  <2>2. status' \in InstanceStatuses /\ version' \in Nat
    BY <1>4, SetStatusType DEF Bind, TypeOK, InstanceStatuses, Unsettled
  <2>3. pc' \in [Procs -> RequestPCs]
    BY <1>4, GotoType DEF Bind, RequestPCs
  <2>4. seen' \in [Procs -> Nat]
    BY <1>4, <2>2 DEF Bind, TypeOK
  <2>5. QED
    BY <1>4, <2>1, <2>2, <2>3, <2>4 DEF Bind, TypeOK
<1>5. CASE PrepareFailed(p) \/ LaunchFailed(p)
  BY <1>5, HaltType, ReturnType DEF PrepareFailed, LaunchFailed, TypeOK
<1>6. CASE Dispatch(p)
  <2>1. status' \in InstanceStatuses /\ version' \in Nat
    BY <1>6, SetStatusType DEF Dispatch, TypeOK, InstanceStatuses, Unsettled
  <2>2. pc' \in [Procs -> RequestPCs] /\ seen' \in [Procs -> Nat]
    BY <1>6, GotoType, ReturnType DEF Dispatch, TypeOK, RequestPCs
  <2>3. QED
    BY <1>6, <2>1, <2>2 DEF Dispatch, TypeOK
<1>7. CASE Launch(p)
  BY <1>7, ReturnType, XGotoType DEF Launch, TypeOK, ExecutorPCs
<1>8. CASE LockBusy(p)
  BY <1>8, ReturnType, GotoType DEF LockBusy, TypeOK, RequestPCs
<1>9. CASE Recover(p)
  <2>1. status' \in InstanceStatuses /\ version' \in Nat
    BY <1>9, SetStatusType DEF Recover, TypeOK, InstanceStatuses, Unsettled
  <2>2. pc' \in [Procs -> RequestPCs] /\ seen' \in [Procs -> Nat]
    BY <1>9, GotoType DEF Recover, TypeOK, RequestPCs
  <2>3. QED
    BY <1>9, <2>1, <2>2 DEF Recover, TypeOK
<1>10. QED
  BY <1>1, <1>2, <1>3, <1>4, <1>5, <1>6, <1>7, <1>8, <1>9 DEF Request

\* The steps of the native executor keep the types.
LEMMA ExecutorType ==
  ASSUME TypeOK, NEW p \in Procs, Executor(p)
  PROVE  TypeOK'
<1> USE DEF row, native, requests, executors
<1>0. xat[p] \in Blocks
  BY DEF TypeOK
<1>1. CASE MarkRunning(p)
  BY <1>1, XGotoType DEF MarkRunning, TypeOK, ExecutorPCs, RunStatuses
<1>2. CASE InitContext(p) \/ CheckCanceled(p) \/ Refresh(p)
  BY <1>2, XGotoType DEF InitContext, CheckCanceled, Refresh, TypeOK, ExecutorPCs
<1>3. CASE BeforeBlock(p)
  <2>1. steps' \in [Blocks -> StepStatuses]
    BY <1>3 DEF BeforeBlock, TypeOK, StepStatuses
  <2>2. version' \in Nat
    BY <1>3 DEF BeforeBlock, TypeOK
  <2>3. xpc' \in [Procs -> ExecutorPCs]
    BY <1>3, XGotoType DEF BeforeBlock, ExecutorPCs
  <2>4. QED
    BY <1>3, <2>1, <2>2, <2>3 DEF BeforeBlock, TypeOK
<1>4. CASE Browse(p)
  <2>1. xpc' \in [Procs -> ExecutorPCs]
    BY <1>4, XGotoType DEF Browse, ExecutorPCs
  <2>2. QED
    BY <1>4, <2>1 DEF Browse, TypeOK
<1>5. ASSUME NEW end \in Ends, NEW valid \in BOOLEAN, BrowseEnds(p, end, valid)
      PROVE  TypeOK'
  <2>1. evidence' \in [Blocks -> BOOLEAN]
    BY <1>5 DEF BrowseEnds, TypeOK
  <2>2. xpc' \in [Procs -> ExecutorPCs]
    BY <1>5, XGotoType DEF BrowseEnds, ExecutorPCs
  <2>3. QED
    BY <1>5, <2>1, <2>2 DEF BrowseEnds, TypeOK, Ends
<1>6. CASE BlockRaises(p)
  <2>1. xpc' \in [Procs -> ExecutorPCs]
    BY <1>6, XGotoType DEF BlockRaises, ExecutorPCs
  <2>2. QED
    BY <1>6, <2>1 DEF BlockRaises, TypeOK
<1>7. CASE HandleResult(p)
  <2>1. xpc' \in [Procs -> ExecutorPCs]
    BY <1>7, XGotoType DEF HandleResult, ExecutorPCs
  <2>2. run' \in RunStatuses
    BY <1>7 DEF HandleResult, TypeOK, RunStatuses
  <2>3. QED
    BY <1>7, <2>1, <2>2 DEF HandleResult, TypeOK
<1>8. CASE AfterBlock(p)
  <2>1. steps' \in [Blocks -> StepStatuses] /\ plan' \in SUBSET Blocks
    BY <1>0, <1>8 DEF AfterBlock, TypeOK, StepStatuses, Remaining
  <2>2. status' \in InstanceStatuses /\ version' \in Nat
    BY <1>8, SetStatusType DEF AfterBlock, TypeOK, InstanceStatuses, Unsettled
  <2>3. xpc' \in [Procs -> ExecutorPCs]
    BY <1>8, XGotoType DEF AfterBlock, ExecutorPCs
  <2>4. xat' \in [Procs -> Blocks]
    BY <1>0, <1>8, InstanceAssumption DEF AfterBlock, TypeOK, Blocks
  <2>5. QED
    BY <1>8, <2>1, <2>2, <2>3, <2>4 DEF AfterBlock, TypeOK
<1>9. CASE FailNative(p)
  BY <1>9, HaltType, XGotoType DEF FailNative, TypeOK, ExecutorPCs
<1>10. CASE MarkFailed(p) \/ MarkCompleted(p)
  BY <1>10, XGotoType DEF MarkFailed, MarkCompleted, TypeOK, ExecutorPCs, RunStatuses
<1>11. QED
  BY <1>1, <1>2, <1>3, <1>4, <1>5, <1>6, <1>7, <1>8, <1>9, <1>10 DEF Executor

\* Crashes, cancellations and revocations keep the types.
LEMMA TypeStep == TypeOK /\ [Next]_vars => TypeOK'
<1> SUFFICES ASSUME TypeOK, [Next]_vars PROVE TypeOK'
  OBVIOUS
<1> USE DEF row, native, requests, executors
<1>1. ASSUME NEW p \in Procs, Crash(p)
      PROVE  TypeOK'
  BY <1>1, ReturnType, XGotoType DEF Crash, TypeOK, ExecutorPCs
<1>2. CASE Terminate
  <2>1. status' \in InstanceStatuses /\ version' \in Nat
    BY <1>2, SetStatusType DEF Terminate, InstanceStatuses
  <2>2. QED
    BY <1>2, <2>1 DEF Terminate, TypeOK, RunStatuses
<1>3. CASE NativeCancel
  BY <1>3 DEF NativeCancel, TypeOK, RunStatuses
<1>4. CASE Revoke
  <2>1. credential' \in BOOLEAN
    BY <1>4, Zenon DEF Revoke
  <2>2. QED
    BY <1>4, <2>1 DEF Revoke, TypeOK
<1>5. CASE UNCHANGED vars
  BY <1>5 DEF vars, TypeOK
<1>6. QED
  BY <1>1, <1>2, <1>3, <1>4, <1>5, RequestType, ExecutorType DEF Next

\* Every reachable state of every instance is typed.
THEOREM TypeCorrect == Spec => []TypeOK
  BY TypeInit, TypeStep, PTL DEF Spec

(***************************************************************************)
(* The inductive invariants.  Each part is stated for the theorem it       *)
(* supports; Inv is inductive as a whole.                                  *)
(***************************************************************************)

\* One request at a time is responsible for the native run, from the row it
\* inserted to the executor it launches, and nobody takes over from it.
StartInv ==
    /\ launches \in {0, 1}
    /\ status \in {"absent", "preparing", "ready"} =>
           launches = 0 /\ \A p \in Procs : pc[p] # "launch"
    /\ status = "absent" => \A p \in Procs : pc[p] \in {"idle", "insert"}
    /\ \A p \in Procs : pc[p] \in {"prepare", "bind"} =>
           status \in {"preparing", "needs_human", "terminated"}
    /\ \A p \in Procs : pc[p] \in {"prepare", "bind", "launch"} =>
           /\ launches = 0
           /\ \A q \in Procs : pc[q] \in {"prepare", "bind", "launch"} => q = p
    /\ \A p \in Procs : xpc[p] # "off" =>
           /\ launches = 1
           /\ \A q \in Procs : xpc[q] # "off" => q = p

\* The status of a block tells how far the browser got with it, and blocks
\* are taken in order.
BlockInv ==
    \A b \in Blocks :
        /\ begun[b] \in {0, 1}
        /\ steps[b] = "pending" => begun[b] = 0
        /\ steps[b] = "completed" => task[b] = "completed" /\ evidence[b] /\ begun[b] = 1
        /\ steps[b] # "pending" => \A c \in 1 .. (b - 1) : steps[c] = "completed"

\* The executor at a block is the one that marked it running.
AtInv ==
    \A p \in Procs :
        /\ xpc[p] = "browse" => steps[xat[p]] = "running" /\ begun[xat[p]] = 0
        /\ xpc[p] \in {"browsing", "result", "after"} =>
               steps[xat[p]] = "running" /\ begun[xat[p]] = 1

\* A completed instance has completed blocks only.
DoneInv == status = "completed" => \A b \in Blocks : steps[b] = "completed"

\* An executor that is about to report success has completed the instance.
SuccessInv ==
    /\ run = "completed" => status = "completed"
    /\ \A p \in Procs : xpc[p] = "complete" => status = "completed"
    /\ \A p \in Procs : xpc[p] = "refresh" =>
           run \in {"canceled", "failed"} \/ status = "completed"

Inv == TypeOK /\ StartInv /\ BlockInv /\ AtInv /\ DoneInv /\ SuccessInv

\* What an executor may do to the variables of StartInv.
LEMMA ExecutorFrame ==
  ASSUME TypeOK, NEW p \in Procs, Executor(p)
  PROVE  /\ UNCHANGED <<launches, pc>>
         /\ xpc[p] # "off"
         /\ \E next \in ExecutorPCs \ {"off"} : xpc' = [xpc EXCEPT ![p] = next]
         /\ status' \in {status, "running", "completed", "needs_human"}
<1> USE DEF row, native, requests, executors, XGoto, ExecutorPCs
<1>1. CASE MarkRunning(p) \/ InitContext(p) \/ CheckCanceled(p) \/ Refresh(p)
  BY <1>1 DEF MarkRunning, InitContext, CheckCanceled, Refresh
<1>2. CASE BeforeBlock(p) \/ Browse(p) \/ BlockRaises(p)
  BY <1>2 DEF BeforeBlock, Browse, BlockRaises
<1>3. ASSUME NEW end \in Ends, NEW valid \in BOOLEAN, BrowseEnds(p, end, valid)
      PROVE  /\ UNCHANGED <<launches, pc, status>>
             /\ xpc[p] # "off"
             /\ \E next \in ExecutorPCs \ {"off"} : xpc' = [xpc EXCEPT ![p] = next]
  BY <1>3 DEF BrowseEnds
<1>4. CASE HandleResult(p) \/ MarkFailed(p) \/ MarkCompleted(p)
  BY <1>4 DEF HandleResult, MarkFailed, MarkCompleted
<1>5. CASE AfterBlock(p)
  BY <1>5 DEF AfterBlock, SetStatus
<1>6. CASE FailNative(p)
  BY <1>6 DEF FailNative, Halt, SetStatus
<1>7. QED
  BY <1>1, <1>2, <1>3, <1>4, <1>5, <1>6 DEF Executor

\* Nobody becomes responsible for a run somebody else is responsible for.
LEMMA StartStep == Inv /\ [Next]_vars => StartInv'
<1> SUFFICES ASSUME TypeOK, StartInv, [Next]_vars PROVE StartInv'
  BY DEF Inv
<1> USE DEF row, native, requests, executors
<1>1. ASSUME NEW p \in Procs, Instantiate(p) \/ PrepareRaises(p) \/ LaunchRaises(p)
      PROVE  StartInv'
  BY <1>1 DEF Instantiate, PrepareRaises, LaunchRaises, Goto, StartInv, TypeOK
<1>2. ASSUME NEW p \in Procs, Insert(p)
      PROVE  StartInv'
  BY <1>2 DEF Insert, SetStatus, Goto, Return, StartInv, TypeOK
<1>3. ASSUME NEW p \in Procs, Prepare(p)
      PROVE  StartInv'
  BY <1>3 DEF Prepare, Goto, StartInv, TypeOK
<1>4. ASSUME NEW p \in Procs, Bind(p)
      PROVE  StartInv'
  BY <1>4 DEF Bind, SetStatus, Goto, StartInv, TypeOK
<1>5. ASSUME NEW p \in Procs, PrepareFailed(p) \/ LaunchFailed(p)
      PROVE  StartInv'
  BY <1>5 DEF PrepareFailed, LaunchFailed, Halt, SetStatus, Return, StartInv, TypeOK
<1>6. ASSUME NEW p \in Procs, Dispatch(p)
      PROVE  StartInv'
  BY <1>6 DEF Dispatch, MayDispatch, SetStatus, Goto, Return, StartInv, TypeOK
<1>7. ASSUME NEW p \in Procs, Launch(p)
      PROVE  StartInv'
  BY <1>7 DEF Launch, Return, XGoto, StartInv, TypeOK
<1>8. ASSUME NEW p \in Procs, LockBusy(p)
      PROVE  StartInv'
  BY <1>8 DEF LockBusy, Return, Goto, StartInv, TypeOK
<1>9. ASSUME NEW p \in Procs, Recover(p)
      PROVE  StartInv'
  BY <1>9 DEF Recover, SetStatus, Goto, StartInv, TypeOK
<1>10. ASSUME NEW p \in Procs, Executor(p)
       PROVE  StartInv'
  BY <1>10, ExecutorFrame DEF StartInv, TypeOK
<1>11. ASSUME NEW p \in Procs, Crash(p)
       PROVE  StartInv'
  BY <1>11 DEF Crash, Return, XGoto, StartInv, TypeOK
<1>12. CASE Terminate
  BY <1>12 DEF Terminate, SetStatus, StartInv
<1>13. CASE NativeCancel \/ Revoke \/ UNCHANGED vars
  BY <1>13 DEF NativeCancel, Revoke, vars, StartInv
<1>14. QED
  BY <1>1, <1>2, <1>3, <1>4, <1>5, <1>6, <1>7, <1>8, <1>9, <1>10, <1>11, <1>12,
     <1>13 DEF Next, Request

\* The steps of everybody but the executors.
Outside ==
    \/ \E p \in Procs : Instantiate(p) \/ Request(p) \/ Recover(p) \/ Crash(p)
    \/ Terminate
    \/ NativeCancel
    \/ Revoke
    \/ UNCHANGED vars

\* What everybody else may do to the blocks, to the run and to an executor.
LEMMA OutsideFrame ==
  ASSUME TypeOK, StartInv, Outside
  PROVE  /\ UNCHANGED <<steps, begun, evidence, xat>>
         /\ \A b \in Blocks : task'[b] = task[b] \/ task[b] = "running"
         /\ \A p \in Procs : xpc'[p] = xpc[p] \/ xpc'[p] \in {"mark", "done"}
         /\ status' = "completed" <=> status = "completed"
         /\ \/ run' \in {run, "canceled"}
            \/ run' = "created" /\ \A p \in Procs : xpc'[p] = "off"
<1> USE DEF row, native, requests, executors
<1>1. ASSUME NEW p \in Procs, Instantiate(p) \/ PrepareRaises(p) \/ LaunchRaises(p) \/ LockBusy(p)
      PROVE  UNCHANGED <<row, native, executors>>
  BY <1>1 DEF Instantiate, PrepareRaises, LaunchRaises, LockBusy
<1>2. ASSUME NEW p \in Procs, Insert(p) \/ Bind(p) \/ Recover(p) \/ Dispatch(p)
      PROVE  /\ UNCHANGED <<steps, native, executors>>
             /\ status' = "completed" <=> status = "completed"
  BY <1>2 DEF Insert, Bind, Recover, Dispatch, MayDispatch, SetStatus
<1>3. ASSUME NEW p \in Procs, PrepareFailed(p) \/ LaunchFailed(p)
      PROVE  /\ UNCHANGED <<steps, native, executors>>
             /\ status' = "completed" <=> status = "completed"
  BY <1>3 DEF PrepareFailed, LaunchFailed, Halt, SetStatus
<1>4. ASSUME NEW p \in Procs, Prepare(p)
      PROVE  /\ UNCHANGED <<steps, begun, evidence, executors, task, status>>
             /\ run' = "created" /\ \A q \in Procs : xpc'[q] = "off"
  BY <1>4 DEF Prepare, StartInv
<1>5. ASSUME NEW p \in Procs, Launch(p)
      PROVE  /\ UNCHANGED <<row, native, xat>>
             /\ \A q \in Procs : xpc'[q] = xpc[q] \/ xpc'[q] = "mark"
  BY <1>5 DEF Launch, XGoto, TypeOK
<1>6. ASSUME NEW p \in Procs, Crash(p)
      PROVE  /\ UNCHANGED <<row, native, xat>>
             /\ \A q \in Procs : xpc'[q] = xpc[q] \/ xpc'[q] = "done"
  BY <1>6 DEF Crash, XGoto, TypeOK
<1>7. CASE Terminate
  <2>1. \A b \in Blocks : task'[b] = task[b] \/ task[b] = "running"
    BY <1>7 DEF Terminate
  <2>2. QED
    BY <1>7, <2>1 DEF Terminate, SetStatus
<1>8. CASE NativeCancel \/ Revoke \/ UNCHANGED vars
  BY <1>8 DEF NativeCancel, Revoke, vars
<1>9. QED
  BY <1>1, <1>2, <1>3, <1>4, <1>5, <1>6, <1>7, <1>8 DEF Outside, Request

\* A step is one of an executor or one of somebody else.
LEMMA StepCases == [Next]_vars => Outside \/ \E p \in Procs : Executor(p)
  BY DEF Next, Outside

\* Executors apart, only the block at hand changes, and not in these steps.
LEMMA QuietFrame ==
  ASSUME NEW p \in Procs,
         \/ MarkRunning(p) \/ InitContext(p) \/ CheckCanceled(p) \/ HandleResult(p)
         \/ FailNative(p) \/ MarkFailed(p) \/ Refresh(p) \/ MarkCompleted(p)
  PROVE  UNCHANGED <<steps, begun, evidence, task, xat>>
  BY DEF MarkRunning, InitContext, CheckCanceled, HandleResult, FailNative, MarkFailed,
         Refresh, MarkCompleted, row, native, executors

\* A block whose predecessors are completed may leave pending and, with its
\* evidence, be completed.
LEMMA SetOneStep ==
  ASSUME TypeOK, BlockInv, UNCHANGED <<begun, task, evidence>>,
         NEW b \in Blocks, NEW s \in {"running", "needs_human", "completed"},
         steps' = [steps EXCEPT ![b] = s],
         steps[b] # "completed",
         \A c \in 1 .. (b - 1) : steps[c] = "completed",
         s = "completed" => task[b] = "completed" /\ evidence[b] /\ begun[b] = 1
  PROVE  BlockInv'
<1> SUFFICES ASSUME NEW d \in Blocks
             PROVE  /\ begun[d] \in {0, 1}
                    /\ steps'[d] = "pending" => begun[d] = 0
                    /\ steps'[d] = "completed" =>
                           task[d] = "completed" /\ evidence[d] /\ begun[d] = 1
                    /\ steps'[d] # "pending" => \A c \in 1 .. (d - 1) : steps'[c] = "completed"
  BY DEF BlockInv
<1>1. steps'[b] = s /\ \A c \in Blocks : c # b => steps'[c] = steps[c]
  BY DEF TypeOK
<1>2. \A c \in 1 .. (d - 1) : c \in Blocks
  BY InstanceAssumption DEF Blocks
<1>3. CASE d = b
  BY <1>1, <1>2, <1>3 DEF BlockInv, Blocks
<1>4. CASE d # b
  <2>1. steps[d] # "pending" => \A c \in 1 .. (d - 1) : steps[c] = "completed"
    BY DEF BlockInv
  <2>2. steps[d] # "pending" => \A c \in 1 .. (d - 1) : c # b
    BY <2>1
  <2>3. QED
    BY <1>1, <1>2, <1>4, <2>1, <2>2 DEF BlockInv
<1>5. QED
  BY <1>3, <1>4

\* The steps of the blocks stay in order and keep their evidence.
LEMMA BlockStep == Inv /\ [Next]_vars => BlockInv'
<1> SUFFICES ASSUME TypeOK, StartInv, BlockInv, AtInv, [Next]_vars PROVE BlockInv'
  BY DEF Inv
<1> USE DEF row, native, requests, executors
<1>1. CASE Outside
  <2>1. UNCHANGED <<steps, begun, evidence>>
    BY <1>1, OutsideFrame
  <2>2. \A b \in Blocks : task[b] = "completed" => task'[b] = "completed"
    BY <1>1, OutsideFrame
  <2>3. QED
    BY <2>1, <2>2 DEF BlockInv
<1>2. ASSUME NEW p \in Procs, BeforeBlock(p)
      PROVE  BlockInv'
  <2> DEFINE b == xat[p]
  <2>1. b \in Blocks /\ UNCHANGED <<begun, task, evidence>>
    BY <1>2 DEF BeforeBlock, TypeOK
  <2>2. CASE MayBegin(b)
    <3>1. steps' = [steps EXCEPT ![b] = "running"] /\ steps[b] = "pending"
      BY <1>2, <2>2 DEF BeforeBlock, MayBegin
    <3>2. \A c \in 1 .. (b - 1) : steps[c] = "completed"
      BY <2>1, <2>2, InstanceAssumption DEF MayBegin, Remaining, Blocks
    <3>3. QED
      BY <2>1, <3>1, <3>2, SetOneStep
  <2>3. CASE ~MayBegin(b)
    BY <1>2, <2>1, <2>3 DEF BeforeBlock, BlockInv
  <2>4. QED
    BY <2>2, <2>3
<1>3. ASSUME NEW p \in Procs, Browse(p)
      PROVE  BlockInv'
  BY <1>3 DEF Browse, BlockInv, AtInv, TypeOK
<1>4. ASSUME NEW p \in Procs, NEW end \in Ends, NEW valid \in BOOLEAN,
             BrowseEnds(p, end, valid)
      PROVE  BlockInv'
  BY <1>4 DEF BrowseEnds, BlockInv, AtInv, TypeOK
<1>5. ASSUME NEW p \in Procs, BlockRaises(p)
      PROVE  BlockInv'
  BY <1>5 DEF BlockRaises, BlockInv, TypeOK
<1>6. ASSUME NEW p \in Procs, AfterBlock(p)
      PROVE  BlockInv'
  <2> DEFINE b == xat[p]
  <2>1. b \in Blocks /\ UNCHANGED <<begun, task, evidence>>
    BY <1>6 DEF AfterBlock, TypeOK
  <2>2. steps[b] = "running" /\ begun[b] = 1
    BY <1>6 DEF AfterBlock, AtInv
  <2>3. \A c \in 1 .. (b - 1) : steps[c] = "completed"
    BY <2>1, <2>2 DEF BlockInv
  <2>4. CASE MayFinish(b) /\ Proven(b)
    <3>1. steps' = [steps EXCEPT ![b] = "completed"]
      BY <1>6, <2>4 DEF AfterBlock
    <3>2. task[b] = "completed" /\ evidence[b]
      BY <2>4 DEF Proven
    <3>3. QED
      BY <2>1, <2>2, <2>3, <3>1, <3>2, SetOneStep
  <2>5. CASE ~(MayFinish(b) /\ Proven(b))
    <3>1. steps' \in {steps, [steps EXCEPT ![b] = "needs_human"]}
      BY <1>6, <2>5 DEF AfterBlock
    <3>2. QED
      BY <2>1, <2>2, <2>3, <3>1, SetOneStep DEF BlockInv
  <2>6. QED
    BY <2>4, <2>5
<1>7. ASSUME NEW p \in Procs,
             \/ MarkRunning(p) \/ InitContext(p) \/ CheckCanceled(p) \/ HandleResult(p)
             \/ FailNative(p) \/ MarkFailed(p) \/ Refresh(p) \/ MarkCompleted(p)
      PROVE  BlockInv'
  BY <1>7, QuietFrame DEF BlockInv
<1>8. QED
  BY <1>1, <1>2, <1>3, <1>4, <1>5, <1>6, <1>7, StepCases DEF Executor

\* An executor at work only moves on from its own block.
LEMMA ExecutorsApart ==
  ASSUME StartInv, NEW p \in Procs, NEW q \in Procs, xpc[p] # "off", xpc[q] # "off"
  PROVE  p = q
  BY DEF StartInv

\* The executor keeps working on the block it marked.
LEMMA AtStep == Inv /\ [Next]_vars => AtInv'
<1> SUFFICES ASSUME TypeOK, StartInv, BlockInv, AtInv, [Next]_vars PROVE AtInv'
  BY DEF Inv
<1> USE DEF row, native, requests, executors
<1>1. CASE Outside
  <2>1. UNCHANGED <<steps, begun, xat>>
    BY <1>1, OutsideFrame
  <2>2. \A p \in Procs : xpc'[p] = xpc[p] \/ xpc'[p] \in {"mark", "done"}
    BY <1>1, OutsideFrame
  <2>3. QED
    BY <2>1, <2>2 DEF AtInv
<1>2. SUFFICES ASSUME NEW p \in Procs, Executor(p), NEW q \in Procs
               PROVE  /\ xpc'[q] = "browse" => steps'[xat'[q]] = "running" /\ begun'[xat'[q]] = 0
                      /\ xpc'[q] \in {"browsing", "result", "after"} =>
                             steps'[xat'[q]] = "running" /\ begun'[xat'[q]] = 1
  BY <1>1, StepCases DEF AtInv
<1>3. CASE q # p
  <2>1. xpc[q] = "off"
    BY <1>2, <1>3, ExecutorFrame, ExecutorsApart
  <2>2. xpc'[q] = "off"
    BY <1>2, <1>3, <2>1, ExecutorFrame DEF TypeOK
  <2>3. QED
    BY <2>2
<1>4. CASE q = p
  <2>1. CASE BeforeBlock(p)
    <3>1. begun[xat[p]] = 0 \/ steps[xat[p]] # "pending"
      BY DEF BlockInv, TypeOK
    <3>2. QED
      BY <1>4, <2>1, <3>1 DEF BeforeBlock, MayBegin, XGoto, TypeOK
  <2>2. CASE Browse(p)
    BY <1>4, <2>2 DEF Browse, XGoto, AtInv, TypeOK
  <2>3. ASSUME NEW end \in Ends, NEW valid \in BOOLEAN, BrowseEnds(p, end, valid)
        PROVE  /\ xpc'[p] = "result"
               /\ steps'[xat'[p]] = "running" /\ begun'[xat'[p]] = 1
    BY <2>3 DEF BrowseEnds, XGoto, AtInv, TypeOK
  <2>4. CASE HandleResult(p)
    BY <1>4, <2>4 DEF HandleResult, XGoto, AtInv, TypeOK
  <2>5. ASSUME \/ MarkRunning(p) \/ InitContext(p) \/ CheckCanceled(p) \/ BlockRaises(p)
               \/ AfterBlock(p) \/ FailNative(p) \/ MarkFailed(p) \/ Refresh(p)
               \/ MarkCompleted(p)
        PROVE  xpc'[p] \notin {"browse", "browsing", "result", "after"}
    BY <2>5 DEF MarkRunning, InitContext, CheckCanceled, BlockRaises, AfterBlock,
                FailNative, MarkFailed, Refresh, MarkCompleted, XGoto, TypeOK
  <2>6. QED
    BY <1>2, <1>4, <2>1, <2>2, <2>3, <2>4, <2>5 DEF Executor
<1>5. QED
  BY <1>3, <1>4

\* The instance is completed together with its last block.
LEMMA DoneStep == Inv /\ [Next]_vars => DoneInv'
<1> SUFFICES ASSUME TypeOK, StartInv, DoneInv, [Next]_vars PROVE DoneInv'
  BY DEF Inv
<1> USE DEF row, native, requests, executors
<1>1. CASE Outside
  BY <1>1, OutsideFrame DEF DoneInv
<1>2. ASSUME NEW p \in Procs, BeforeBlock(p)
      PROVE  DoneInv'
  BY <1>2 DEF BeforeBlock, MayBegin, DoneInv
<1>3. ASSUME NEW p \in Procs, AfterBlock(p)
      PROVE  DoneInv'
  <2>1. CASE MayFinish(xat[p]) /\ Proven(xat[p])
    <3>1. status' = "completed" => \A c \in Blocks : c # xat[p] => steps[c] = "completed"
      BY <1>3, <2>1 DEF AfterBlock, SetStatus, Remaining
    <3>2. steps' = [steps EXCEPT ![xat[p]] = "completed"]
      BY <1>3, <2>1 DEF AfterBlock
    <3>3. QED
      BY <3>1, <3>2 DEF DoneInv, TypeOK
  <2>2. CASE ~(MayFinish(xat[p]) /\ Proven(xat[p]))
    BY <1>3, <2>2 DEF AfterBlock, SetStatus, MayFinish, DoneInv
  <2>3. QED
    BY <2>1, <2>2
<1>4. ASSUME NEW p \in Procs, FailNative(p)
      PROVE  DoneInv'
  BY <1>4 DEF FailNative, Halt, SetStatus, DoneInv
<1>5. ASSUME NEW p \in Procs,
             \/ MarkRunning(p) \/ InitContext(p) \/ CheckCanceled(p) \/ Browse(p)
             \/ (\E end \in Ends, valid \in BOOLEAN : BrowseEnds(p, end, valid))
             \/ BlockRaises(p) \/ HandleResult(p) \/ MarkFailed(p) \/ Refresh(p)
             \/ MarkCompleted(p)
      PROVE  UNCHANGED row
  BY <1>5 DEF MarkRunning, InitContext, CheckCanceled, Browse, BrowseEnds, BlockRaises,
              HandleResult, MarkFailed, Refresh, MarkCompleted
<1>6. UNCHANGED row => DoneInv'
  BY DEF DoneInv
<1>7. QED
  BY <1>1, <1>2, <1>3, <1>4, <1>5, <1>6, StepCases DEF Executor

\* The quiet steps of an executor leave the row alone.
LEMMA RowFrame ==
  ASSUME NEW p \in Procs,
         \/ MarkRunning(p) \/ InitContext(p) \/ CheckCanceled(p) \/ Browse(p)
         \/ (\E end \in Ends, valid \in BOOLEAN : BrowseEnds(p, end, valid))
         \/ BlockRaises(p) \/ HandleResult(p) \/ MarkFailed(p) \/ Refresh(p)
         \/ MarkCompleted(p)
  PROVE  UNCHANGED row
  BY DEF MarkRunning, InitContext, CheckCanceled, Browse, BrowseEnds, BlockRaises,
         HandleResult, MarkFailed, Refresh, MarkCompleted

\* Nothing moves a settled row, and a human only gets it terminated.
LEMMA SettledStep ==
  [Next]_vars =>
    /\ status \in {"completed", "terminated"} => UNCHANGED <<status, version>>
    /\ status = "needs_human" => status' \in {"needs_human", "terminated"}
<1> DEFINE Settled ==
      /\ status \in {"completed", "terminated"} => UNCHANGED <<status, version>>
      /\ status = "needs_human" => status' \in {"needs_human", "terminated"}
<1> SUFFICES ASSUME [Next]_vars PROVE Settled
  OBVIOUS
<1> USE DEF row
<1>1. ASSUME NEW p \in Procs,
             Instantiate(p) \/ Insert(p) \/ Prepare(p) \/ PrepareRaises(p) \/ Bind(p)
      PROVE  Settled
  BY <1>1 DEF Instantiate, Insert, Prepare, PrepareRaises, Bind
<1>2. ASSUME NEW p \in Procs, PrepareFailed(p) \/ LaunchFailed(p) \/ FailNative(p)
      PROVE  Settled
  BY <1>2 DEF PrepareFailed, LaunchFailed, FailNative, Halt
<1>3. ASSUME NEW p \in Procs,
             Dispatch(p) \/ Launch(p) \/ LaunchRaises(p) \/ LockBusy(p) \/ Recover(p)
      PROVE  Settled
  BY <1>3 DEF Dispatch, MayDispatch, Launch, LaunchRaises, LockBusy, Recover
<1>4. ASSUME NEW p \in Procs, BeforeBlock(p)
      PROVE  Settled
  BY <1>4 DEF BeforeBlock, MayBegin
<1>5. ASSUME NEW p \in Procs, AfterBlock(p)
      PROVE  Settled
  BY <1>5 DEF AfterBlock, MayFinish
<1>6. ASSUME NEW p \in Procs, Executor(p), UNCHANGED row
      PROVE  Settled
  BY <1>6
<1>7. ASSUME NEW p \in Procs, Crash(p)
      PROVE  Settled
  BY <1>7 DEF Crash
<1>8. CASE Terminate
  BY <1>8 DEF Terminate, SetStatus
<1>9. CASE NativeCancel \/ Revoke \/ UNCHANGED vars
  BY <1>9 DEF NativeCancel, Revoke, vars
<1>10. QED
  BY <1>1, <1>2, <1>3, <1>4, <1>5, <1>6, <1>7, <1>8, <1>9, RowFrame
  DEF Next, Request, Executor

\* The native run is completed for a completed instance only.
LEMMA SuccessStep == Inv /\ [Next]_vars => SuccessInv'
<1> SUFFICES ASSUME Inv, [Next]_vars PROVE SuccessInv'
  OBVIOUS
<1> USE DEF row, native, requests, executors
<1>0. /\ TypeOK /\ StartInv /\ BlockInv /\ AtInv /\ SuccessInv
      /\ status = "completed" => status' = "completed"
  BY SettledStep DEF Inv
<1>1. CASE Outside
  BY <1>0, <1>1, OutsideFrame DEF SuccessInv
<1>2. SUFFICES ASSUME NEW p \in Procs, Executor(p)
               PROVE  SuccessInv'
  BY <1>1, StepCases
<1>3. \A q \in Procs : q # p => xpc'[q] = "off"
  BY <1>0, <1>2, ExecutorFrame, ExecutorsApart DEF TypeOK
<1>4. SUFFICES /\ run' = "completed" => status' = "completed"
               /\ xpc'[p] = "complete" => status' = "completed"
               /\ xpc'[p] = "refresh" => run' \in {"canceled", "failed"} \/ status' = "completed"
  BY <1>3 DEF SuccessInv
<1>5. CASE \/ MarkRunning(p) \/ InitContext(p) \/ CheckCanceled(p) \/ BeforeBlock(p)
           \/ Browse(p) \/ BlockRaises(p) \/ FailNative(p) \/ MarkFailed(p)
  <2>1. run' \in {run, "running", "failed"}
    BY <1>5 DEF MarkRunning, InitContext, CheckCanceled, BeforeBlock, Browse, BlockRaises,
                FailNative, MarkFailed
  <2>2. /\ xpc'[p] # "complete"
        /\ xpc'[p] = "refresh" => run' \in {"canceled", "failed"}
    BY <1>0, <1>5 DEF MarkRunning, InitContext, CheckCanceled, BeforeBlock, Browse,
                      BlockRaises, FailNative, MarkFailed, XGoto, TypeOK
  <2>3. QED
    BY <1>0, <2>1, <2>2 DEF SuccessInv
<1>6. ASSUME NEW end \in Ends, NEW valid \in BOOLEAN, BrowseEnds(p, end, valid)
      PROVE  run' = run /\ xpc'[p] = "result"
  BY <1>0, <1>6 DEF BrowseEnds, XGoto, TypeOK
<1>7. CASE HandleResult(p)
  BY <1>0, <1>7 DEF HandleResult, XGoto, TypeOK, SuccessInv
<1>8. CASE AfterBlock(p)
  <2>1. run' = run /\ xpc'[p] \in {"check", "refresh", "fail"}
    BY <1>0, <1>8 DEF AfterBlock, XGoto, TypeOK
  <2>2. xpc'[p] = "refresh" => status' = "completed"
    <3>1. SUFFICES ASSUME xpc'[p] = "refresh" PROVE status' = "completed"
      OBVIOUS
    <3>2. xat[p] = N /\ MayFinish(xat[p]) /\ Proven(xat[p])
      BY <1>0, <1>8, <3>1 DEF AfterBlock, XGoto, TypeOK
    <3>3. steps[N] = "running" /\ N \in Blocks
      BY <1>0, <3>2 DEF MayFinish, TypeOK
    <3>4. \A c \in Blocks : c # N => steps[c] = "completed"
      BY <1>0, <3>3, InstanceAssumption DEF BlockInv, Blocks
    <3>5. Remaining = {N}
      BY <3>3, <3>4 DEF Remaining
    <3>6. QED
      BY <1>8, <3>2, <3>5 DEF AfterBlock, SetStatus
  <2>3. QED
    BY <1>0, <2>1, <2>2 DEF SuccessInv
<1>9. CASE Refresh(p)
  BY <1>0, <1>9 DEF Refresh, XGoto, TypeOK, SuccessInv
<1>10. CASE MarkCompleted(p)
  BY <1>0, <1>10 DEF MarkCompleted, XGoto, TypeOK, SuccessInv
<1>11. QED
  BY <1>0, <1>2, <1>5, <1>6, <1>7, <1>8, <1>9, <1>10 DEF Executor, SuccessInv

\* Inv holds initially and is kept by every step.
LEMMA InvInit == Init => Inv
<1> SUFFICES ASSUME Init PROVE Inv
  OBVIOUS
<1>1. TypeOK
  BY TypeInit
<1>2. QED
  BY <1>1 DEF Init, Inv, StartInv, BlockInv, AtInv, DoneInv, SuccessInv

\* Inv is an invariant of the specification.
THEOREM Invariance == Spec => []Inv
<1>1. Inv /\ [Next]_vars => Inv'
  BY TypeStep, StartStep, BlockStep, AtStep, DoneStep, SuccessStep DEF Inv
<1>2. QED
  BY InvInit, <1>1, PTL DEF Spec

(***************************************************************************)
(* The safety properties.                                                  *)
(***************************************************************************)

\* Retries and recoveries never start a second native executor.
THEOREM OneNativeExecutor == Spec => []OneExecutor
<1>1. Inv => OneExecutor
  BY DEF Inv, StartInv, OneExecutor
<1>2. QED
  BY <1>1, Invariance, PTL

\* Blocks are browsed once, in order, after their predecessors were proven.
THEOREM OrderedBlocks == Spec => []BlocksInOrder
<1>1. Inv => BlocksInOrder
  <2> SUFFICES ASSUME Inv, NEW b \in Blocks, begun[b] > 0
               PROVE  /\ begun[b] = 1
                      /\ steps[b] # "pending"
                      /\ \A c \in 1 .. (b - 1) : steps[c] = "completed" /\ evidence[c]
    BY DEF BlocksInOrder
  <2>1. begun[b] = 1 /\ steps[b] # "pending"
    BY DEF Inv, BlockInv
  <2>2. \A c \in 1 .. (b - 1) : c \in Blocks
    BY InstanceAssumption DEF Blocks
  <2>3. QED
    BY <2>1, <2>2 DEF Inv, BlockInv
<1>2. QED
  BY <1>1, Invariance, PTL

\* An instance is completed only with the evidence of all its blocks.
THEOREM ProvenCompletion == Spec => []CompletedIsProven
<1>1. Inv => CompletedIsProven
  BY DEF Inv, BlockInv, DoneInv, CompletedIsProven
<1>2. QED
  BY <1>1, Invariance, PTL

\* The native engine reports success for completed instances only.
THEOREM SharedSuccess == Spec => []NativeSuccessIsShared
<1>1. Inv => NativeSuccessIsShared
  BY DEF Inv, SuccessInv, NativeSuccessIsShared
<1>2. QED
  BY <1>1, Invariance, PTL

\* No late exception moves a settled instance.
THEOREM SettledForGood == Spec => SettledStays
  BY SettledStep, PTL DEF Spec, SettledStays

\* Only a running instance has its steps or its plan moved.
THEOREM FrozenWhenStopped == Spec => StoppedInstanceFrozen
<1>1. [Next]_vars => (status # "running" => UNCHANGED <<steps, plan>>)
  <2> SUFFICES ASSUME [Next]_vars, status # "running" PROVE UNCHANGED <<steps, plan>>
    OBVIOUS
  <2> USE DEF row, native, requests, executors
  <2>1. ASSUME NEW p \in Procs, Executor(p)
        PROVE  UNCHANGED <<steps, plan>>
    <3>1. CASE BeforeBlock(p) \/ AfterBlock(p) \/ FailNative(p)
      BY <3>1 DEF BeforeBlock, MayBegin, AfterBlock, MayFinish, FailNative
    <3>2. QED
      BY <2>1, <3>1, RowFrame DEF Executor
  <2>2. ASSUME NEW p \in Procs, Request(p)
        PROVE  UNCHANGED <<steps, plan>>
    BY <2>2 DEF Request, Insert, Prepare, PrepareRaises, Bind, PrepareFailed, Dispatch,
                Launch, LaunchRaises, LaunchFailed, LockBusy
  <2>3. ASSUME NEW p \in Procs, Instantiate(p) \/ Recover(p) \/ Crash(p)
        PROVE  UNCHANGED <<steps, plan>>
    BY <2>3 DEF Instantiate, Recover, Crash
  <2>4. CASE Terminate \/ NativeCancel \/ Revoke \/ UNCHANGED vars
    BY <2>4 DEF Terminate, NativeCancel, Revoke, vars
  <2>5. QED
    BY <2>1, <2>2, <2>3, <2>4 DEF Next
<1>2. QED
  BY <1>1, PTL DEF Spec, StoppedInstanceFrozen

(***************************************************************************)
(* The instance implements WorkflowContract.                               *)
(***************************************************************************)
Touched == {b \in Blocks : steps[b] # "pending"}
Completed == {b \in Blocks : steps[b] = "completed"}

\* The first k blocks are k blocks.
LEMMA Prefix == \A k \in Nat : Cardinality(1 .. k) = k
<1> SUFFICES ASSUME NEW k \in Nat PROVE Cardinality(1 .. k) = k
  OBVIOUS
<1>1. Cardinality(1 .. k) = IF 1 > k THEN 0 ELSE k - 1 + 1
  BY FS_Interval
<1>2. QED
  BY <1>1

\* Before a block is begun its predecessors are all there is.
LEMMA CountsBefore ==
  ASSUME TypeOK, BlockInv, NEW b \in Blocks, steps[b] = "pending",
         \A c \in 1 .. (b - 1) : steps[c] = "completed"
  PROVE  Touched = 1 .. (b - 1) /\ Completed = 1 .. (b - 1)
<1>1. \A c \in Blocks : b < c => steps[c] = "pending"
  BY InstanceAssumption DEF BlockInv, Blocks
<1>2. \A c \in Blocks : c < b => steps[c] = "completed"
  BY InstanceAssumption DEF Blocks
<1>3. QED
  BY <1>1, <1>2, InstanceAssumption DEF Touched, Completed, Blocks

\* While a block is at work it is the last one that was touched.
LEMMA CountsAt ==
  ASSUME TypeOK, BlockInv, NEW b \in Blocks, steps[b] \in {"running", "needs_human"}
  PROVE  Touched = 1 .. b /\ Completed = 1 .. (b - 1)
<1>1. \A c \in Blocks : b < c => steps[c] = "pending"
  BY InstanceAssumption DEF BlockInv, Blocks
<1>2. \A c \in Blocks : c < b => steps[c] = "completed"
  BY InstanceAssumption DEF BlockInv, Blocks
<1>3. QED
  BY <1>1, <1>2, InstanceAssumption DEF Touched, Completed, Blocks

\* The phase of every status.
LEMMA PhaseOf ==
  /\ status = "absent" => Phase = "none"
  /\ status \in {"preparing", "ready"} => Phase = "open"
  /\ status = "running" => Phase = "working"
  /\ status = "needs_human" => Phase = "human"
  /\ status \in {"completed", "terminated"} => Phase = status
  BY DEF Phase

\* The row of an instance nobody asked for is the initial state of the contract.
LEMMA ContractInit == Init => Contract!Init
<1> SUFFICES ASSUME Init PROVE Contract!Init
  OBVIOUS
<1>1. Touched = {} /\ Completed = {}
  BY DEF Init, Touched, Completed
<1>2. Phase = "none"
  BY PhaseOf DEF Init
<1>3. QED
  BY <1>1, <1>2, FS_EmptySet DEF Contract!Init, Touched, Completed

\* The status decides what a step with the same blocks is in the contract.
LEMMA StatusStep ==
  ASSUME TypeOK, TypeOK', UNCHANGED <<Touched, Completed>>,
         \/ status' = status
         \/ status = "absent" /\ status' = "preparing"
         \/ status = "preparing" /\ status' = "ready"
         \/ status = "ready" /\ status' = "running"
         \/ status \in Unsettled /\ status' = "needs_human"
         \/ status \in Unsettled \cup {"needs_human"} /\ status' = "terminated"
  PROVE  Contract!Next \/ UNCHANGED Contract!vars
<1>1. UNCHANGED <<Cardinality(Touched), Cardinality(Completed)>>
  OBVIOUS
<1>2. CASE status' = status \/ (status = "preparing" /\ status' = "ready")
  <2>1. Phase' = Phase
    BY <1>2 DEF Phase
  <2>2. QED
    BY <1>1, <2>1 DEF Contract!vars, Touched, Completed
<1>3. CASE status = "absent" /\ status' = "preparing"
  <2>1. Phase = "none" /\ Phase' = "open"
    BY <1>3 DEF Phase
  <2>2. QED
    BY <1>1, <2>1 DEF Contract!Next, Contract!Create, Touched, Completed
<1>4. CASE status = "ready" /\ status' = "running"
  <2>1. Phase = "open" /\ Phase' = "working"
    BY <1>4 DEF Phase
  <2>2. QED
    BY <1>1, <2>1 DEF Contract!Next, Contract!Start, Touched, Completed
<1>5. CASE status \in Unsettled /\ status' = "needs_human"
  <2>1. Phase \in {"open", "working"} /\ Phase' = "human"
    BY <1>5 DEF Phase, Unsettled
  <2>2. QED
    BY <1>1, <2>1 DEF Contract!Next, Contract!Halt, Touched, Completed
<1>6. CASE status \in Unsettled \cup {"needs_human"} /\ status' = "terminated"
  <2>1. Phase \in {"open", "working", "human"} /\ Phase' = "terminated"
    BY <1>6 DEF Phase, Unsettled
  <2>2. QED
    BY <1>1, <2>1 DEF Contract!Next, Contract!Terminate, Touched, Completed
<1>7. QED
  BY <1>2, <1>3, <1>4, <1>5, <1>6

\* Marking a block running is the contract's Begin.
LEMMA BeginStep ==
  ASSUME Inv, NEW p \in Procs, BeforeBlock(p)
  PROVE  Contract!Next \/ UNCHANGED Contract!vars
<1> DEFINE b == xat[p]
<1> USE DEF row, native, requests, executors
<1>1. b \in Blocks /\ TypeOK /\ BlockInv /\ status' = status
  BY DEF Inv, TypeOK, BeforeBlock
<1>2. CASE MayBegin(b)
  <2>1. /\ steps' = [steps EXCEPT ![b] = "running"]
        /\ steps[b] = "pending"
        /\ status = "running"
    BY <1>2 DEF BeforeBlock, MayBegin
  <2>2. \A c \in 1 .. (b - 1) : steps[c] = "completed"
    BY <1>1, <1>2, InstanceAssumption DEF MayBegin, Remaining, Blocks
  <2>3. Touched = 1 .. (b - 1) /\ Completed = 1 .. (b - 1)
    BY <1>1, <2>1, <2>2, CountsBefore
  <2>4. Touched' = Touched \cup {b} /\ Completed' = Completed
    BY <1>1, <2>1 DEF Touched, Completed, TypeOK
  <2>5. Touched' = 1 .. b
    BY <1>1, <2>3, <2>4, InstanceAssumption DEF Blocks
  <2>6. b \in Nat /\ b - 1 \in Nat /\ b <= N
    BY <1>1, InstanceAssumption DEF Blocks
  <2>7. /\ Cardinality(Touched) = b - 1 /\ Cardinality(Touched') = b
        /\ Cardinality(Completed) = b - 1 /\ Cardinality(Completed') = b - 1
    BY <2>3, <2>4, <2>5, <2>6, Prefix
  <2>8. Phase = "working" /\ Phase' = "working"
    BY <1>1, <2>1 DEF Phase
  <2>9. /\ Cardinality(Touched) = Cardinality(Completed)
        /\ Cardinality(Touched) < N
        /\ Cardinality(Touched') = Cardinality(Touched) + 1
        /\ Cardinality(Completed') = Cardinality(Completed)
    BY <2>6, <2>7, InstanceAssumption
  <2>10. QED
    BY <2>8, <2>9 DEF Contract!Next, Contract!Begin, Touched, Completed
<1>3. CASE ~MayBegin(b)
  <2>1. UNCHANGED <<steps, status>>
    BY <1>1, <1>3 DEF BeforeBlock
  <2>2. QED
    BY <2>1 DEF Contract!vars, Phase
<1>4. QED
  BY <1>2, <1>3

\* Storing the evidence of a block is the contract's Finish.
LEMMA FinishStep ==
  ASSUME Inv, TypeOK', NEW p \in Procs, AfterBlock(p)
  PROVE  Contract!Next \/ UNCHANGED Contract!vars
<1> DEFINE b == xat[p]
<1> USE DEF row, native, requests, executors
<1>1. b \in Blocks /\ TypeOK /\ BlockInv /\ steps[b] = "running"
  BY DEF Inv, TypeOK, AtInv, AfterBlock
<1>2. Touched = 1 .. b /\ Completed = 1 .. (b - 1)
  BY <1>1, CountsAt
<1>3. CASE MayFinish(b) /\ Proven(b)
  <2>1. /\ steps' = [steps EXCEPT ![b] = "completed"]
        /\ status = "running"
        /\ status' = IF Remaining = {b} THEN "completed" ELSE "running"
    BY <1>3 DEF AfterBlock, MayFinish, SetStatus
  <2>2. Touched' = Touched /\ Completed' = Completed \cup {b}
    BY <1>1, <2>1 DEF Touched, Completed, TypeOK
  <2>3. Completed' = 1 .. b
    BY <1>1, <1>2, <2>2, InstanceAssumption DEF Blocks
  <2>4. b \in Nat /\ b - 1 \in Nat /\ b <= N /\ N \in Nat
    BY <1>1, InstanceAssumption DEF Blocks
  <2>5. /\ Cardinality(Touched) = b /\ Cardinality(Touched') = b
        /\ Cardinality(Completed) = b - 1 /\ Cardinality(Completed') = b
    BY <1>2, <2>2, <2>3, <2>4, Prefix
  <2>6. Remaining = {b} <=> b = N
    <3>1. Remaining = b .. N
      BY <1>2, <2>4 DEF Remaining, Completed, Blocks
    <3>2. QED
      BY <2>4, <3>1
  <2>7. Phase = "working" /\ Phase' = IF b = N THEN "completed" ELSE "working"
    BY <2>1, <2>6 DEF Phase
  <2>8. QED
    BY <2>4, <2>5, <2>7 DEF Contract!Next, Contract!Finish, Touched, Completed
<1>4. CASE MayFinish(b) /\ ~Proven(b)
  <2>1. /\ steps' = [steps EXCEPT ![b] = "needs_human"]
        /\ status = "running" /\ status' = "needs_human"
    BY <1>4 DEF AfterBlock, MayFinish, SetStatus
  <2>2. UNCHANGED <<Touched, Completed>>
    BY <1>1, <2>1 DEF Touched, Completed, TypeOK
  <2>3. QED
    BY <1>1, <2>1, <2>2, StatusStep DEF Unsettled
<1>5. CASE ~MayFinish(b)
  <2>1. UNCHANGED <<steps, status>>
    BY <1>5 DEF AfterBlock
  <2>2. QED
    BY <2>1 DEF Contract!vars, Phase
<1>6. QED
  BY <1>3, <1>4, <1>5

\* Every step of the instance is one of the contract or a stutter.
LEMMA ContractStep == Inv /\ [Next]_vars => [Contract!Next]_Contract!vars
<1> SUFFICES ASSUME Inv, [Next]_vars PROVE Contract!Next \/ UNCHANGED Contract!vars
  OBVIOUS
<1> USE DEF row, native, requests, executors
<1>0. TypeOK /\ TypeOK' /\ StartInv
  BY TypeStep DEF Inv
<1>1. UNCHANGED steps => UNCHANGED <<Touched, Completed>>
  BY DEF Touched, Completed
<1>2. UNCHANGED <<steps, status>> => Contract!Next \/ UNCHANGED Contract!vars
  BY DEF Contract!vars, Phase
<1>3. ASSUME NEW p \in Procs,
             Insert(p) \/ Bind(p) \/ Dispatch(p) \/ Recover(p)
      PROVE  Contract!Next \/ UNCHANGED Contract!vars
  <2>1. /\ UNCHANGED steps
        /\ \/ status' = status
           \/ status = "absent" /\ status' = "preparing"
           \/ status = "preparing" /\ status' = "ready"
           \/ status = "ready" /\ status' = "running"
           \/ status \in Unsettled /\ status' = "needs_human"
           \/ status \in Unsettled \cup {"needs_human"} /\ status' = "terminated"
    BY <1>3 DEF Insert, Bind, Dispatch, MayDispatch, Recover, SetStatus, Unsettled
  <2>2. QED
    BY <1>0, <1>1, <2>1, StatusStep
<1>4. ASSUME NEW p \in Procs, PrepareFailed(p) \/ LaunchFailed(p) \/ FailNative(p)
      PROVE  Contract!Next \/ UNCHANGED Contract!vars
  <2>1. status # "absent"
    BY <1>0, <1>4 DEF PrepareFailed, LaunchFailed, FailNative, StartInv
  <2>2. UNCHANGED steps /\ (status' = status \/ (status \in Unsettled /\ status' = "needs_human"))
    BY <1>0, <1>4, <2>1 DEF PrepareFailed, LaunchFailed, FailNative, Halt, SetStatus,
                            TypeOK, InstanceStatuses
  <2>3. QED
    BY <1>0, <1>1, <2>2, StatusStep
<1>5. ASSUME NEW p \in Procs,
             \/ Instantiate(p) \/ Prepare(p) \/ PrepareRaises(p) \/ Launch(p)
             \/ LaunchRaises(p) \/ LockBusy(p) \/ Crash(p)
      PROVE  UNCHANGED <<steps, status>>
  BY <1>5 DEF Instantiate, Prepare, PrepareRaises, Launch, LaunchRaises, LockBusy, Crash
<1>6. CASE NativeCancel \/ Revoke \/ UNCHANGED vars
  BY <1>2, <1>6 DEF NativeCancel, Revoke, vars
<1>7. ASSUME NEW p \in Procs, Executor(p)
      PROVE  Contract!Next \/ UNCHANGED Contract!vars
  <2>1. CASE BeforeBlock(p)
    BY <2>1, BeginStep
  <2>2. CASE AfterBlock(p)
    BY <1>0, <2>2, FinishStep
  <2>3. CASE FailNative(p)
    BY <1>4, <2>3
  <2>4. CASE UNCHANGED row
    BY <1>2, <2>4
  <2>5. QED
    BY <1>7, <2>1, <2>2, <2>3, <2>4, RowFrame DEF Executor
<1>8. CASE Terminate
  <2>1. UNCHANGED steps /\ status \in Unsettled \cup {"needs_human"} /\ status' = "terminated"
    BY <1>8 DEF Terminate, SetStatus, Unsettled
  <2>2. QED
    BY <1>0, <1>1, <2>1, StatusStep
<1>9. QED
  BY <1>2, <1>3, <1>4, <1>5, <1>6, <1>7, <1>8 DEF Next, Request

\* Requests, guards and executor implement the contract of the workflow API.
THEOREM Implementation == Spec => ImplementsContract
<1>1. QED
  BY ContractInit, ContractStep, Invariance, PTL DEF Spec, ImplementsContract, Contract!Spec

===============================================================================
