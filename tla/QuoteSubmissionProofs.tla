------------------------- MODULE QuoteSubmissionProofs -------------------------
(***************************************************************************)
(* Theorems about QuoteSubmission for any number of clients, workers, keys,*)
(* attempts and faults: its types, one browser execution per key, cleanups *)
(* that spare the owner of the key, no stray task without a fault, and the *)
(* contract of the key.  None of them relies on the lock of a worker: only *)
(* the unique index of the database keeps the requests apart.              *)
(***************************************************************************)
EXTENDS QuoteSubmission, TLAPS

(***************************************************************************)
(* The invariant.                                                          *)
(***************************************************************************)

\* Before the native task of the attempt exists, and while it is to be attached
\* or cleaned up.
Early == {"waiting", "lookup", "assess", "create"}
Late == {"attach", "resolve", "cancel_duplicate", "cancel_refused"}

\* A key belongs to one task, which exists; only such a task has an approval.
AttachedInv ==
    /\ \A t, u \in attached : KeyOf(t) = KeyOf(u) => t = u
    /\ \A t \in attached : status[t] # "none"
    /\ \A t \in Tasks : approval[t] # "none" => t \in attached

\* An attempt creates its task once, and attaches it last.
AttemptInv ==
    /\ \A r \in Requests : attempt[r] <= MaxAttempts
    /\ \A r \in Requests : pc[r] # "idle" => attempt[r] > 0
    /\ \A t \in Tasks : t[2] > attempt[t[1]] => status[t] = "none"
    /\ \A r \in Requests : pc[r] \in Early => status[Mine(r)] = "none"
    /\ \A r \in Requests : pc[r] \in Late => status[Mine(r)] = "created" /\ Mine(r) \notin attached

\* What a request found, and what clients were told, is the owner of the key.
OwnerInv ==
    /\ \A r \in Requests : found[r] # NoTask => found[r] \in Persisted(Key[r])
    /\ \A r \in Requests : answer[r] # NoTask => answer[r] \in Persisted(Key[r])

\* A task that was started was free to start, and is not created again.
RunInv ==
    \A t \in Tasks : runs[t] > 0 =>
        /\ runs[t] = 1
        /\ t \in attached
        /\ approval[t] \in {"none", "approved"}
        /\ status[t] \in {"running", "completed", "failed"}

\* Without a fault a task without rows is in the hands of its attempt, and a
\* conflict means that the key has an owner.
StrayInv ==
    faults = 0 =>
        /\ \A t \in Tasks : status[t] = "created" /\ t \notin attached =>
               t = Mine(t[1]) /\ pc[t[1]] \in Late
        /\ \A r \in Requests : pc[r] = "resolve" => Persisted(Key[r]) # {}

Inv ==
    /\ TypeOK
    /\ AttachedInv
    /\ AttemptInv
    /\ OwnerInv
    /\ RunInv
    /\ CleanupSparesOwner
    /\ StrayInv

(***************************************************************************)
(* Helpers.                                                                *)
(***************************************************************************)

\* The task of an attempt under way belongs to that client and to no other.
LEMMA MineType ==
  ASSUME TypeOK, AttemptInv, NEW r \in Requests, pc[r] # "idle"
  PROVE  /\ Mine(r) \in Tasks /\ KeyOf(Mine(r)) = Key[r]
         /\ Mine(r)[1] = r /\ Mine(r)[2] = attempt[r]
  BY SubmissionAssumption DEF TypeOK, AttemptInv, Mine, Tasks, KeyOf

\* Clients do not share tasks.
LEMMA MineApart ==
  ASSUME NEW r \in Requests, NEW s \in Requests, Mine(r) = Mine(s)
  PROVE  r = s
  BY DEF Mine

\* A task is the attempt of a client.
LEMMA TaskType ==
  ASSUME NEW t \in Tasks
  PROVE  t[1] \in Requests /\ t[2] \in 1 .. MaxAttempts /\ t = <<t[1], t[2]>>
  BY DEF Tasks

\* What one client does leaves the attempts in order: it changes its own task, or
\* tasks that have their rows.
LEMMA AttemptKept ==
  ASSUME Inv, NEW r \in Requests, attempt' = attempt,
         \A s \in Requests : s # r => pc'[s] = pc[s],
         \A t \in Tasks : \/ status'[t] = status[t]
                          \/ pc[r] # "idle" /\ t = Mine(r)
                          \/ t \in attached,
         attached' \subseteq attached \cup {Mine(r)},
         pc'[r] # "idle" => pc[r] # "idle",
         pc'[r] \in Early => pc[r] \in Early /\ status'[Mine(r)] = status[Mine(r)],
         pc'[r] \in Late => status'[Mine(r)] = "created" /\ Mine(r) \notin attached'
  PROVE  AttemptInv'
<1> USE DEF Inv
<1>1. \A s \in Requests : Mine(s)' = Mine(s)
  BY DEF Mine
<1>2. \A s \in Requests : attempt'[s] <= MaxAttempts /\ (pc'[s] # "idle" => attempt'[s] > 0)
  BY DEF AttemptInv
<1>3. ASSUME NEW t \in Tasks, t[2] > attempt'[t[1]]
      PROVE  status'[t] = "none"
  <2>1. status[t] = "none" /\ t \notin attached
    BY <1>3 DEF AttemptInv, AttachedInv
  <2>2. t # Mine(r)
    BY <1>3, TaskType DEF Mine, TypeOK
  <2> QED BY <2>1, <2>2
<1>4. ASSUME NEW s \in Requests, s # r, pc[s] # "idle"
      PROVE  Mine(s) \in Tasks /\ Mine(s) # Mine(r)
  BY <1>4, MineType, MineApart
<1>5. ASSUME NEW s \in Requests, pc'[s] \in Early
      PROVE  status'[Mine(s)] = "none"
  <2>1. CASE s = r
    BY <1>5, <2>1 DEF AttemptInv
  <2>2. CASE s # r
    <3>1. pc[s] \in Early /\ pc[s] # "idle" /\ status[Mine(s)] = "none"
      BY <1>5, <2>2 DEF AttemptInv, Early
    <3>2. Mine(s) \notin attached
      BY <3>1 DEF AttachedInv
    <3> QED BY <1>4, <2>2, <3>1, <3>2
  <2> QED BY <2>1, <2>2
<1>6. ASSUME NEW s \in Requests, pc'[s] \in Late
      PROVE  status'[Mine(s)] = "created" /\ Mine(s) \notin attached'
  <2>1. CASE s = r
    BY <1>6, <2>1
  <2>2. CASE s # r
    <3>1. pc[s] \in Late /\ pc[s] # "idle" /\ status[Mine(s)] = "created" /\ Mine(s) \notin attached
      BY <1>6, <2>2 DEF AttemptInv, Late
    <3> QED BY <1>4, <2>2, <3>1
  <2> QED BY <2>1, <2>2
<1> QED BY <1>1, <1>2, <1>3, <1>5, <1>6 DEF AttemptInv

\* Nor does it leave a task astray if it ends with its own task in hand.
LEMMA StrayKept ==
  ASSUME Inv, NEW r \in Requests, attempt' = attempt, attached \subseteq attached',
         \A s \in Requests : s # r => pc'[s] = pc[s],
         faults' = 0 => faults = 0,
         faults' = 0 => \A t \in Tasks : status'[t] = "created" /\ t \notin attached' =>
             \/ status[t] = "created" /\ t # Mine(r)
             \/ t = Mine(r) /\ pc'[r] \in Late,
         faults' = 0 /\ pc'[r] = "resolve" => Persisted(Key[r])' # {}
  PROVE  StrayInv'
<1> SUFFICES ASSUME faults' = 0 PROVE StrayInv'
  BY DEF StrayInv
<1> USE DEF Inv
<1>1. \A s \in Requests : Mine(s)' = Mine(s)
  BY DEF Mine
<1>2. ASSUME NEW t \in Tasks, status'[t] = "created", t \notin attached'
      PROVE  t = Mine(t[1]) /\ pc'[t[1]] \in Late
  <2>1. CASE status[t] = "created" /\ t # Mine(r)
    <3>1. t = Mine(t[1]) /\ pc[t[1]] \in Late
      BY <1>2, <2>1 DEF StrayInv
    <3> QED BY <2>1, <3>1, TaskType
  <2>2. CASE t = Mine(r) /\ pc'[r] \in Late
    BY <2>2 DEF Mine
  <2> QED BY <1>2, <2>1, <2>2
<1>3. ASSUME NEW s \in Requests, pc'[s] = "resolve"
      PROVE  Persisted(Key[s])' # {}
  <2>1. CASE s = r
    BY <1>3, <2>1
  <2>2. CASE s # r
    <3>1. Persisted(Key[s]) # {}
      BY <1>3, <2>2 DEF StrayInv
    <3>2. Persisted(Key[s]) \subseteq Persisted(Key[s])'
      BY DEF Persisted
    <3> QED BY <3>1, <3>2
  <2> QED BY <2>1, <2>2
<1>4. \A t \in Tasks : Mine(t[1])' = Mine(t[1])
  BY <1>1, TaskType
<1> QED BY <1>2, <1>3, <1>4 DEF StrayInv

\* What was found or told stays, or is the owner.
LEMMA OwnerKept ==
  ASSUME OwnerInv, attached \subseteq attached',
         \A s \in Requests : found'[s] \in {found[s], NoTask} \cup Persisted(Key[s])',
         \A s \in Requests : answer'[s] \in {answer[s], NoTask} \cup Persisted(Key[s])'
  PROVE  OwnerInv'
  BY DEF OwnerInv, Persisted

(***************************************************************************)
(* Every step preserves the invariant.                                     *)
(***************************************************************************)

\* A request is sent.
LEMMA SubmitInv ==
  ASSUME Inv, NEW r \in Requests, Submit(r)
  PROVE  Inv'
<1> USE DEF Inv
<1>1. TypeOK'
  BY SubmissionAssumption, NoTaskAssumption DEF TypeOK, PCs, Statuses, Submit,
     Goto, tasks, local
<1>2. AttachedInv'
  BY DEF AttachedInv, TypeOK, Submit, Goto, tasks, local
<1>3. AttemptInv'
  <2>1. /\ \A s \in Requests : s # r => attempt'[s] = attempt[s] /\ pc'[s] = pc[s]
        /\ attempt'[r] = attempt[r] + 1 /\ attempt'[r] <= MaxAttempts /\ attempt'[r] > 0
        /\ pc'[r] = "waiting" /\ status' = status /\ attached' = attached
    BY SubmissionAssumption DEF Submit, Goto, tasks, TypeOK
  <2>2. ASSUME NEW t \in Tasks, t[2] > attempt'[t[1]]
        PROVE  status'[t] = "none"
    BY <2>1, <2>2, TaskType DEF AttemptInv, TypeOK
  <2>3. status[Mine(r)'] = "none"
    <3>1. Mine(r)' = <<r, attempt[r] + 1>> /\ Mine(r)' \in Tasks
      BY <2>1, SubmissionAssumption DEF Mine, Tasks, TypeOK
    <3>2. attempt[r] + 1 > attempt[r]
      BY DEF TypeOK
    <3> QED BY <3>1, <3>2 DEF AttemptInv
  <2>4. \A s \in Requests : s # r => Mine(s)' = Mine(s)
    BY <2>1 DEF Mine
  <2> QED BY <2>1, <2>2, <2>3, <2>4 DEF AttemptInv, Early, Late
<1>4. OwnerInv'
  BY DEF OwnerInv, Persisted, TypeOK, Submit, Goto, tasks, local
<1>5. RunInv'
  BY DEF RunInv, TypeOK, Submit, Goto, tasks, local
<1>6. CleanupSparesOwner'
  BY DEF CleanupSparesOwner, TypeOK, Submit, Goto, tasks, local
<1>7. StrayInv'
  BY DEF StrayInv, Late, Mine, Persisted, TypeOK, Submit, Goto, tasks, local
<1> QED BY <1>1, <1>2, <1>3, <1>4, <1>5, <1>6, <1>7

\* It gets the lock of its worker.
LEMMA LockInv ==
  ASSUME Inv, NEW r \in Requests, Lock(r)
  PROVE  Inv'
<1> USE DEF Inv
<1>0. Mine(r) \in Tasks /\ KeyOf(Mine(r)) = Key[r] /\ Mine(r)[1] = r
      /\ Mine(r)[2] = attempt[r]
  BY MineType DEF Lock
<1>1. TypeOK'
  BY <1>0, SubmissionAssumption, NoTaskAssumption DEF TypeOK, PCs, Statuses,
     Lock, Goto, tasks, local
<1>2. AttachedInv'
  BY <1>0 DEF AttachedInv, TypeOK, Lock, Goto, tasks, local
<1>3. AttemptInv'
  BY <1>0 DEF AttemptInv, Early, Late, Mine, TypeOK, Lock, Goto, tasks, local
<1>4. OwnerInv'
  BY <1>0 DEF OwnerInv, Persisted, TypeOK, Lock, Goto, tasks, local
<1>5. RunInv'
  BY <1>0 DEF RunInv, TypeOK, Lock, Goto, tasks, local
<1>6. CleanupSparesOwner'
  BY <1>0 DEF CleanupSparesOwner, TypeOK, Lock, Goto, tasks, local
<1>7. StrayInv'
  BY <1>0 DEF StrayInv, Late, Mine, Persisted, TypeOK, Lock, Goto, tasks, local
<1> QED BY <1>1, <1>2, <1>3, <1>4, <1>5, <1>6, <1>7

\* The key has an owner, or not.
LEMMA LookupInv ==
  ASSUME Inv, NEW r \in Requests, Lookup(r)
  PROVE  Inv'
<1> USE DEF Inv
<1>0. Mine(r) \in Tasks /\ KeyOf(Mine(r)) = Key[r] /\ Mine(r)[1] = r
      /\ Mine(r)[2] = attempt[r]
  BY MineType DEF Lookup
<1>1. TypeOK'
  BY <1>0, SubmissionAssumption, NoTaskAssumption DEF TypeOK, PCs, Statuses,
     Persisted, Lookup, Answer, Leave, Goto, tasks, local
<1>2. AttachedInv'
  BY <1>0 DEF AttachedInv, TypeOK, Lookup, Answer, Leave, Goto, tasks, local
<1>3. AttemptInv'
  BY <1>0 DEF AttemptInv, Early, Late, Mine, TypeOK, Lookup, Answer, Leave,
     Goto, tasks, local
<1>4. OwnerInv'
  BY <1>0 DEF OwnerInv, Persisted, TypeOK, Lookup, Answer, Leave, Goto, tasks,
     local
<1>5. RunInv'
  BY <1>0 DEF RunInv, TypeOK, Lookup, Answer, Leave, Goto, tasks, local
<1>6. CleanupSparesOwner'
  BY <1>0 DEF CleanupSparesOwner, TypeOK, Lookup, Answer, Leave, Goto, tasks,
     local
<1>7. StrayInv'
  <2>1. /\ attempt' = attempt /\ attached \subseteq attached'
        /\ \A s \in Requests : s # r => pc'[s] = pc[s]
        /\ faults' = 0 => faults = 0
    BY DEF Lookup, Answer, Leave, Goto, tasks, local, TypeOK
  <2>2. ASSUME faults' = 0, NEW t \in Tasks, status'[t] = "created", t \notin attached'
        PROVE  \/ status[t] = "created" /\ t # Mine(r)
               \/ t = Mine(r) /\ pc'[r] \in Late
    BY <1>0, <2>1, <2>2 DEF Lookup, Answer, Leave, Goto, tasks, local, Early,
       Late, TypeOK, StrayInv, AttemptInv, OwnerInv, Persisted
  <2>3. faults' = 0 /\ pc'[r] = "resolve" => Persisted(Key[r])' # {}
    BY <1>0 DEF Lookup, Answer, Leave, Goto, tasks, local, TypeOK, Persisted
  <2> QED BY <2>1, <2>2, <2>3, StrayKept
<1> QED BY <1>1, <1>2, <1>3, <1>4, <1>5, <1>6, <1>7

\* The risk is assessed.
LEMMA AssessInv ==
  ASSUME Inv, NEW r \in Requests, Assess(r)
  PROVE  Inv'
<1> USE DEF Inv
<1>0. Mine(r) \in Tasks /\ KeyOf(Mine(r)) = Key[r] /\ Mine(r)[1] = r
      /\ Mine(r)[2] = attempt[r]
  BY MineType DEF Assess
<1>1. TypeOK'
  BY <1>0, SubmissionAssumption, NoTaskAssumption DEF TypeOK, PCs, Statuses,
     Assess, Goto, tasks, local
<1>2. AttachedInv'
  BY <1>0 DEF AttachedInv, TypeOK, Assess, Goto, tasks, local
<1>3. AttemptInv'
  BY <1>0 DEF AttemptInv, Early, Late, Mine, TypeOK, Assess, Goto, tasks, local
<1>4. OwnerInv'
  BY <1>0 DEF OwnerInv, Persisted, TypeOK, Assess, Goto, tasks, local
<1>5. RunInv'
  BY <1>0 DEF RunInv, TypeOK, Assess, Goto, tasks, local
<1>6. CleanupSparesOwner'
  BY <1>0 DEF CleanupSparesOwner, TypeOK, Assess, Goto, tasks, local
<1>7. StrayInv'
  BY <1>0 DEF StrayInv, Late, Mine, Persisted, TypeOK, Assess, Goto, tasks,
     local
<1> QED BY <1>1, <1>2, <1>3, <1>4, <1>5, <1>6, <1>7

\* The native task is committed.
LEMMA CreateInv ==
  ASSUME Inv, NEW r \in Requests, Create(r)
  PROVE  Inv'
<1> USE DEF Inv
<1>0. Mine(r) \in Tasks /\ KeyOf(Mine(r)) = Key[r] /\ Mine(r)[1] = r
      /\ Mine(r)[2] = attempt[r]
  BY MineType DEF Create
<1>1. TypeOK'
  BY <1>0, SubmissionAssumption, NoTaskAssumption DEF TypeOK, PCs, Statuses,
     Create, Refuse, Leave, Fault, Goto, tasks, local
<1>2. AttachedInv'
  BY <1>0 DEF AttachedInv, TypeOK, Create, Refuse, Leave, Fault, Goto, tasks,
     local
<1>3. AttemptInv'
  <2>1. /\ attempt' = attempt
        /\ \A s \in Requests : s # r => pc'[s] = pc[s]
        /\ attached' \subseteq attached \cup {Mine(r)}
    BY DEF Create, Refuse, Leave, Fault, Goto, tasks, local, TypeOK
  <2>2. \A t \in Tasks : status'[t] = status[t] \/ t = Mine(r) \/ t \in attached
    BY <1>0 DEF Create, Refuse, Leave, Fault, Goto, tasks, local, TypeOK,
       OwnerInv, Persisted
  <2>3. /\ pc[r] # "idle"
        /\ pc'[r] \in Early => pc[r] \in Early /\ status'[Mine(r)] = status[Mine(r)]
        /\ pc'[r] \in Late => status'[Mine(r)] = "created" /\ Mine(r) \notin attached'
    BY <1>0 DEF Create, Refuse, Leave, Fault, Goto, tasks, local, Early, Late,
       TypeOK, AttemptInv, AttachedInv
  <2> QED BY <2>1, <2>2, <2>3, AttemptKept
<1>4. OwnerInv'
  BY <1>0 DEF OwnerInv, Persisted, TypeOK, Create, Refuse, Leave, Fault, Goto,
     tasks, local
<1>5. RunInv'
  <2>1. Mine(r) \notin attached
    BY <1>0 DEF Create, AttemptInv, AttachedInv, Early, Late
  <2>2. ASSUME NEW t \in Tasks, runs'[t] > 0
        PROVE  runs'[t] = runs[t] /\ t \in attached /\ t # Mine(r)
    BY <2>1, <2>2 DEF Create, RunInv
  <2>3. ASSUME NEW t \in Tasks, t # Mine(r)
        PROVE  status'[t] = status[t] /\ approval'[t] = approval[t]
    BY <2>3 DEF Create, Refuse, Leave, Fault, Goto, tasks, local, TypeOK
  <2>4. attached \subseteq attached'
    BY DEF Create
  <2> QED BY <2>2, <2>3, <2>4 DEF RunInv
<1>6. CleanupSparesOwner'
  BY <1>0 DEF CleanupSparesOwner, TypeOK, Create, Refuse, Leave, Fault, Goto,
     tasks, local
<1>7. StrayInv'
  <2>1. /\ attempt' = attempt /\ attached \subseteq attached'
        /\ \A s \in Requests : s # r => pc'[s] = pc[s]
        /\ faults' = 0 => faults = 0
    BY DEF Create, Refuse, Leave, Fault, Goto, tasks, local, TypeOK
  <2>2. ASSUME faults' = 0, NEW t \in Tasks, status'[t] = "created", t \notin attached'
        PROVE  \/ status[t] = "created" /\ t # Mine(r)
               \/ t = Mine(r) /\ pc'[r] \in Late
    BY <1>0, <2>1, <2>2 DEF Create, Refuse, Leave, Fault, Goto, tasks, local,
       Early, Late, TypeOK, StrayInv, AttemptInv, OwnerInv, Persisted
  <2>3. faults' = 0 /\ pc'[r] = "resolve" => Persisted(Key[r])' # {}
    BY <1>0 DEF Create, Refuse, Leave, Fault, Goto, tasks, local, TypeOK,
       Persisted
  <2> QED BY <2>1, <2>2, <2>3, StrayKept
<1> QED BY <1>1, <1>2, <1>3, <1>4, <1>5, <1>6, <1>7

\* The enterprise rows are committed.
LEMMA AttachInv ==
  ASSUME Inv, NEW r \in Requests, Attach(r)
  PROVE  Inv'
<1> USE DEF Inv
<1>0. Mine(r) \in Tasks /\ KeyOf(Mine(r)) = Key[r] /\ Mine(r)[1] = r
      /\ Mine(r)[2] = attempt[r]
  BY MineType DEF Attach
<1>1. TypeOK'
  BY <1>0, SubmissionAssumption, NoTaskAssumption DEF TypeOK, PCs, Statuses,
     Attach, Answer, Refuse, Leave, Fault, Unique, Goto, tasks, local
<1>2. AttachedInv'
  <2>1. status[Mine(r)] = "created" /\ Mine(r) \notin attached
    BY DEF Attach, AttemptInv, Late
  <2>2. /\ attached' = attached \cup {Mine(r)} /\ status' = status
        /\ \A t \in Tasks : t # Mine(r) => approval'[t] = approval[t]
    BY <1>0 DEF Attach, TypeOK
  <2>3. \A u \in attached : KeyOf(u) # KeyOf(Mine(r))
    BY DEF Attach, Unique, Persisted
  <2> QED BY <2>1, <2>2, <2>3 DEF AttachedInv, KeyOf
<1>3. AttemptInv'
  BY <1>0 DEF AttemptInv, Early, Late, Mine, TypeOK, Attach, Answer, Refuse,
     Leave, Fault, Unique, Goto, tasks, local
<1>4. OwnerInv'
  <2>1. /\ attached \subseteq attached'
        /\ \A s \in Requests : found'[s] \in {found[s], NoTask} \cup Persisted(Key[s])'
    BY <1>0 DEF Attach, Answer, Refuse, Leave, Fault, Unique, Goto, tasks,
       local, TypeOK, OwnerInv, Persisted
  <2>2. \A s \in Requests : answer'[s] \in {answer[s], NoTask} \cup Persisted(Key[s])'
    BY <1>0, NoTaskAssumption DEF Attach, Answer, Refuse, Leave, Fault, Unique,
       Goto, tasks, local, TypeOK, OwnerInv, Persisted
  <2> QED BY <2>1, <2>2, OwnerKept
<1>5. RunInv'
  <2>1. Mine(r) \notin attached
    BY <1>0 DEF Attach, AttemptInv, AttachedInv, Early, Late
  <2>2. ASSUME NEW t \in Tasks, runs'[t] > 0
        PROVE  runs'[t] = runs[t] /\ t \in attached /\ t # Mine(r)
    BY <2>1, <2>2 DEF Attach, RunInv
  <2>3. ASSUME NEW t \in Tasks, t # Mine(r)
        PROVE  status'[t] = status[t] /\ approval'[t] = approval[t]
    BY <2>3 DEF Attach, Answer, Refuse, Leave, Fault, Unique, Goto, tasks,
       local, TypeOK
  <2>4. attached \subseteq attached'
    BY DEF Attach
  <2> QED BY <2>2, <2>3, <2>4 DEF RunInv
<1>6. CleanupSparesOwner'
  <2>1. status[Mine(r)] = "created" /\ Mine(r) \notin attached
    BY DEF Attach, AttemptInv, Late
  <2>2. /\ attached' = attached \cup {Mine(r)} /\ status' = status
        /\ \A t \in Tasks : t # Mine(r) => approval'[t] = approval[t]
    BY <1>0 DEF Attach, TypeOK
  <2>3. attached \subseteq Tasks
    BY DEF TypeOK
  <2> QED BY <2>1, <2>2, <2>3 DEF CleanupSparesOwner
<1>7. StrayInv'
  <2>1. /\ attempt' = attempt /\ attached \subseteq attached'
        /\ \A s \in Requests : s # r => pc'[s] = pc[s]
        /\ faults' = 0 => faults = 0
    BY DEF Attach, Answer, Refuse, Leave, Fault, Unique, Goto, tasks, local,
       TypeOK
  <2>2. ASSUME faults' = 0, NEW t \in Tasks, status'[t] = "created", t \notin attached'
        PROVE  \/ status[t] = "created" /\ t # Mine(r)
               \/ t = Mine(r) /\ pc'[r] \in Late
    BY <1>0, <2>1, <2>2 DEF Attach, Answer, Refuse, Leave, Fault, Unique, Goto,
       tasks, local, Early, Late, TypeOK, StrayInv, AttemptInv, OwnerInv,
       Persisted
  <2>3. faults' = 0 /\ pc'[r] = "resolve" => Persisted(Key[r])' # {}
    BY <1>0 DEF Attach, Answer, Refuse, Leave, Fault, Unique, Goto, tasks,
       local, TypeOK, Persisted
  <2> QED BY <2>1, <2>2, <2>3, StrayKept
<1> QED BY <1>1, <1>2, <1>3, <1>4, <1>5, <1>6, <1>7

\* A constraint refuses them.
LEMMA AttachConflictsInv ==
  ASSUME Inv, NEW r \in Requests, AttachConflicts(r)
  PROVE  Inv'
<1> USE DEF Inv
<1>0. Mine(r) \in Tasks /\ KeyOf(Mine(r)) = Key[r] /\ Mine(r)[1] = r
      /\ Mine(r)[2] = attempt[r]
  BY MineType DEF AttachConflicts
<1>1. TypeOK'
  BY <1>0, SubmissionAssumption, NoTaskAssumption DEF TypeOK, PCs, Statuses,
     AttachConflicts, Fault, Unique, Goto, tasks, local
<1>2. AttachedInv'
  BY <1>0 DEF AttachedInv, TypeOK, AttachConflicts, Fault, Unique, Goto, tasks,
     local
<1>3. AttemptInv'
  BY <1>0 DEF AttemptInv, Early, Late, Mine, TypeOK, AttachConflicts, Fault,
     Unique, Goto, tasks, local
<1>4. OwnerInv'
  BY <1>0 DEF OwnerInv, Persisted, TypeOK, AttachConflicts, Fault, Unique, Goto,
     tasks, local
<1>5. RunInv'
  BY <1>0 DEF RunInv, TypeOK, AttachConflicts, Fault, Unique, Goto, tasks, local
<1>6. CleanupSparesOwner'
  BY <1>0 DEF CleanupSparesOwner, TypeOK, AttachConflicts, Fault, Unique, Goto,
     tasks, local
<1>7. StrayInv'
  BY <1>0 DEF StrayInv, Late, Mine, Persisted, TypeOK, AttachConflicts, Fault,
     Unique, Goto, tasks, local
<1> QED BY <1>1, <1>2, <1>3, <1>4, <1>5, <1>6, <1>7

\* They cannot be made.
LEMMA AttachRaisesInv ==
  ASSUME Inv, NEW r \in Requests, AttachRaises(r)
  PROVE  Inv'
<1> USE DEF Inv
<1>0. Mine(r) \in Tasks /\ KeyOf(Mine(r)) = Key[r] /\ Mine(r)[1] = r
      /\ Mine(r)[2] = attempt[r]
  BY MineType DEF AttachRaises
<1>1. TypeOK'
  BY <1>0, SubmissionAssumption, NoTaskAssumption DEF TypeOK, PCs, Statuses,
     AttachRaises, Refuse, Leave, Fault, Goto, tasks, local
<1>2. AttachedInv'
  BY <1>0 DEF AttachedInv, TypeOK, AttachRaises, Refuse, Leave, Fault, Goto,
     tasks, local
<1>3. AttemptInv'
  BY <1>0 DEF AttemptInv, Early, Late, Mine, TypeOK, AttachRaises, Refuse,
     Leave, Fault, Goto, tasks, local
<1>4. OwnerInv'
  BY <1>0 DEF OwnerInv, Persisted, TypeOK, AttachRaises, Refuse, Leave, Fault,
     Goto, tasks, local
<1>5. RunInv'
  BY <1>0 DEF RunInv, TypeOK, AttachRaises, Refuse, Leave, Fault, Goto, tasks,
     local
<1>6. CleanupSparesOwner'
  BY <1>0 DEF CleanupSparesOwner, TypeOK, AttachRaises, Refuse, Leave, Fault,
     Goto, tasks, local
<1>7. StrayInv'
  <2>1. /\ attempt' = attempt /\ attached \subseteq attached'
        /\ \A s \in Requests : s # r => pc'[s] = pc[s]
        /\ faults' = 0 => faults = 0
    BY DEF AttachRaises, Refuse, Leave, Fault, Goto, tasks, local, TypeOK
  <2>2. ASSUME faults' = 0, NEW t \in Tasks, status'[t] = "created", t \notin attached'
        PROVE  \/ status[t] = "created" /\ t # Mine(r)
               \/ t = Mine(r) /\ pc'[r] \in Late
    BY <1>0, <2>1, <2>2 DEF AttachRaises, Refuse, Leave, Fault, Goto, tasks,
       local, Early, Late, TypeOK, StrayInv, AttemptInv, OwnerInv, Persisted
  <2>3. faults' = 0 /\ pc'[r] = "resolve" => Persisted(Key[r])' # {}
    BY <1>0 DEF AttachRaises, Refuse, Leave, Fault, Goto, tasks, local, TypeOK,
       Persisted
  <2> QED BY <2>1, <2>2, <2>3, StrayKept
<1> QED BY <1>1, <1>2, <1>3, <1>4, <1>5, <1>6, <1>7

\* The owner of the key is read again.
LEMMA ResolveInv ==
  ASSUME Inv, NEW r \in Requests, Resolve(r)
  PROVE  Inv'
<1> USE DEF Inv
<1>0. Mine(r) \in Tasks /\ KeyOf(Mine(r)) = Key[r] /\ Mine(r)[1] = r
      /\ Mine(r)[2] = attempt[r]
  BY MineType DEF Resolve
<1>1. TypeOK'
  BY <1>0, SubmissionAssumption, NoTaskAssumption DEF TypeOK, PCs, Statuses,
     Persisted, Resolve, Refuse, Leave, Goto, tasks, local
<1>2. AttachedInv'
  BY <1>0 DEF AttachedInv, TypeOK, Resolve, Refuse, Leave, Goto, tasks, local
<1>3. AttemptInv'
  BY <1>0 DEF AttemptInv, Early, Late, Mine, TypeOK, Resolve, Refuse, Leave,
     Goto, tasks, local
<1>4. OwnerInv'
  BY <1>0 DEF OwnerInv, Persisted, TypeOK, Resolve, Refuse, Leave, Goto, tasks,
     local
<1>5. RunInv'
  BY <1>0 DEF RunInv, TypeOK, Resolve, Refuse, Leave, Goto, tasks, local
<1>6. CleanupSparesOwner'
  BY <1>0 DEF CleanupSparesOwner, TypeOK, Resolve, Refuse, Leave, Goto, tasks,
     local
<1>7. StrayInv'
  <2>1. /\ attempt' = attempt /\ attached \subseteq attached'
        /\ \A s \in Requests : s # r => pc'[s] = pc[s]
        /\ faults' = 0 => faults = 0
    BY DEF Resolve, Refuse, Leave, Goto, tasks, local, TypeOK
  <2>2. ASSUME faults' = 0, NEW t \in Tasks, status'[t] = "created", t \notin attached'
        PROVE  \/ status[t] = "created" /\ t # Mine(r)
               \/ t = Mine(r) /\ pc'[r] \in Late
    BY <1>0, <2>1, <2>2 DEF Resolve, Refuse, Leave, Goto, tasks, local, Early,
       Late, TypeOK, StrayInv, AttemptInv, OwnerInv, Persisted
  <2>3. faults' = 0 /\ pc'[r] = "resolve" => Persisted(Key[r])' # {}
    BY <1>0 DEF Resolve, Refuse, Leave, Goto, tasks, local, TypeOK, Persisted
  <2> QED BY <2>1, <2>2, <2>3, StrayKept
<1> QED BY <1>1, <1>2, <1>3, <1>4, <1>5, <1>6, <1>7

\* The task is cleaned up.
LEMMA CancelOrphanInv ==
  ASSUME Inv, NEW r \in Requests, CancelOrphan(r)
  PROVE  Inv'
<1> USE DEF Inv
<1>0. Mine(r) \in Tasks /\ KeyOf(Mine(r)) = Key[r] /\ Mine(r)[1] = r
      /\ Mine(r)[2] = attempt[r]
  BY MineType DEF CancelOrphan
<1>1. TypeOK'
  BY <1>0, SubmissionAssumption, NoTaskAssumption DEF TypeOK, PCs, Statuses,
     CancelOrphan, Answer, Refuse, Leave, Fault, Orphan, Goto, tasks, local
<1>2. AttachedInv'
  BY <1>0 DEF AttachedInv, TypeOK, CancelOrphan, Answer, Refuse, Leave, Fault,
     Orphan, Goto, tasks, local
<1>3. AttemptInv'
  <2>1. /\ attempt' = attempt
        /\ \A s \in Requests : s # r => pc'[s] = pc[s]
        /\ attached' \subseteq attached \cup {Mine(r)}
    BY DEF CancelOrphan, Answer, Refuse, Leave, Fault, Orphan, Goto, tasks,
       local, TypeOK
  <2>2. \A t \in Tasks : status'[t] = status[t] \/ t = Mine(r) \/ t \in attached
    BY <1>0 DEF CancelOrphan, Answer, Refuse, Leave, Fault, Orphan, Goto, tasks,
       local, TypeOK, OwnerInv, Persisted
  <2>3. /\ pc[r] # "idle"
        /\ pc'[r] \in Early => pc[r] \in Early /\ status'[Mine(r)] = status[Mine(r)]
        /\ pc'[r] \in Late => status'[Mine(r)] = "created" /\ Mine(r) \notin attached'
    BY <1>0 DEF CancelOrphan, Answer, Refuse, Leave, Fault, Orphan, Goto, tasks,
       local, Early, Late, TypeOK, AttemptInv, AttachedInv
  <2> QED BY <2>1, <2>2, <2>3, AttemptKept
<1>4. OwnerInv'
  <2>1. /\ attached \subseteq attached'
        /\ \A s \in Requests : found'[s] \in {found[s], NoTask} \cup Persisted(Key[s])'
    BY <1>0 DEF CancelOrphan, Answer, Refuse, Leave, Fault, Orphan, Goto, tasks,
       local, TypeOK, OwnerInv, Persisted
  <2>2. \A s \in Requests : answer'[s] \in {answer[s], NoTask} \cup Persisted(Key[s])'
    BY <1>0, NoTaskAssumption DEF CancelOrphan, Answer, Refuse, Leave, Fault,
       Orphan, Goto, tasks, local, TypeOK, OwnerInv, Persisted
  <2> QED BY <2>1, <2>2, OwnerKept
<1>5. RunInv'
  <2>1. Mine(r) \notin attached
    BY <1>0 DEF CancelOrphan, AttemptInv, AttachedInv, Early, Late
  <2>2. ASSUME NEW t \in Tasks, runs'[t] > 0
        PROVE  runs'[t] = runs[t] /\ t \in attached /\ t # Mine(r)
    BY <2>1, <2>2 DEF CancelOrphan, RunInv
  <2>3. ASSUME NEW t \in Tasks, t # Mine(r)
        PROVE  status'[t] = status[t] /\ approval'[t] = approval[t]
    BY <2>3 DEF CancelOrphan, Answer, Refuse, Leave, Fault, Orphan, Goto, tasks,
       local, TypeOK
  <2>4. attached \subseteq attached'
    BY DEF CancelOrphan
  <2> QED BY <2>2, <2>3, <2>4 DEF RunInv
<1>6. CleanupSparesOwner'
  <2>1. Mine(r) \notin attached
    BY <1>0 DEF CancelOrphan, AttemptInv, AttachedInv, Early, Late
  <2>2. \A t \in attached : status'[t] = status[t]
    BY <2>1 DEF CancelOrphan, Answer, Refuse, Leave, Fault, Orphan, Goto, tasks,
       local, TypeOK
  <2> QED BY <2>2 DEF CleanupSparesOwner, CancelOrphan
<1>7. StrayInv'
  <2>1. /\ attempt' = attempt /\ attached \subseteq attached'
        /\ \A s \in Requests : s # r => pc'[s] = pc[s]
        /\ faults' = 0 => faults = 0
    BY DEF CancelOrphan, Answer, Refuse, Leave, Fault, Orphan, Goto, tasks,
       local, TypeOK
  <2>2. ASSUME faults' = 0, NEW t \in Tasks, status'[t] = "created", t \notin attached'
        PROVE  \/ status[t] = "created" /\ t # Mine(r)
               \/ t = Mine(r) /\ pc'[r] \in Late
    BY <1>0, <2>1, <2>2 DEF CancelOrphan, Answer, Refuse, Leave, Fault, Orphan,
       Goto, tasks, local, Early, Late, TypeOK, StrayInv, AttemptInv, OwnerInv,
       Persisted
  <2>3. faults' = 0 /\ pc'[r] = "resolve" => Persisted(Key[r])' # {}
    BY <1>0 DEF CancelOrphan, Answer, Refuse, Leave, Fault, Orphan, Goto, tasks,
       local, TypeOK, Persisted
  <2> QED BY <2>1, <2>2, <2>3, StrayKept
<1> QED BY <1>1, <1>2, <1>3, <1>4, <1>5, <1>6, <1>7

\* The owner is recovered.
LEMMA RecoverInv ==
  ASSUME Inv, NEW r \in Requests, Recover(r)
  PROVE  Inv'
<1> USE DEF Inv
<1>0. Mine(r) \in Tasks /\ KeyOf(Mine(r)) = Key[r] /\ Mine(r)[1] = r
      /\ Mine(r)[2] = attempt[r]
  BY MineType DEF Recover
<1>1. TypeOK'
  BY <1>0, SubmissionAssumption, NoTaskAssumption DEF TypeOK, PCs, Statuses,
     Recover, Answer, Refuse, Leave, MayRun, Goto, tasks, local
<1>2. AttachedInv'
  BY <1>0 DEF AttachedInv, TypeOK, Recover, Answer, Refuse, Leave, MayRun, Goto,
     tasks, local
<1>3. AttemptInv'
  <2>1. /\ attempt' = attempt
        /\ \A s \in Requests : s # r => pc'[s] = pc[s]
        /\ attached' \subseteq attached \cup {Mine(r)}
    BY DEF Recover, Answer, Refuse, Leave, MayRun, Goto, tasks, local, TypeOK
  <2>2. \A t \in Tasks : status'[t] = status[t] \/ t = Mine(r) \/ t \in attached
    BY <1>0 DEF Recover, Answer, Refuse, Leave, MayRun, Goto, tasks, local,
       TypeOK, OwnerInv, Persisted
  <2>3. /\ pc[r] # "idle"
        /\ pc'[r] \in Early => pc[r] \in Early /\ status'[Mine(r)] = status[Mine(r)]
        /\ pc'[r] \in Late => status'[Mine(r)] = "created" /\ Mine(r) \notin attached'
    BY <1>0 DEF Recover, Answer, Refuse, Leave, MayRun, Goto, tasks, local,
       Early, Late, TypeOK, AttemptInv, AttachedInv
  <2> QED BY <2>1, <2>2, <2>3, AttemptKept
<1>4. OwnerInv'
  <2>1. /\ attached \subseteq attached'
        /\ \A s \in Requests : found'[s] \in {found[s], NoTask} \cup Persisted(Key[s])'
    BY <1>0 DEF Recover, Answer, Refuse, Leave, MayRun, Goto, tasks, local,
       TypeOK, OwnerInv, Persisted
  <2>2. \A s \in Requests : answer'[s] \in {answer[s], NoTask} \cup Persisted(Key[s])'
    BY <1>0, NoTaskAssumption DEF Recover, Answer, Refuse, Leave, MayRun, Goto,
       tasks, local, TypeOK, OwnerInv, Persisted
  <2> QED BY <2>1, <2>2, OwnerKept
<1>5. RunInv'
  <2> DEFINE t == found[r]
  <2>1. t \in attached /\ t \in Tasks
    BY DEF Recover, OwnerInv, Persisted, TypeOK
  <2>2. CASE MayRun(t)
    <3>1. runs[t] = 0 /\ approval[t] \in {"none", "approved"}
      BY <2>1, <2>2 DEF RunInv, MayRun, TypeOK
    <3>2. runs' = [runs EXCEPT ![t] = runs[t] + 1] /\ status' = [status EXCEPT ![t] = "running"]
      BY <2>2 DEF Recover
    <3>3. approval' = approval /\ attached' = attached
      BY DEF Recover
    <3> HIDE DEF t
    <3> QED BY <2>1, <3>1, <3>2, <3>3 DEF RunInv, TypeOK
  <2>3. CASE ~MayRun(t)
    BY <2>3 DEF Recover, RunInv
  <2> QED BY <2>2, <2>3
<1>6. CleanupSparesOwner'
  BY <1>0 DEF CleanupSparesOwner, TypeOK, Recover, Answer, Refuse, Leave,
     MayRun, Goto, tasks, local
<1>7. StrayInv'
  <2>1. /\ attempt' = attempt /\ attached \subseteq attached'
        /\ \A s \in Requests : s # r => pc'[s] = pc[s]
        /\ faults' = 0 => faults = 0
    BY DEF Recover, Answer, Refuse, Leave, MayRun, Goto, tasks, local, TypeOK
  <2>2. ASSUME faults' = 0, NEW t \in Tasks, status'[t] = "created", t \notin attached'
        PROVE  \/ status[t] = "created" /\ t # Mine(r)
               \/ t = Mine(r) /\ pc'[r] \in Late
    BY <1>0, <2>1, <2>2 DEF Recover, Answer, Refuse, Leave, MayRun, Goto, tasks,
       local, Early, Late, TypeOK, StrayInv, AttemptInv, OwnerInv, Persisted
  <2>3. faults' = 0 /\ pc'[r] = "resolve" => Persisted(Key[r])' # {}
    BY <1>0 DEF Recover, Answer, Refuse, Leave, MayRun, Goto, tasks, local,
       TypeOK, Persisted
  <2> QED BY <2>1, <2>2, <2>3, StrayKept
<1> QED BY <1>1, <1>2, <1>3, <1>4, <1>5, <1>6, <1>7

\* The browser is done.
LEMMA BrowseEndsInv ==
  ASSUME Inv, NEW r \in Requests, BrowseEnds(r)
  PROVE  Inv'
<1> USE DEF Inv
<1>0. Mine(r) \in Tasks /\ KeyOf(Mine(r)) = Key[r] /\ Mine(r)[1] = r
      /\ Mine(r)[2] = attempt[r]
  BY MineType DEF BrowseEnds
<1>1. TypeOK'
  BY <1>0, SubmissionAssumption, NoTaskAssumption DEF TypeOK, PCs, Statuses,
     BrowseEnds, Answer, Refuse, Leave, Goto, tasks, local
<1>2. AttachedInv'
  BY <1>0 DEF AttachedInv, TypeOK, BrowseEnds, Answer, Refuse, Leave, Goto,
     tasks, local
<1>3. AttemptInv'
  <2>1. /\ attempt' = attempt
        /\ \A s \in Requests : s # r => pc'[s] = pc[s]
        /\ attached' \subseteq attached \cup {Mine(r)}
    BY DEF BrowseEnds, Answer, Refuse, Leave, Goto, tasks, local, TypeOK
  <2>2. \A t \in Tasks : status'[t] = status[t] \/ t = Mine(r) \/ t \in attached
    BY <1>0 DEF BrowseEnds, Answer, Refuse, Leave, Goto, tasks, local, TypeOK,
       OwnerInv, Persisted
  <2>3. /\ pc[r] # "idle"
        /\ pc'[r] \in Early => pc[r] \in Early /\ status'[Mine(r)] = status[Mine(r)]
        /\ pc'[r] \in Late => status'[Mine(r)] = "created" /\ Mine(r) \notin attached'
    BY <1>0 DEF BrowseEnds, Answer, Refuse, Leave, Goto, tasks, local, Early,
       Late, TypeOK, AttemptInv, AttachedInv
  <2> QED BY <2>1, <2>2, <2>3, AttemptKept
<1>4. OwnerInv'
  <2>1. /\ attached \subseteq attached'
        /\ \A s \in Requests : found'[s] \in {found[s], NoTask} \cup Persisted(Key[s])'
    BY <1>0 DEF BrowseEnds, Answer, Refuse, Leave, Goto, tasks, local, TypeOK,
       OwnerInv, Persisted
  <2>2. \A s \in Requests : answer'[s] \in {answer[s], NoTask} \cup Persisted(Key[s])'
    BY <1>0, NoTaskAssumption DEF BrowseEnds, Answer, Refuse, Leave, Goto,
       tasks, local, TypeOK, OwnerInv, Persisted
  <2> QED BY <2>1, <2>2, OwnerKept
<1>5. RunInv'
  BY <1>0 DEF RunInv, TypeOK, BrowseEnds, Answer, Refuse, Leave, Goto, tasks,
     local
<1>6. CleanupSparesOwner'
  BY <1>0 DEF CleanupSparesOwner, TypeOK, BrowseEnds, Answer, Refuse, Leave,
     Goto, tasks, local
<1>7. StrayInv'
  <2>1. /\ attempt' = attempt /\ attached \subseteq attached'
        /\ \A s \in Requests : s # r => pc'[s] = pc[s]
        /\ faults' = 0 => faults = 0
    BY DEF BrowseEnds, Answer, Refuse, Leave, Goto, tasks, local, TypeOK
  <2>2. ASSUME faults' = 0, NEW t \in Tasks, status'[t] = "created", t \notin attached'
        PROVE  \/ status[t] = "created" /\ t # Mine(r)
               \/ t = Mine(r) /\ pc'[r] \in Late
    BY <1>0, <2>1, <2>2 DEF BrowseEnds, Answer, Refuse, Leave, Goto, tasks,
       local, Early, Late, TypeOK, StrayInv, AttemptInv, OwnerInv, Persisted
  <2>3. faults' = 0 /\ pc'[r] = "resolve" => Persisted(Key[r])' # {}
    BY <1>0 DEF BrowseEnds, Answer, Refuse, Leave, Goto, tasks, local, TypeOK,
       Persisted
  <2> QED BY <2>1, <2>2, <2>3, StrayKept
<1> QED BY <1>1, <1>2, <1>3, <1>4, <1>5, <1>6, <1>7

\* An approver decides.
LEMMA DecideInv ==
  ASSUME Inv, NEW t \in Tasks, Decide(t)
  PROVE  Inv'
<1> USE DEF Inv
<1>1. TypeOK'
  BY SubmissionAssumption, NoTaskAssumption DEF TypeOK, PCs, Statuses, Decide,
     Goto, tasks, local
<1>2. AttachedInv'
  BY DEF AttachedInv, TypeOK, Decide, Goto, tasks, local
<1>3. AttemptInv'
  <2>1. t \in attached
    BY DEF Decide, AttachedInv
  <2>2. \A u \in Tasks : u \notin attached => status'[u] = status[u]
    BY <2>1 DEF Decide, TypeOK
  <2>3. attempt' = attempt /\ pc' = pc /\ attached' = attached
    BY DEF Decide, local
  <2>4. \A s \in Requests : Mine(s)' = Mine(s)
    BY <2>3 DEF Mine
  <2>5. \A s \in Requests : pc[s] # "idle" => Mine(s) \in Tasks
    BY MineType
  <2> QED BY <2>1, <2>2, <2>3, <2>4, <2>5 DEF AttemptInv, AttachedInv, Early, Late
<1>4. OwnerInv'
  BY DEF OwnerInv, Persisted, TypeOK, Decide, Goto, tasks, local
<1>5. RunInv'
  BY DEF RunInv, TypeOK, Decide, Goto, tasks, local
<1>6. CleanupSparesOwner'
  BY DEF CleanupSparesOwner, TypeOK, Decide, Goto, tasks, local
<1>7. StrayInv'
  BY DEF StrayInv, Late, Mine, Persisted, TypeOK, Decide, Goto, tasks, local
<1> QED BY <1>1, <1>2, <1>3, <1>4, <1>5, <1>6, <1>7

\* An approved task is continued.
LEMMA ContinueInv ==
  ASSUME Inv, NEW t \in Tasks, Continue(t)
  PROVE  Inv'
<1> USE DEF Inv
<1>1. TypeOK'
  BY SubmissionAssumption, NoTaskAssumption DEF TypeOK, PCs, Statuses, Continue,
     MayRun, Goto, tasks, local
<1>2. AttachedInv'
  BY DEF AttachedInv, TypeOK, Continue, MayRun, Goto, tasks, local
<1>3. AttemptInv'
  <2>1. t \in attached
    BY DEF Continue, AttachedInv
  <2>2. \A u \in Tasks : u \notin attached => status'[u] = status[u]
    BY <2>1 DEF Continue, TypeOK
  <2>3. attempt' = attempt /\ pc' = pc /\ attached' = attached
    BY DEF Continue, local
  <2>4. \A s \in Requests : Mine(s)' = Mine(s)
    BY <2>3 DEF Mine
  <2>5. \A s \in Requests : pc[s] # "idle" => Mine(s) \in Tasks
    BY MineType
  <2> QED BY <2>1, <2>2, <2>3, <2>4, <2>5 DEF AttemptInv, AttachedInv, Early, Late
<1>4. OwnerInv'
  BY DEF OwnerInv, Persisted, TypeOK, Continue, MayRun, Goto, tasks, local
<1>5. RunInv'
  <2>1. runs[t] = 0 /\ t \in attached
    BY DEF Continue, RunInv, MayRun, TypeOK, AttachedInv
  <2> QED BY <2>1 DEF Continue, RunInv, TypeOK
<1>6. CleanupSparesOwner'
  BY DEF CleanupSparesOwner, TypeOK, Continue, MayRun, Goto, tasks, local
<1>7. StrayInv'
  BY DEF StrayInv, Late, Mine, Persisted, TypeOK, Continue, MayRun, Goto, tasks,
     local
<1> QED BY <1>1, <1>2, <1>3, <1>4, <1>5, <1>6, <1>7

\* A worker dies.
LEMMA CrashInv ==
  ASSUME Inv, NEW w \in Workers, Crash(w)
  PROVE  Inv'
<1> USE DEF Inv
<1>1. TypeOK'
  BY SubmissionAssumption, NoTaskAssumption DEF TypeOK, PCs, Statuses, Crash,
     Fault, Goto, tasks, local
<1>2. AttachedInv'
  BY DEF AttachedInv, TypeOK, Crash, Fault, Goto, tasks, local
<1>3. AttemptInv'
  BY DEF AttemptInv, Early, Late, Mine, TypeOK, Crash, Fault, Goto, tasks, local
<1>4. OwnerInv'
  BY DEF OwnerInv, Persisted, TypeOK, Crash, Fault, Goto, tasks, local
<1>5. RunInv'
  BY DEF RunInv, TypeOK, Crash, Fault, Goto, tasks, local
<1>6. CleanupSparesOwner'
  BY DEF CleanupSparesOwner, TypeOK, Crash, Fault, Goto, tasks, local
<1>7. StrayInv'
  BY DEF StrayInv, Late, Mine, Persisted, TypeOK, Crash, Fault, Goto, tasks,
     local
<1> QED BY <1>1, <1>2, <1>3, <1>4, <1>5, <1>6, <1>7

\* The invariant holds in every state.
THEOREM Invariant == Spec => []Inv
<1>1. Init => Inv
  <2> SUFFICES ASSUME Init PROVE Inv
    OBVIOUS
  <2> USE DEF Init
  <2>1. TypeOK
    BY DEF TypeOK, PCs, Statuses
  <2>2. AttachedInv /\ OwnerInv /\ RunInv /\ CleanupSparesOwner
    BY DEF AttachedInv, OwnerInv, RunInv, CleanupSparesOwner
  <2>3. AttemptInv
    BY TaskType, SubmissionAssumption DEF AttemptInv, Early, Late
  <2>4. StrayInv
    BY DEF StrayInv
  <2> QED BY <2>1, <2>2, <2>3, <2>4 DEF Inv
<1>2. Inv /\ [Next]_vars => Inv'
  <2> SUFFICES ASSUME Inv, [Next]_vars PROVE Inv'
    OBVIOUS
  <2>1. ASSUME NEW r \in Requests, Submit(r) \/ Lock(r) \/ Handle(r)
        PROVE  Inv'
    BY <2>1, SubmitInv, LockInv, LookupInv, AssessInv, CreateInv, AttachInv,
       AttachConflictsInv, AttachRaisesInv, ResolveInv, CancelOrphanInv,
       RecoverInv, BrowseEndsInv DEF Handle
  <2>2. ASSUME NEW t \in Tasks, Decide(t) \/ Continue(t)
        PROVE  Inv'
    BY <2>2, DecideInv, ContinueInv
  <2>3. ASSUME NEW w \in Workers, Crash(w)
        PROVE  Inv'
    BY <2>3, CrashInv
  <2>4. CASE UNCHANGED vars
    BY <2>4 DEF Inv, TypeOK, AttachedInv, AttemptInv, OwnerInv, RunInv,
       CleanupSparesOwner, StrayInv, Mine, Persisted, vars, tasks, local
  <2> QED BY <2>1, <2>2, <2>3, <2>4 DEF Next
<1> QED BY <1>1, <1>2, PTL DEF Spec

(***************************************************************************)
(* What follows.                                                           *)
(***************************************************************************)

\* Every variable keeps its type, and a request has found a task exactly where
\* quote_task goes on with a stored one.
THEOREM TypeCorrect == Spec => []TypeOK
<1>1. Inv => TypeOK
  BY DEF Inv
<1> QED BY Invariant, <1>1, PTL

\* quote_task, retried by any number of clients in any number of workers, and
\* continue_request beside it start the browser for one task of a key, once, and
\* only with its rows and its approval.
THEOREM OneBrowser == Spec => []OneBrowserPerKey
<1>1. Inv => OneBrowserPerKey
  BY DEF Inv, RunInv, AttachedInv, OneBrowserPerKey
<1> QED BY Invariant, <1>1, PTL

\* _cancel_orphan_task never cancels the task that holds the key.
THEOREM OwnerSpared == Spec => []CleanupSparesOwner
<1>1. Inv => CleanupSparesOwner
  BY DEF Inv
<1> QED BY Invariant, <1>1, PTL

\* Unless an answer is lost, a cleanup fails or a worker dies, the cleanup of
\* quote_task leaves no native task behind that no row speaks of.
THEOREM NothingStrays == Spec => []NoStrayTask
<1>1. Inv => NoStrayTask
  <2> SUFFICES ASSUME Inv, faults = 0, NEW r \in Requests, NEW n \in 1 .. MaxAttempts,
                      status[<<r, n>>] = "created", <<r, n>> \notin attached
               PROVE  n = attempt[r] /\ pc[r] # "idle"
    BY DEF NoStrayTask
  <2> DEFINE t == <<r, n>>
  <2>1. t \in Tasks /\ t[1] = r /\ t[2] = n
    BY DEF Tasks
  <2>2. t = Mine(r) /\ pc[r] \in Late
    BY <2>1 DEF Inv, StrayInv
  <2> QED BY <2>2 DEF Mine, Late
<1> QED BY Invariant, <1>1, PTL

(***************************************************************************)
(* The contract of the key: what its owner is, what the browser worked for *)
(* and what clients were told.                                             *)
(***************************************************************************)

Owner == [k \in Keys |-> IF Persisted(k) = {} THEN NoTask
                         ELSE CHOOSE t \in Persisted(k) : TRUE]
Worked == {KeyOf(t) : t \in {u \in Tasks : runs[u] > 0}}
Told == [k \in Keys |-> {answer[r] : r \in {q \in Requests : Key[q] = k}} \ {NoTask}]

\* What CHOOSE picks depends on the set alone.
Any(S) == CHOOSE t \in S : TRUE

\* There is one owner at most, and clients are told of no other task.
LEMMA OwnerFacts ==
  ASSUME Inv, NEW k \in Keys
  PROVE  /\ \A t \in Persisted(k) : Owner[k] = t
         /\ Persisted(k) = {} => Owner[k] = NoTask
         /\ Persisted(k) # {} => Owner[k] # NoTask
         /\ Told[k] \subseteq {Owner[k]}
         /\ Persisted(k) = {} => Told[k] = {}
<1> USE DEF Inv
<1>1. \A t, u \in Persisted(k) : t = u
  BY DEF AttachedInv, Persisted
<1>2. \A t \in Persisted(k) : Owner[k] = t
  BY <1>1 DEF Owner
<1>3. Persisted(k) = {} => Owner[k] = NoTask
  BY DEF Owner
<1>4. \A t \in Persisted(k) : t # NoTask
  BY NoTaskAssumption DEF Persisted, TypeOK
<1>5. \A x \in Told[k] : x \in Persisted(k)
  <2> SUFFICES ASSUME NEW x \in Told[k] PROVE x \in Persisted(k)
    OBVIOUS
  <2>1. PICK r \in Requests : Key[r] = k /\ x = answer[r] /\ x # NoTask
    BY DEF Told
  <2> QED BY <2>1 DEF OwnerInv
<1> QED BY <1>2, <1>3, <1>4, <1>5

\* What a step means for the contract.
Same == attached' = attached /\ Worked' = Worked /\ answer' = answer
Telling == /\ attached' = attached /\ Worked' = Worked
           /\ \E r \in Requests : \E t \in Persisted(Key[r]) : answer' = [answer EXCEPT ![r] = t]
Working == /\ attached' = attached /\ answer' = answer
           /\ \E k \in Keys : Persisted(k) # {} /\ Worked' = Worked \cup {k}
Binding == \E r \in Requests : \E t \in Tasks :
               /\ KeyOf(t) = Key[r] /\ Persisted(Key[r]) = {}
               /\ attached' = attached \cup {t}
               /\ Worked' = Worked
               /\ answer' \in {answer, [answer EXCEPT ![r] = t]}

\* A step that neither attaches, starts nor answers stutters.
LEMMA SameStep == Same => UNCHANGED Contract!vars
  BY DEF Same, Worked, Persisted, Contract!vars

\* The owner stays while no task is attached.
LEMMA OwnerStays == attached' = attached => Owner' = Owner
  BY DEF Owner, Persisted

\* What one client is told is added to what its key's clients were told.
LEMMA ToldGrows ==
  ASSUME TypeOK, NEW r \in Requests, NEW t \in Tasks, answer' = [answer EXCEPT ![r] = t],
         Key[r] \in Keys, Told[Key[r]] \subseteq {t}
  PROVE  Told' = [Told EXCEPT ![Key[r]] = {t}]
<1>1. /\ answer'[r] = t /\ t # NoTask
      /\ \A s \in Requests : s # r => answer'[s] = answer[s]
  BY NoTaskAssumption DEF TypeOK
<1>2. ASSUME NEW k \in Keys, k # Key[r]
      PROVE  Told'[k] = Told[k]
  BY <1>1, <1>2 DEF Told
<1>3. Told'[Key[r]] = {t}
  <2>1. t \in Told'[Key[r]]
    BY <1>1 DEF Told
  <2>2. ASSUME NEW x \in Told'[Key[r]] PROVE x = t
    <3>1. PICK s \in Requests : Key[s] = Key[r] /\ x = answer'[s] /\ x # NoTask
      BY <2>2 DEF Told
    <3>2. s # r => answer[s] \in Told[Key[r]]
      BY <1>1, <3>1 DEF Told
    <3> QED BY <1>1, <3>1, <3>2
  <2> QED BY <2>1, <2>2
<1>4. Told' = [k \in Keys |-> Told'[k]] /\ Told = [k \in Keys |-> Told[k]]
  BY DEF Told
<1> QED BY <1>2, <1>3, <1>4

\* An answer tells the owner.
LEMMA TellingStep == Inv /\ Telling => Contract!Next
<1> SUFFICES ASSUME Inv, Telling PROVE Contract!Next
  OBVIOUS
<1>0. PICK r \in Requests : \E t \in Persisted(Key[r]) : answer' = [answer EXCEPT ![r] = t]
  BY DEF Telling
<1>1. PICK t \in Persisted(Key[r]) : answer' = [answer EXCEPT ![r] = t]
  BY <1>0
<1> DEFINE k == Key[r]
<1>2. k \in Keys /\ t \in Tasks
  BY SubmissionAssumption DEF Persisted, Inv, TypeOK
<1>3. Owner[k] = t /\ t # NoTask /\ Told[k] \subseteq {t}
  BY <1>2, OwnerFacts, NoTaskAssumption
<1>4. Told' = [Told EXCEPT ![k] = {Owner[k]}]
  BY <1>1, <1>2, <1>3, ToldGrows DEF Inv
<1>5. Owner' = Owner /\ Worked' = Worked
  BY OwnerStays DEF Telling
<1>6. Contract!Tell(k)
  BY <1>3, <1>4, <1>5 DEF Contract!Tell, Owner, Worked, Told
<1> QED BY <1>2, <1>6 DEF Contract!Next

\* A start works for a key that has an owner.
LEMMA WorkingStep == Inv /\ Working => Contract!Next
<1> SUFFICES ASSUME Inv, Working PROVE Contract!Next
  OBVIOUS
<1>1. PICK k \in Keys : Persisted(k) # {} /\ Worked' = Worked \cup {k}
  BY DEF Working
<1>2. Owner[k] # NoTask
  BY <1>1, OwnerFacts
<1>3. Owner' = Owner
  BY OwnerStays DEF Working
<1>4. Told' = Told
  BY DEF Working, Told
<1>5. Contract!Work(k)
  BY <1>1, <1>2, <1>3, <1>4 DEF Contract!Work, Owner, Worked, Told
<1> QED BY <1>5 DEF Contract!Next

\* Rows that are committed bind the key.
LEMMA BindingStep == Inv /\ Inv' /\ Binding => Contract!Next
<1> SUFFICES ASSUME Inv, Inv', Binding PROVE Contract!Next
  OBVIOUS
<1>1. PICK r \in Requests, t \in Tasks :
          /\ KeyOf(t) = Key[r] /\ Persisted(Key[r]) = {}
          /\ attached' = attached \cup {t}
          /\ answer' \in {answer, [answer EXCEPT ![r] = t]}
  BY DEF Binding
<1> DEFINE k == Key[r]
<1>2. k \in Keys
  BY SubmissionAssumption
<1>3. Owner[k] = NoTask /\ Told[k] = {}
  BY <1>1, <1>2, OwnerFacts
<1>4. Persisted(k)' = {t} /\ \A j \in Keys : j # k => Persisted(j)' = Persisted(j)
  BY <1>1 DEF Persisted, KeyOf
<1>5. Owner' = [Owner EXCEPT ![k] = t]
  <2>1. Owner'[k] = t
    <3>1. Owner'[k] = CHOOSE x \in {t} : TRUE
      BY <1>2, <1>4 DEF Owner
    <3> QED BY <3>1
  <2>2. \A j \in Keys : j # k => Owner'[j] = Owner[j]
    <3>1. \A j \in Keys : Owner[j] = IF Persisted(j) = {} THEN NoTask ELSE Any(Persisted(j))
      BY DEF Owner, Any
    <3>2. \A j \in Keys : Owner'[j] = IF Persisted(j)' = {} THEN NoTask ELSE Any(Persisted(j)')
      BY DEF Owner, Any
    <3> QED BY <1>4, <3>1, <3>2
  <2>3. Owner' = [j \in Keys |-> Owner'[j]] /\ Owner = [j \in Keys |-> Owner[j]]
    BY DEF Owner
  <2> QED BY <1>2, <2>1, <2>2, <2>3
<1>6. Told' \in {Told, [Told EXCEPT ![k] = {t}]}
  <2>1. CASE answer' = answer
    BY <2>1 DEF Told
  <2>2. CASE answer' = [answer EXCEPT ![r] = t]
    BY <1>2, <1>3, <2>2, ToldGrows DEF Inv
  <2> QED BY <1>1, <2>1, <2>2
<1>7. Worked' = Worked
  BY DEF Binding
<1>8. Contract!Bind(k, t)
  BY <1>3, <1>5, <1>6, <1>7 DEF Contract!Bind, Owner, Worked, Told
<1> QED BY <1>2, <1>8 DEF Contract!Next

\* A browser that is started works for the key of its task.
LEMMA WorkedGrows ==
  ASSUME TypeOK, NEW t \in Tasks, runs' = [runs EXCEPT ![t] = runs[t] + 1]
  PROVE  Worked' = Worked \cup {KeyOf(t)}
<1>1. runs'[t] > 0 /\ \A u \in Tasks : u # t => runs'[u] = runs[u]
  BY DEF TypeOK
<1> QED BY <1>1 DEF Worked

\* Every step of a submission is one of these.
LEMMA Meaning ==
  ASSUME Inv, [Next]_vars
  PROVE  Same \/ Telling \/ Working \/ Binding
<1> USE DEF Inv
<1>0. runs' = runs => Worked' = Worked
  BY DEF Worked
<1>1. ASSUME NEW r \in Requests, Submit(r) \/ Lock(r) \/ Assess(r) \/ Create(r)
                \/ AttachConflicts(r) \/ AttachRaises(r) \/ Resolve(r)
      PROVE  Same
  BY <1>0, <1>1 DEF Same, Submit, Lock, Assess, Create, AttachConflicts, AttachRaises,
     Resolve, Refuse, tasks
<1>2. ASSUME NEW r \in Requests, Lookup(r)
      PROVE  Same \/ Telling
  BY <1>0, <1>2 DEF Same, Telling, Lookup, Answer, Persisted, tasks
<1>3. ASSUME NEW r \in Requests, CancelOrphan(r)
      PROVE  Same \/ Telling
  <2>1. found[r] \in Persisted(Key[r]) \/ pc[r] = "cancel_refused"
    BY <1>3 DEF CancelOrphan, TypeOK, OwnerInv
  <2> QED BY <1>0, <1>3, <2>1 DEF Same, Telling, CancelOrphan, Answer, Refuse
<1>4. ASSUME NEW r \in Requests, BrowseEnds(r)
      PROVE  Same \/ Telling
  <2>1. found[r] \in Persisted(Key[r])
    BY <1>4 DEF BrowseEnds, TypeOK, OwnerInv
  <2> QED BY <1>0, <1>4, <2>1 DEF Same, Telling, BrowseEnds, Answer, Refuse
<1>5. ASSUME NEW r \in Requests, Recover(r)
      PROVE  Same \/ Telling \/ Working
  <2> DEFINE t == found[r]
  <2>1. t \in Persisted(Key[r]) /\ t \in Tasks /\ KeyOf(t) = Key[r] /\ Key[r] \in Keys
    BY <1>5, SubmissionAssumption DEF Recover, TypeOK, OwnerInv, Persisted
  <2>2. CASE MayRun(t)
    <3>1. runs' = [runs EXCEPT ![t] = runs[t] + 1] /\ attached' = attached /\ answer' = answer
      BY <1>5, <2>2 DEF Recover
    <3>2. Worked' = Worked \cup {KeyOf(t)}
      BY <2>1, <3>1, WorkedGrows
    <3> QED BY <2>1, <3>1, <3>2 DEF Working
  <2>3. CASE ~MayRun(t)
    BY <1>0, <1>5, <2>1, <2>3 DEF Same, Telling, Recover, Answer, Refuse
  <2> QED BY <2>2, <2>3
<1>6. ASSUME NEW t \in Tasks, Continue(t)
      PROVE  Working
  <2>1. t \in Persisted(KeyOf(t)) /\ KeyOf(t) \in Keys
    BY <1>6, TaskType, SubmissionAssumption DEF Continue, AttachedInv, Persisted, KeyOf
  <2>2. Worked' = Worked \cup {KeyOf(t)}
    BY <1>6, WorkedGrows DEF Continue
  <2> QED BY <1>6, <2>1, <2>2 DEF Continue, Working
<1>7. ASSUME NEW t \in Tasks, Decide(t)
      PROVE  Same
  BY <1>0, <1>7 DEF Same, Decide
<1>8. ASSUME NEW w \in Workers, Crash(w)
      PROVE  Same
  BY <1>0, <1>8 DEF Same, Crash, tasks
<1>9. ASSUME NEW r \in Requests, Attach(r)
      PROVE  Binding
  <2>1. Mine(r) \in Tasks /\ KeyOf(Mine(r)) = Key[r]
    BY <1>9, MineType DEF Attach
  <2> QED BY <1>0, <1>9, <2>1 DEF Binding, Attach, Unique, Answer, Refuse
<1>10. CASE UNCHANGED vars
  BY <1>0, <1>10 DEF Same, vars, tasks
<1> QED BY <1>1, <1>2, <1>3, <1>4, <1>5, <1>6, <1>7, <1>8, <1>9, <1>10 DEF Next, Handle

\* Workers that share nothing but the database keep the contract of the key:
\* it is bound to one task for good, clients are only ever told of that task,
\* and the browser works only for a task that was bound.
THEOREM IdempotencyImplemented == Spec => ImplementsIdempotency
<1>1. Init => Contract!Init
  BY DEF Init, Contract!Init, Persisted
<1>2. Inv /\ Inv' /\ [Next]_vars => [Contract!Next]_Contract!vars
  BY Meaning, SameStep, TellingStep, WorkingStep, BindingStep
<1> QED BY Invariant, <1>1, <1>2, PTL DEF Spec, ImplementsIdempotency, Contract!Spec

===============================================================================
