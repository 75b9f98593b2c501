---------------------------- MODULE CoordinatorProofs ----------------------------
(***************************************************************************)
(* Theorems about Coordinator for any number of calls, organizations,      *)
(* plans and budgets: its types, the truth of the durable snapshot, the    *)
(* replan budget, that an orderly retry repeats nothing, and that it       *)
(* implements CheckpointContract.                                          *)
(***************************************************************************)
EXTENDS Coordinator, FiniteSetTheorems, WellFoundedInduction, TLAPS

(***************************************************************************)
(* The invariant.                                                          *)
(***************************************************************************)

\* A call that is here has no snapshot of the task in memory.
Blank == {"start", "recheck", "plan"} \cup Ended

\* A call that is here is at its current subtask.
AtSubtask == {"execute", "succeeded", "failed"}

\* Where a call is, or will be once its snapshot is saved.
At(c) == IF pc[c] = "save" THEN after[c] ELSE pc[c]

\* The snapshot in memory has a plan and subtasks left wherever they are used.
PlaceInv(c) ==
    /\ pc[c] \in Blank => mine[c] = Fresh
    /\ pc[c] \notin Blank => mine[c].plan # NoPlan
    /\ pc[c] = "save" => after[c] \in {"loop", "replan", "returned"} \cup AtSubtask
    /\ At(c) \in AtSubtask => Left(mine[c]) # {}
    /\ pc[c] \notin Ended => answer[c] = "nothing"

\* It claims nothing that did not happen.
TruthInv(c) ==
    /\ mine[c].completed \subseteq performed \cup skipped
    /\ At(c) = "succeeded" => Current(mine[c]) \in performed

\* Its status is settled only on the way to the end of the call.
StatusInv(c) ==
    /\ mine[c].status # "running" =>
           \/ pc[c] \in {"review", "insert_review"}
           \/ pc[c] = "save" /\ after[c] = "returned"
    /\ pc[c] = "save" /\ after[c] = "returned" => mine[c].status # "running"
    /\ pc[c] \in {"review", "insert_review"} => mine[c].status = "needs_human"
    /\ mine[c].status = "completed" => pc[c] = "save" /\ Left(mine[c]) = {}
    /\ mine[c].status = "needs_human" /\ pc[c] = "save" => review # "none"

\* What was never saved has no progress and paid for nothing.
BudgetInv(c) ==
    /\ mine[c].version = 0 =>
           /\ mine[c].replans = 0
           /\ mine[c].completed = {}
           /\ mine[c].status \in {"running", "failed"}
           /\ \/ pc[c] \in Blank
              \/ pc[c] = "save" /\ after[c] \in {"loop", "returned"}
    /\ mine[c].replans <= MaxReplans

CallInv(c) == PlaceInv(c) /\ TruthInv(c) /\ StatusInv(c) /\ BudgetInv(c)

\* A snapshot in memory is not ahead of the row, and one that is not behind
\* differs from it only by what it is about to save.
RowInv(c) ==
    mine[c].version > 0 =>
        /\ row # NoRow
        /\ mine[c].version <= row.snap.version
        /\ mine[c].version = row.snap.version =>
               /\ row.snap.status \notin {"completed", "needs_human"}
               /\ row.snap.completed \subseteq mine[c].completed
               /\ mine[c].replans =
                      IF pc[c] = "save" /\ after[c] = "replan"
                      THEN row.snap.replans + 1 ELSE row.snap.replans

\* The calls that paid for a replan and have not asked yet.
AtReplan == {c \in Calls : pc[c] = "replan"}

Ledger ==
    /\ IsFiniteSet(AtReplan)
    /\ row = NoRow => asked = 0
    /\ row # NoRow => /\ asked + Cardinality(AtReplan) <= row.snap.replans
                      /\ row.snap.replans <= MaxReplans

Inv ==
    /\ TypeOK
    /\ \A c \in Calls : CallInv(c) /\ RowInv(c)
    /\ SnapshotIsTrue
    /\ Ledger

(***************************************************************************)
(* The invariant behind RepeatNeedsFault: as long as no calls overlap and  *)
(* none died, the one call at work is the only writer, and everything that *)
(* was done is in its snapshot.                                            *)
(***************************************************************************)

Working(c) == pc[c] \notin Ended \cup {"start"}

Calm == ~overlapped /\ \A c \in Calls : pc[c] # "dead"

Known == IF row = NoRow THEN {} ELSE row.snap.completed

Serial ==
    /\ repeated => ~Calm
    /\ Calm =>
        /\ \A c, d \in Calls : Working(c) /\ Working(d) => c = d
        /\ (\A c \in Calls : Working(c) => pc[c] \in {"recheck", "plan"})
               => performed \subseteq Known
        /\ \A c \in Calls : pc[c] = "plan" => row = NoRow
        /\ \A c \in Calls : pc[c] \notin Blank =>
               /\ MayWrite(c)
               /\ performed \subseteq mine[c].completed \cup
                      (IF At(c) = "succeeded" THEN {Current(mine[c])} ELSE {})

(***************************************************************************)
(* Snapshots and their current subtask.                                    *)
(***************************************************************************)

\* A set of numbers up to n that is not empty has a smallest one.
LEMMA SmallestOf ==
  ASSUME NEW n \in Nat, NEW S \in SUBSET (1 .. n), S # {}
  PROVE  \E i \in S : \A j \in S : i <= j
<1> DEFINE B == {1 .. i : i \in S}
<1> DEFINE R == {ss \in (SUBSET (1 .. n)) \X (SUBSET (1 .. n)) :
                     ss[1] \subseteq ss[2] /\ ss[1] # ss[2]}
<1>1. IsWellFoundedOn(R, SUBSET (1 .. n))
  <2>1. R = StrictSubsetOrdering(1 .. n)
    BY DEF StrictSubsetOrdering
  <2>2. IsFiniteSet(1 .. n)
    BY FS_Interval
  <2>3. QED
    BY <2>1, <2>2, FS_StrictSubsetOrderingWellFounded, FS_FiniteSubsetsOfFinite
<1>2. B \subseteq SUBSET (1 .. n) /\ B # {}
  <2>1. B \subseteq SUBSET (1 .. n)
    OBVIOUS
  <2>2. PICK i \in S : TRUE
    OBVIOUS
  <2>3. 1 .. i \in B
    OBVIOUS
  <2>4. QED
    BY <2>1, <2>3
<1>3. \E x \in B : \A y \in B : <<y, x>> \notin R
  <2> HIDE DEF B, R
  <2> QED
    BY <1>1, <1>2, WFMin
<1>4. PICK i \in S : \A y \in B : <<y, 1 .. i>> \notin R
  BY <1>3
<1>5. ASSUME NEW j \in S, j < i PROVE FALSE
  <2>1. 1 .. j \in B /\ 1 .. j \subseteq 1 .. i /\ i \in 1 .. i /\ i \notin 1 .. j
    BY <1>5
  <2>2. 1 .. j \in SUBSET (1 .. n) /\ 1 .. i \in SUBSET (1 .. n)
    OBVIOUS
  <2>3. QED
    BY <1>4, <2>1, <2>2
<1>6. QED
  BY <1>5

\* A snapshot with subtasks left has a current one, which is not behind it.
LEMMA CurrentType ==
  ASSUME NEW s \in Snapshots, s.plan # NoPlan, Left(s) # {}
  PROVE  /\ Position(s) \in DOMAIN s.plan.steps
         /\ Current(s) \in PlanIds \X Nat
         /\ Current(s) \notin s.completed
<1>1. s.plan.id \in PlanIds /\ s.plan.steps \in Seq(Strategies)
  BY DEF Snapshots, Plans
<1>2. PICK n \in Nat : DOMAIN s.plan.steps = 1 .. n
  BY <1>1
<1>3. Left(s) \in SUBSET (1 .. n)
  BY <1>2 DEF Left
<1>4. \E i \in Left(s) : \A j \in Left(s) : i <= j
  BY <1>3, SmallestOf
<1>5. Position(s) \in Left(s)
  BY <1>4 DEF Position
<1>6. QED
  BY <1>1, <1>2, <1>3, <1>5 DEF Current, Left

\* The fields of a fresh snapshot.
LEMMA FreshType ==
  /\ Fresh \in Snapshots /\ Fresh.version = 0 /\ Fresh.replans = 0 /\ Fresh.completed = {}
  /\ Fresh.status = "running"
  BY DEF Fresh, Snapshots, Statuses

\* Another status leaves the rest of a snapshot alone.
LEMMA WithType ==
  ASSUME NEW s \in Snapshots, NEW status \in Statuses
  PROVE  LET t == With(s, status)
         IN  /\ t \in Snapshots /\ t.version = s.version /\ t.plan = s.plan
             /\ t.completed = s.completed /\ t.replans = s.replans /\ t.status = status
             /\ Left(t) = Left(s)
  BY DEF With, Snapshots, Left

\* So does a resumption.
LEMMA ResumedType ==
  ASSUME NEW s \in Snapshots
  PROVE  LET t == Resumed(s)
         IN  /\ t \in Snapshots /\ t.version = s.version /\ t.plan = s.plan
             /\ t.completed = s.completed /\ t.replans = s.replans /\ t.status = "running"
  BY DEF Resumed, Snapshots, Statuses

\* Saving moves to the next version and changes nothing else.
LEMMA SavedType ==
  ASSUME NEW s \in Snapshots
  PROVE  LET t == Saved(s)
         IN  /\ t \in Snapshots /\ t.version = s.version + 1 /\ t.plan = s.plan
             /\ t.completed = s.completed /\ t.replans = s.replans /\ t.status = s.status
             /\ Left(t) = Left(s) /\ Current(t) = Current(s)
<1>1. Saved(s).plan = s.plan /\ Saved(s).completed = s.completed
  BY DEF Saved, Snapshots
<1>2. Left(Saved(s)) = Left(s)
  BY <1>1 DEF Left
<1>3. Current(Saved(s)) = Current(s)
  BY <1>1, <1>2 DEF Current, Position
<1>4. QED
  BY <1>1, <1>2, <1>3 DEF Saved, Snapshots

\* Paying for a replan counts it.
LEMMA PaidType ==
  ASSUME NEW s \in Snapshots
  PROVE  LET t == Paid(s)
         IN  /\ t \in Snapshots /\ t.version = s.version /\ t.plan = s.plan
             /\ t.completed = s.completed /\ t.replans = s.replans + 1 /\ t.status = s.status
  BY DEF Paid, Snapshots

\* The current subtask is put behind.
LEMMA BehindType ==
  ASSUME NEW s \in Snapshots, s.plan # NoPlan, Left(s) # {}
  PROVE  LET t == Behind(s)
         IN  /\ t \in Snapshots /\ t.version = s.version /\ t.plan = s.plan
             /\ t.completed = s.completed \cup {Current(s)} /\ t.replans = s.replans
             /\ t.status = s.status
  BY CurrentType DEF Behind, Snapshots

\* A new plan leaves the rest of a snapshot alone.
LEMMA PlannedType ==
  ASSUME NEW s \in Snapshots, NEW plan \in Plans
  PROVE  LET t == [s EXCEPT !.plan = plan]
         IN  /\ t \in Snapshots /\ t.version = s.version /\ t.plan # NoPlan
             /\ t.completed = s.completed /\ t.replans = s.replans /\ t.status = s.status
  BY NullAssumption DEF Snapshots

\* A planner that raises leaves an empty plan and the status failed.
LEMMA EmptyPlanType ==
  ASSUME NEW s \in Snapshots, NEW c \in Calls
  PROVE  LET t == [s EXCEPT !.status = "failed", !.plan = EmptyPlan(c)]
         IN  /\ t \in Snapshots /\ t.version = s.version /\ t.plan # NoPlan
             /\ t.completed = s.completed /\ t.replans = s.replans /\ t.status = "failed"
<1>1. EmptyPlan(c) \in Plans
  BY DEF EmptyPlan, Plan, Plans, PlanIds
<1>2. QED
  BY <1>1, NullAssumption DEF Snapshots, Statuses

(***************************************************************************)
(* The moves of a call.                                                    *)
(***************************************************************************)

\* The other calls stay where they are.
Moved(c) ==
    \A d \in Calls : d # c => /\ pc'[d] = pc[d] /\ after'[d] = after[d]
                              /\ mine'[d] = mine[d] /\ answer'[d] = answer[d]

\* The memory of all calls has its types.
Memory ==
    /\ pc \in [Calls -> PCs]
    /\ after \in [Calls -> PCs]
    /\ mine \in [Calls -> Snapshots]
    /\ tries \in [Calls -> 0 .. MaxRetries]
    /\ answer \in [Calls -> Statuses \cup {"nothing"}]

\* A call that continues has the snapshot it continues with.
LEMMA ContinueMove ==
  ASSUME TypeOK, NEW c \in Calls, NEW next \in PCs, NEW s \in Snapshots, Continue(c, next, s)
  PROVE  /\ Memory' /\ Moved(c) /\ answer' = answer
         /\ pc'[c] = next /\ mine'[c] = s /\ after'[c] = after[c]
  BY DEF TypeOK, Memory, Moved, Continue, Goto

\* So does one that saves it first.
LEMMA SaveThenMove ==
  ASSUME TypeOK, NEW c \in Calls, NEW next \in PCs, NEW s \in Snapshots, SaveThen(c, next, s),
         tries' \in [Calls -> 0 .. MaxRetries]
  PROVE  /\ Memory' /\ Moved(c) /\ answer' = answer
         /\ pc'[c] = "save" /\ mine'[c] = s /\ after'[c] = next
<1>1. "save" \in PCs
  BY DEF PCs
<1>2. QED
  BY <1>1 DEF TypeOK, Memory, Moved, SaveThen, Goto

\* A call that ends forgets its snapshot.
LEMMA EndMove ==
  ASSUME TypeOK, NEW c \in Calls, NEW how \in Ended, NEW status \in Statuses \cup {"nothing"},
         End(c, how, status)
  PROVE  /\ Memory' /\ Moved(c)
         /\ pc'[c] = how /\ mine'[c] = Fresh /\ after'[c] = "start" /\ answer'[c] = status
<1>1. how \in PCs /\ "start" \in PCs /\ 0 \in 0 .. MaxRetries
  BY CoordinatorAssumption DEF PCs, Ended
<1>2. QED
  BY <1>1, FreshType DEF TypeOK, Memory, Moved, End, Goto

\* A call that ended keeps its invariants.
LEMMA EndInv ==
  ASSUME TypeOK, NEW c \in Calls, NEW how \in Ended, NEW status \in Statuses \cup {"nothing"},
         End(c, how, status)
  PROVE  CallInv(c)' /\ RowInv(c)'
<1>1. pc'[c] = how /\ mine'[c] = Fresh
  BY EndMove
<1>2. how \in Blank /\ how \notin AtSubtask /\ how # "save" /\ how # "succeeded"
      /\ how \notin {"review", "insert_review"}
  BY DEF Ended, Blank, AtSubtask
<1>3. QED
  BY <1>1, <1>2, FreshType, CoordinatorAssumption
  DEF CallInv, PlaceInv, TruthInv, StatusInv, BudgetInv, RowInv, At, Ended

\* What a call does leaves the invariants of the others alone, if it takes
\* nothing back that was done.
LEMMA Frame ==
  ASSUME Inv, NEW c \in Calls, Moved(c), NEW d \in Calls, d # c,
         performed \subseteq performed', skipped \subseteq skipped',
         review # "none" => review' # "none"
  PROVE  CallInv(d)' /\ (UNCHANGED row => RowInv(d)')
<1>1. /\ pc'[d] = pc[d] /\ after'[d] = after[d] /\ mine'[d] = mine[d] /\ answer'[d] = answer[d]
      /\ CallInv(d) /\ RowInv(d)
  BY DEF Moved, Inv
<1>2. QED
  BY <1>1 DEF CallInv, PlaceInv, TruthInv, StatusInv, BudgetInv, RowInv, At

\* A step that leaves the row and the questions alone, and does not bring its
\* call to a replan, keeps the ledger.
LEMMA LedgerFrame ==
  ASSUME Inv, NEW c \in Calls, Moved(c), UNCHANGED <<row, asked>>, pc'[c] # "replan"
  PROVE  Ledger'
<1>1. AtReplan' = AtReplan \ {c}
  BY DEF AtReplan, Moved
<1>2. IsFiniteSet(AtReplan) /\ asked \in Nat
  BY DEF Inv, Ledger, TypeOK
<1>3. IsFiniteSet(AtReplan') /\ Cardinality(AtReplan') <= Cardinality(AtReplan)
      /\ Cardinality(AtReplan') \in Nat /\ Cardinality(AtReplan) \in Nat
  <2>1. AtReplan' \in SUBSET AtReplan
    BY <1>1
  <2>2. IsFiniteSet(AtReplan') /\ Cardinality(AtReplan') <= Cardinality(AtReplan)
    BY <1>2, <2>1, FS_Subset
  <2>3. QED
    BY <1>2, <2>2, FS_CardinalityType
<1>4. row \in Rows => row.snap.replans \in Nat
  BY DEF Rows, Snapshots
<1>5. row \in Rows \cup {NoRow}
  BY DEF Inv, TypeOK
<1>6. QED
  BY <1>2, <1>3, <1>4, <1>5 DEF Inv, Ledger

(***************************************************************************)
(* Every step keeps the invariant.                                         *)
(***************************************************************************)

\* The history only grows.
LEMMA History ==
  ASSUME UNCHANGED history
  PROVE  /\ UNCHANGED <<performed, skipped, repeated, overlapped, asked>>
         /\ performed \subseteq performed' /\ skipped \subseteq skipped'
  BY DEF history

\* A step that leaves row and review alone keeps the invariant if it does so
\* for the call that takes it.
LEMMA MemoryStep ==
  ASSUME Inv, NEW c \in Calls, Memory', Moved(c), CallInv(c)', RowInv(c)', UNCHANGED row,
         review # "none" => review' # "none", review' \in {"none", "pending", "resolved"},
         performed \subseteq performed', skipped \subseteq skipped',
         performed' \subseteq PlanIds \X Nat, skipped' \subseteq PlanIds \X Nat,
         repeated' \in BOOLEAN, overlapped' \in BOOLEAN, asked' \in Nat, Ledger'
  PROVE  Inv'
<1>1. TypeOK'
  <2>1. repeated' \in BOOLEAN /\ overlapped' \in BOOLEAN
    OBVIOUS
  <2>2. QED
    BY <2>1 DEF Inv, TypeOK, Memory
<1>2. \A d \in Calls : CallInv(d)' /\ RowInv(d)'
  <2>1. ASSUME NEW d \in Calls, d # c PROVE CallInv(d)' /\ RowInv(d)'
    BY <2>1, Frame
  <2>2. QED
    BY <2>1
<1>3. SnapshotIsTrue'
  BY DEF Inv, SnapshotIsTrue
<1>4. QED
  BY <1>1, <1>2, <1>3 DEF Inv

\* The same for a step that leaves the whole database and the history alone.
LEMMA QuietStep ==
  ASSUME Inv, NEW c \in Calls, Memory', Moved(c), CallInv(c)', RowInv(c)', pc'[c] # "replan",
         UNCHANGED <<database, history>>
  PROVE  Inv'
<1>1. UNCHANGED <<row, review, performed, skipped, repeated, overlapped, asked>>
  BY DEF database, history
<1>2. Ledger'
  BY <1>1, LedgerFrame
<1>3. repeated' \in BOOLEAN /\ overlapped' \in BOOLEAN
  BY <1>1, Zenon DEF Inv, TypeOK
<1>4. QED
  BY <1>1, <1>2, <1>3, MemoryStep DEF Inv, TypeOK

\* What the invariant says of a call that acts.
LEMMA Acting ==
  ASSUME Inv, NEW c \in Calls
  PROVE  /\ TypeOK /\ CallInv(c) /\ RowInv(c) /\ mine[c] \in Snapshots
         /\ pc[c] \in PCs /\ after[c] \in PCs
         /\ tries \in [Calls -> 0 .. MaxRetries] /\ tries[c] \in 0 .. MaxRetries
         /\ row \in Rows \cup {NoRow} /\ NoRow \notin Rows
         /\ review \in {"none", "pending", "resolved"}
  BY NullAssumption DEF Inv, TypeOK

\* A call that ends keeps the invariant.
LEMMA EndStep ==
  ASSUME Inv, NEW c \in Calls, NEW how \in Ended, NEW status \in Statuses \cup {"nothing"},
         End(c, how, status), UNCHANGED <<database, history>>
  PROVE  Inv'
  BY Acting, EndMove, EndInv, QuietStep DEF Ended

LEMMA RecheckInv ==
  ASSUME Inv, NEW c \in Calls, Recheck(c)
  PROVE  Inv'
<1>1. CASE row # NoRow
  BY <1>1, EndStep DEF Recheck, Ended
<1>2. CASE row = NoRow
  <2>1. Continue(c, "plan", Fresh) /\ UNCHANGED <<database, history>> /\ pc[c] = "recheck"
    BY <1>2 DEF Recheck
  <2>2. Memory' /\ Moved(c) /\ answer' = answer /\ pc'[c] = "plan" /\ mine'[c] = Fresh
    BY <2>1, Acting, FreshType, ContinueMove DEF PCs
  <2>3. answer[c] = "nothing"
    BY <2>1, Acting DEF CallInv, PlaceInv, Ended
  <2>4. CallInv(c)' /\ RowInv(c)'
    BY <2>2, <2>3, FreshType, CoordinatorAssumption
    DEF CallInv, PlaceInv, TruthInv, StatusInv, BudgetInv, RowInv, At, Blank, AtSubtask, Ended
  <2>5. QED
    BY <2>1, <2>2, <2>4, QuietStep
<1>3. QED
  BY <1>1, <1>2

LEMMA CreatePlanInv ==
  ASSUME Inv, NEW c \in Calls, CreatePlan(c)
  PROVE  Inv'
<1>1. pc[c] = "plan" /\ UNCHANGED <<tries, database, history>>
  BY DEF CreatePlan
<1>2. mine[c] = Fresh /\ answer[c] = "nothing" /\ mine[c] \in Snapshots
  BY <1>1, Acting DEF CallInv, PlaceInv, Blank, Ended
<1>3. PICK next \in {"loop", "returned"}, s \in Snapshots :
          /\ SaveThen(c, next, s)
          /\ s.version = 0 /\ s.plan # NoPlan /\ s.completed = {} /\ s.replans = 0
          /\ s.status = IF next = "loop" THEN "running" ELSE "failed"
  <2>1. CASE \E shape \in Shapes :
                 SaveThen(c, "loop", [mine[c] EXCEPT !.plan = Plan(<<c, 0>>, shape)])
    <3>1. PICK shape \in Shapes :
              SaveThen(c, "loop", [mine[c] EXCEPT !.plan = Plan(<<c, 0>>, shape)])
      BY <2>1
    <3>2. PICK plan \in Plans : plan = Plan(<<c, 0>>, shape)
      BY CoordinatorAssumption DEF Plan, Plans, PlanIds
    <3> DEFINE t == [mine[c] EXCEPT !.plan = plan]
    <3>3. /\ t \in Snapshots /\ t.version = mine[c].version /\ t.plan # NoPlan
          /\ t.completed = mine[c].completed /\ t.replans = mine[c].replans
          /\ t.status = mine[c].status
      BY <1>2, PlannedType
    <3>4. SaveThen(c, "loop", t)
      BY <3>1, <3>2
    <3> HIDE DEF t
    <3>5. QED
      BY <1>2, <3>3, <3>4, FreshType
  <2>2. CASE SaveThen(c, "returned",
                      [mine[c] EXCEPT !.status = "failed", !.plan = EmptyPlan(c)])
    <3> DEFINE t == [mine[c] EXCEPT !.status = "failed", !.plan = EmptyPlan(c)]
    <3>1. /\ t \in Snapshots /\ t.version = mine[c].version /\ t.plan # NoPlan
          /\ t.completed = mine[c].completed /\ t.replans = mine[c].replans
          /\ t.status = "failed"
      BY <1>2, EmptyPlanType
    <3>2. SaveThen(c, "returned", t)
      BY <2>2
    <3> HIDE DEF t
    <3>3. QED
      BY <1>2, <3>1, <3>2, FreshType
  <2>3. QED
    BY <2>1, <2>2 DEF CreatePlan
<1>4. /\ Memory' /\ Moved(c) /\ answer' = answer
      /\ pc'[c] = "save" /\ mine'[c] = s /\ after'[c] = next
  BY <1>1, <1>3, Acting, SaveThenMove DEF PCs
<1>5. CallInv(c)' /\ RowInv(c)'
  BY <1>2, <1>3, <1>4, CoordinatorAssumption
  DEF CallInv, PlaceInv, TruthInv, StatusInv, BudgetInv, RowInv, At, Blank, AtSubtask, Ended
<1>6. QED
  BY <1>1, <1>4, <1>5, QuietStep

LEMMA NextSubtaskInv ==
  ASSUME Inv, NEW c \in Calls, NextSubtask(c)
  PROVE  Inv'
<1>1. pc[c] = "loop" /\ UNCHANGED <<tries, database, history>>
  BY DEF NextSubtask
<1>2. /\ answer[c] = "nothing" /\ mine[c] \in Snapshots /\ mine[c].plan # NoPlan
      /\ mine[c].version # 0 /\ mine[c].status = "running"
  BY <1>1, Acting
  DEF CallInv, PlaceInv, StatusInv, BudgetInv, Blank, Ended
<1>3. PICK next \in {"execute", "returned"}, s \in Snapshots :
          /\ SaveThen(c, next, s)
          /\ s.version = mine[c].version /\ s.plan = mine[c].plan
          /\ s.completed = mine[c].completed /\ s.replans = mine[c].replans
          /\ Left(s) = Left(mine[c])
          /\ s.status = IF next = "execute" THEN "running" ELSE "completed"
          /\ next = "execute" <=> Left(s) # {}
  BY <1>2, WithType DEF NextSubtask, Statuses
<1>4. /\ Memory' /\ Moved(c) /\ answer' = answer
      /\ pc'[c] = "save" /\ mine'[c] = s /\ after'[c] = next
  BY <1>1, <1>3, Acting, SaveThenMove DEF PCs
<1>5. PlaceInv(c)' /\ TruthInv(c)' /\ StatusInv(c)' /\ BudgetInv(c)'
  BY <1>1, <1>2, <1>3, <1>4, Acting
  DEF CallInv, PlaceInv, TruthInv, StatusInv, BudgetInv, At, Blank, AtSubtask, Ended, history
<1>6. RowInv(c)'
  BY <1>1, <1>3, <1>4, Acting DEF RowInv, database
<1>7. QED
  BY <1>1, <1>4, <1>5, <1>6, QuietStep DEF CallInv

LEMMA LoadInv ==
  ASSUME Inv, NEW c \in Calls, Load(c)
  PROVE  Inv'
<1>1. /\ pc[c] = "start" /\ UNCHANGED <<row, review, performed, skipped, repeated, asked>>
      /\ overlapped' = (overlapped \/ \E d \in Calls : pc[d] \notin Ended \cup {"start"})
  BY DEF Load, database
<1>2. /\ mine[c] = Fresh /\ answer[c] = "nothing" /\ mine[c] \in Snapshots
      /\ TypeOK /\ tries \in [Calls -> 0 .. MaxRetries]
  BY <1>1, Acting DEF CallInv, PlaceInv, Blank, Ended
<1>3. Memory' /\ Moved(c) /\ CallInv(c)' /\ RowInv(c)' /\ pc'[c] # "replan"
  <2>1. CASE ~Visible(c)
    <3>1. Continue(c, "recheck", mine[c])
      BY <2>1 DEF Load
    <3>2. Memory' /\ Moved(c) /\ answer' = answer /\ pc'[c] = "recheck" /\ mine'[c] = Fresh
      BY <1>2, <3>1, ContinueMove DEF PCs
    <3>3. QED
      BY <1>2, <3>2, FreshType, CoordinatorAssumption
      DEF CallInv, PlaceInv, TruthInv, StatusInv, BudgetInv, RowInv, At, Blank, AtSubtask,
          Ended
  <2>2. CASE Visible(c) /\ row.snap.status \in {"completed", "needs_human"}
    <3>1. End(c, "returned", row.snap.status)
      BY <2>2 DEF Load
    <3>2. "returned" \in Ended /\ row.snap.status \in Statuses \cup {"nothing"}
      BY <2>2 DEF Ended, Statuses
    <3>3. QED
      BY <1>2, <3>1, <3>2, EndMove, EndInv
  <2>3. CASE Visible(c) /\ row.snap.status \notin {"completed", "needs_human"}
    <3>1. SaveThen(c, "loop", Resumed(row.snap)) /\ UNCHANGED tries
      BY <2>3 DEF Load
    <3>2. row # NoRow /\ row \in Rows /\ row.snap \in Snapshots
      BY <2>3, Acting DEF Visible, Rows
    <3> DEFINE s == Resumed(row.snap)
    <3>3. /\ s \in Snapshots /\ s.version = row.snap.version /\ s.plan = row.snap.plan
          /\ s.completed = row.snap.completed /\ s.replans = row.snap.replans
          /\ s.status = "running"
      BY <3>2, ResumedType
    <3> HIDE DEF s
    <3>4. /\ Memory' /\ Moved(c) /\ answer' = answer
          /\ pc'[c] = "save" /\ mine'[c] = s /\ after'[c] = "loop"
      BY <1>2, <3>1, <3>3, SaveThenMove DEF s, PCs
    <3>5. s.version > 0 /\ s.plan # NoPlan /\ s.completed \subseteq performed \cup skipped
          /\ s.replans <= MaxReplans
      BY <3>2, <3>3 DEF Rows, Snapshots, Inv, SnapshotIsTrue, Ledger
    <3>6. CallInv(c)'
      BY <1>1, <1>2, <3>3, <3>4, <3>5
      DEF CallInv, PlaceInv, TruthInv, StatusInv, BudgetInv, At, Blank, AtSubtask, Ended
    <3>7. RowInv(c)'
      BY <1>1, <2>3, <3>2, <3>3, <3>4 DEF RowInv, Rows, Snapshots
    <3>8. QED
      BY <3>4, <3>6, <3>7
  <2>4. QED
    BY <2>1, <2>2, <2>3
<1>4. overlapped' \in BOOLEAN /\ repeated' \in BOOLEAN
  BY <1>1, <1>2, Zenon DEF TypeOK
<1>5. Ledger'
  BY <1>1, <1>3, LedgerFrame
<1>6. QED
  BY <1>1, <1>2, <1>3, <1>4, <1>5, MemoryStep DEF TypeOK

LEMMA PerformInv ==
  ASSUME Inv, NEW c \in Calls, Perform(c)
  PROVE  Inv'
<1>1. /\ pc[c] = "execute" /\ SaveThen(c, "succeeded", mine[c])
      /\ tries' = [tries EXCEPT ![c] = 0]
      /\ performed' = performed \cup {Current(mine[c])}
      /\ repeated' = (repeated \/ Current(mine[c]) \in performed)
      /\ UNCHANGED <<row, review, skipped, overlapped, asked>>
  BY DEF Perform, database
<1>2. /\ answer[c] = "nothing" /\ mine[c] \in Snapshots /\ mine[c].plan # NoPlan
      /\ Left(mine[c]) # {} /\ mine[c].version # 0 /\ mine[c].status = "running"
      /\ TypeOK
  BY <1>1, Acting
  DEF CallInv, PlaceInv, StatusInv, BudgetInv, Blank, Ended, At, AtSubtask
<1>3. tries' \in [Calls -> 0 .. MaxRetries]
  <2>1. 0 \in 0 .. MaxRetries
    BY CoordinatorAssumption
  <2>2. QED
    BY <1>1, <2>1, Acting
<1>4. /\ Memory' /\ Moved(c) /\ answer' = answer
      /\ pc'[c] = "save" /\ mine'[c] = mine[c] /\ after'[c] = "succeeded"
  BY <1>1, <1>2, <1>3, SaveThenMove DEF PCs
<1>5. Current(mine[c]) \in PlanIds \X Nat
  BY <1>2, CurrentType
<1>6. PlaceInv(c)' /\ TruthInv(c)' /\ StatusInv(c)' /\ BudgetInv(c)' /\ RowInv(c)'
  BY <1>1, <1>2, <1>4, Acting
  DEF CallInv, PlaceInv, TruthInv, StatusInv, BudgetInv, RowInv, At, Blank, AtSubtask, Ended
<1>7. repeated' \in BOOLEAN /\ overlapped' \in BOOLEAN
  BY <1>1, <1>2, Zenon DEF TypeOK
<1>8. Ledger'
  BY <1>1, <1>4, LedgerFrame
<1>9. QED
  BY <1>1, <1>2, <1>4, <1>5, <1>6, <1>7, <1>8, MemoryStep DEF TypeOK, CallInv

LEMMA FailInv ==
  ASSUME Inv, NEW c \in Calls, Fail(c)
  PROVE  Inv'
<1>1. pc[c] = "execute" /\ UNCHANGED <<row, review, performed, skipped, repeated, overlapped, asked>>
      /\ UNCHANGED <<database, history>>
  BY DEF Fail, database, history
<1>2. /\ answer[c] = "nothing" /\ mine[c] \in Snapshots /\ mine[c].plan # NoPlan
      /\ Left(mine[c]) # {} /\ mine[c].version # 0 /\ mine[c].status = "running"
      /\ TypeOK
  BY <1>1, Acting
  DEF CallInv, PlaceInv, StatusInv, BudgetInv, Blank, Ended, At, AtSubtask
<1>3. CASE tries[c] < MaxRetries
  <2>1. tries[c] + 1 \in 0 .. MaxRetries
    BY <1>3, Acting, CoordinatorAssumption
  <2>2. tries' \in [Calls -> 0 .. MaxRetries] /\ UNCHANGED <<pc, after, mine, answer>>
    BY <1>3, <2>1, Acting DEF Fail
  <2>3. Memory' /\ Moved(c) /\ pc'[c] # "replan"
    BY <1>1, <1>2, <2>2 DEF Memory, Moved, TypeOK
  <2>4. CallInv(c)' /\ RowInv(c)'
    BY <1>1, <2>2, Acting
    DEF CallInv, PlaceInv, TruthInv, StatusInv, BudgetInv, RowInv, At
  <2>5. QED
    BY <1>1, <2>3, <2>4, QuietStep
<1>4. CASE ~(tries[c] < MaxRetries)
  <2>1. 0 \in 0 .. MaxRetries
    BY CoordinatorAssumption
  <2>2. tries' \in [Calls -> 0 .. MaxRetries] /\ SaveThen(c, "failed", mine[c])
    BY <1>4, <2>1, Acting DEF Fail
  <2>3. /\ Memory' /\ Moved(c) /\ answer' = answer
        /\ pc'[c] = "save" /\ mine'[c] = mine[c] /\ after'[c] = "failed"
    BY <1>2, <2>2, SaveThenMove DEF PCs
  <2>4. PlaceInv(c)' /\ TruthInv(c)' /\ StatusInv(c)' /\ BudgetInv(c)' /\ RowInv(c)'
    BY <1>1, <1>2, <2>3, Acting
    DEF CallInv, PlaceInv, TruthInv, StatusInv, BudgetInv, RowInv, At, Blank, AtSubtask, Ended
  <2>5. QED
    BY <1>1, <2>3, <2>4, QuietStep DEF CallInv
<1>5. QED
  BY <1>3, <1>4

LEMMA SucceedInv ==
  ASSUME Inv, NEW c \in Calls, Succeed(c)
  PROVE  Inv'
<1>1. pc[c] = "succeeded" /\ UNCHANGED <<tries, database, history>>
      /\ UNCHANGED <<row, performed, skipped>>
      /\ SaveThen(c, "loop", Behind(mine[c]))
  BY DEF Succeed, database, history
<1>2. /\ answer[c] = "nothing" /\ mine[c] \in Snapshots /\ mine[c].plan # NoPlan
      /\ Left(mine[c]) # {} /\ mine[c].version # 0 /\ mine[c].status = "running"
      /\ Current(mine[c]) \in performed /\ tries' \in [Calls -> 0 .. MaxRetries]
  BY <1>1, Acting
  DEF CallInv, PlaceInv, TruthInv, StatusInv, BudgetInv, Blank, Ended, At, AtSubtask
<1> DEFINE s == Behind(mine[c])
<1>3. /\ s \in Snapshots /\ s.version = mine[c].version /\ s.plan = mine[c].plan
      /\ s.completed = mine[c].completed \cup {Current(mine[c])}
      /\ s.replans = mine[c].replans /\ s.status = "running"
  BY <1>2, BehindType
<1> HIDE DEF s
<1>4. /\ Memory' /\ Moved(c) /\ answer' = answer
      /\ pc'[c] = "save" /\ mine'[c] = s /\ after'[c] = "loop"
  BY <1>1, <1>2, <1>3, Acting, SaveThenMove DEF s, PCs
<1>5. PlaceInv(c)' /\ TruthInv(c)' /\ StatusInv(c)' /\ BudgetInv(c)' /\ RowInv(c)'
  BY <1>1, <1>2, <1>3, <1>4, Acting
  DEF CallInv, PlaceInv, TruthInv, StatusInv, BudgetInv, RowInv, At, Blank, AtSubtask, Ended
<1>6. QED
  BY <1>1, <1>4, <1>5, QuietStep DEF CallInv

LEMMA SkipInv ==
  ASSUME Inv, NEW c \in Calls, Skip(c)
  PROVE  Inv'
<1>1. /\ pc[c] = "failed" /\ SaveThen(c, "loop", Behind(mine[c]))
      /\ skipped' = skipped \cup {Current(mine[c])}
      /\ UNCHANGED <<tries, row, review, performed, repeated, overlapped, asked>>
  BY DEF Skip, Failed, database
<1>2. /\ answer[c] = "nothing" /\ mine[c] \in Snapshots /\ mine[c].plan # NoPlan
      /\ Left(mine[c]) # {} /\ mine[c].version # 0 /\ mine[c].status = "running"
      /\ TypeOK /\ tries' \in [Calls -> 0 .. MaxRetries]
  BY <1>1, Acting
  DEF CallInv, PlaceInv, StatusInv, BudgetInv, Blank, Ended, At, AtSubtask
<1> DEFINE s == Behind(mine[c])
<1>3. /\ s \in Snapshots /\ s.version = mine[c].version /\ s.plan = mine[c].plan
      /\ s.completed = mine[c].completed \cup {Current(mine[c])}
      /\ s.replans = mine[c].replans /\ s.status = "running"
  BY <1>2, BehindType
<1> HIDE DEF s
<1>4. /\ Memory' /\ Moved(c) /\ answer' = answer
      /\ pc'[c] = "save" /\ mine'[c] = s /\ after'[c] = "loop"
  BY <1>1, <1>2, <1>3, SaveThenMove DEF s, PCs
<1>5. Current(mine[c]) \in PlanIds \X Nat
  BY <1>2, CurrentType
<1>6. PlaceInv(c)' /\ TruthInv(c)' /\ StatusInv(c)' /\ BudgetInv(c)' /\ RowInv(c)'
  BY <1>1, <1>2, <1>3, <1>4, Acting
  DEF CallInv, PlaceInv, TruthInv, StatusInv, BudgetInv, RowInv, At, Blank, AtSubtask, Ended
<1>7. repeated' \in BOOLEAN /\ overlapped' \in BOOLEAN
  BY <1>1, <1>2, Zenon DEF TypeOK
<1>8. Ledger'
  BY <1>1, <1>4, LedgerFrame
<1>9. QED
  BY <1>1, <1>2, <1>4, <1>5, <1>6, <1>7, <1>8, MemoryStep DEF TypeOK, CallInv

LEMMA AbortInv ==
  ASSUME Inv, NEW c \in Calls, Abort(c)
  PROVE  Inv'
<1>1. /\ pc[c] = "failed" /\ SaveThen(c, "returned", With(mine[c], "failed"))
      /\ UNCHANGED <<tries, database, history>> /\ UNCHANGED <<row, performed, skipped>>
  BY DEF Abort, Failed, database, history
<1>2. /\ answer[c] = "nothing" /\ mine[c] \in Snapshots /\ mine[c].plan # NoPlan
      /\ mine[c].version # 0 /\ tries' \in [Calls -> 0 .. MaxRetries]
  BY <1>1, Acting DEF CallInv, PlaceInv, BudgetInv, Blank, Ended
<1> DEFINE s == With(mine[c], "failed")
<1>3. /\ s \in Snapshots /\ s.version = mine[c].version /\ s.plan = mine[c].plan
      /\ s.completed = mine[c].completed /\ s.replans = mine[c].replans /\ s.status = "failed"
  BY <1>2, WithType DEF Statuses
<1> HIDE DEF s
<1>4. /\ Memory' /\ Moved(c) /\ answer' = answer
      /\ pc'[c] = "save" /\ mine'[c] = s /\ after'[c] = "returned"
  BY <1>1, <1>2, <1>3, Acting, SaveThenMove DEF s, PCs
<1>5. PlaceInv(c)' /\ TruthInv(c)' /\ StatusInv(c)' /\ BudgetInv(c)' /\ RowInv(c)'
  BY <1>1, <1>2, <1>3, <1>4, Acting
  DEF CallInv, PlaceInv, TruthInv, StatusInv, BudgetInv, RowInv, At, Blank, AtSubtask, Ended
<1>6. QED
  BY <1>1, <1>4, <1>5, QuietStep DEF CallInv

\* A call that needs a human goes to the review with that status.
LEMMA EscalateInv ==
  ASSUME Inv, NEW c \in Calls, pc[c] \in {"failed", "replan"},
         Continue(c, "review", With(mine[c], "needs_human")), UNCHANGED <<row, performed, skipped>>
  PROVE  Memory' /\ Moved(c) /\ CallInv(c)' /\ RowInv(c)' /\ pc'[c] = "review"
<1>1. /\ answer[c] = "nothing" /\ mine[c] \in Snapshots /\ mine[c].plan # NoPlan
      /\ mine[c].version # 0
  BY Acting DEF CallInv, PlaceInv, BudgetInv, Blank, Ended
<1> DEFINE s == With(mine[c], "needs_human")
<1>2. /\ s \in Snapshots /\ s.version = mine[c].version /\ s.plan = mine[c].plan
      /\ s.completed = mine[c].completed /\ s.replans = mine[c].replans
      /\ s.status = "needs_human"
  BY <1>1, WithType DEF Statuses
<1> HIDE DEF s
<1>3. Memory' /\ Moved(c) /\ answer' = answer /\ pc'[c] = "review" /\ mine'[c] = s
  BY <1>2, Acting, ContinueMove DEF s, PCs
<1>4. PlaceInv(c)' /\ TruthInv(c)' /\ StatusInv(c)' /\ BudgetInv(c)' /\ RowInv(c)'
  BY <1>1, <1>2, <1>3, Acting
  DEF CallInv, PlaceInv, TruthInv, StatusInv, BudgetInv, RowInv, At, Blank, AtSubtask, Ended
<1>5. QED
  BY <1>3, <1>4 DEF CallInv

LEMMA ReplanInv ==
  ASSUME Inv, NEW c \in Calls, Replan(c)
  PROVE  Inv'
<1>1. pc[c] = "failed" /\ UNCHANGED <<database, history>> /\ UNCHANGED <<row, performed, skipped>>
  BY DEF Replan, Failed, database, history
<1>2. /\ answer[c] = "nothing" /\ mine[c] \in Snapshots /\ mine[c].plan # NoPlan
      /\ mine[c].version # 0 /\ mine[c].status = "running"
  BY <1>1, Acting DEF CallInv, PlaceInv, StatusInv, BudgetInv, Blank, Ended
<1>3. CASE mine[c].replans >= MaxReplans
  BY <1>1, <1>3, EscalateInv, QuietStep DEF Replan
<1>4. CASE ~(mine[c].replans >= MaxReplans)
  <2>1. SaveThen(c, "replan", Paid(mine[c])) /\ tries' \in [Calls -> 0 .. MaxRetries]
    BY <1>4, Acting DEF Replan
  <2> DEFINE s == Paid(mine[c])
  <2>2. /\ s \in Snapshots /\ s.version = mine[c].version /\ s.plan = mine[c].plan
        /\ s.completed = mine[c].completed /\ s.replans = mine[c].replans + 1
        /\ s.status = "running"
    BY <1>2, PaidType
  <2> HIDE DEF s
  <2>3. /\ Memory' /\ Moved(c) /\ answer' = answer
        /\ pc'[c] = "save" /\ mine'[c] = s /\ after'[c] = "replan"
    BY <2>1, <2>2, Acting, SaveThenMove DEF s, PCs
  <2>4. s.replans <= MaxReplans
    BY <1>2, <1>4, <2>2, CoordinatorAssumption DEF Snapshots
  <2>5. PlaceInv(c)' /\ TruthInv(c)' /\ StatusInv(c)' /\ BudgetInv(c)' /\ RowInv(c)'
    BY <1>1, <1>2, <2>2, <2>3, <2>4, Acting
    DEF CallInv, PlaceInv, TruthInv, StatusInv, BudgetInv, RowInv, At, Blank, AtSubtask, Ended
  <2>6. QED
    BY <1>1, <2>3, <2>5, QuietStep DEF CallInv
<1>5. QED
  BY <1>3, <1>4

LEMMA AskPlannerInv ==
  ASSUME Inv, NEW c \in Calls, AskPlanner(c)
  PROVE  Inv'
<1>1. /\ pc[c] = "replan" /\ asked' = asked + 1
      /\ UNCHANGED <<row, review, performed, skipped, repeated, overlapped>>
  BY DEF AskPlanner, database
<1>2. /\ answer[c] = "nothing" /\ mine[c] \in Snapshots /\ mine[c].plan # NoPlan
      /\ mine[c].version # 0 /\ mine[c].status = "running" /\ TypeOK
  BY <1>1, Acting DEF CallInv, PlaceInv, StatusInv, BudgetInv, Blank, Ended
<1>3. Memory' /\ Moved(c) /\ CallInv(c)' /\ RowInv(c)' /\ pc'[c] # "replan"
  <2>1. CASE \E shape \in Shapes :
                 /\ SaveThen(c, "loop", [mine[c] EXCEPT !.plan =
                                             Plan(<<c, mine[c].replans>>, shape)])
                 /\ UNCHANGED tries
    <3>1. PICK shape \in Shapes :
              /\ SaveThen(c, "loop", [mine[c] EXCEPT !.plan =
                                          Plan(<<c, mine[c].replans>>, shape)])
              /\ UNCHANGED tries
      BY <2>1
    <3>2. PICK plan \in Plans : plan = Plan(<<c, mine[c].replans>>, shape)
      BY <1>2, CoordinatorAssumption DEF Snapshots, Plan, Plans, PlanIds
    <3> DEFINE s == [mine[c] EXCEPT !.plan = plan]
    <3>3. /\ s \in Snapshots /\ s.version = mine[c].version /\ s.plan # NoPlan
          /\ s.completed = mine[c].completed /\ s.replans = mine[c].replans
          /\ s.status = mine[c].status
      BY <1>2, PlannedType
    <3>4. SaveThen(c, "loop", s) /\ tries' \in [Calls -> 0 .. MaxRetries]
      BY <3>1, <3>2, Acting
    <3> HIDE DEF s
    <3>5. /\ Memory' /\ Moved(c) /\ answer' = answer
          /\ pc'[c] = "save" /\ mine'[c] = s /\ after'[c] = "loop"
      BY <1>2, <3>3, <3>4, SaveThenMove DEF PCs
    <3>6. PlaceInv(c)' /\ TruthInv(c)' /\ StatusInv(c)' /\ BudgetInv(c)' /\ RowInv(c)'
      BY <1>1, <1>2, <3>3, <3>5, Acting
      DEF CallInv, PlaceInv, TruthInv, StatusInv, BudgetInv, RowInv, At, Blank, AtSubtask,
          Ended
    <3>7. QED
      BY <3>5, <3>6 DEF CallInv
  <2>2. CASE Continue(c, "review", With(mine[c], "needs_human"))
    BY <1>1, <2>2, EscalateInv
  <2>3. QED
    BY <2>1, <2>2 DEF AskPlanner
<1>4. Ledger'
  <2>1. AtReplan' = AtReplan \ {c} /\ c \in AtReplan
    BY <1>1, <1>3 DEF AtReplan, Moved
  <2>2. IsFiniteSet(AtReplan) /\ asked \in Nat
    BY <1>2 DEF Inv, Ledger, TypeOK
  <2>3. IsFiniteSet(AtReplan') /\ Cardinality(AtReplan') = Cardinality(AtReplan) - 1
        /\ Cardinality(AtReplan) \in Nat
    BY <2>1, <2>2, FS_RemoveElement, FS_CardinalityType
  <2>4. row # NoRow
    BY <1>1, <1>2, Acting DEF RowInv, Snapshots
  <2>5. QED
    BY <1>1, <2>2, <2>3, <2>4 DEF Inv, Ledger
<1>5. repeated' \in BOOLEAN /\ overlapped' \in BOOLEAN
  BY <1>1, <1>2, Zenon DEF TypeOK
<1>6. QED
  BY <1>1, <1>2, <1>3, <1>4, <1>5, MemoryStep DEF TypeOK

\* A call whose review exists saves the snapshot that needs it.
LEMMA ReviewedInv ==
  ASSUME Inv, NEW c \in Calls, pc[c] \in {"review", "insert_review"},
         SaveThen(c, "returned", mine[c]), UNCHANGED tries, review' # "none",
         UNCHANGED <<row, performed, skipped>>
  PROVE  Memory' /\ Moved(c) /\ CallInv(c)' /\ RowInv(c)' /\ pc'[c] = "save"
<1>1. /\ answer[c] = "nothing" /\ mine[c] \in Snapshots /\ mine[c].plan # NoPlan
      /\ mine[c].version # 0 /\ tries' \in [Calls -> 0 .. MaxRetries]
  BY Acting DEF CallInv, PlaceInv, BudgetInv, Blank, Ended
<1>2. mine[c].status # "completed"
  BY Acting DEF CallInv, StatusInv
<1>3. /\ Memory' /\ Moved(c) /\ answer' = answer
      /\ pc'[c] = "save" /\ mine'[c] = mine[c] /\ after'[c] = "returned"
  BY <1>1, Acting, SaveThenMove DEF PCs
<1>4. PlaceInv(c)' /\ TruthInv(c)' /\ StatusInv(c)' /\ BudgetInv(c)' /\ RowInv(c)'
  BY <1>1, <1>2, <1>3, Acting
  DEF CallInv, PlaceInv, TruthInv, StatusInv, BudgetInv, RowInv, At, Blank, AtSubtask, Ended
<1>5. QED
  BY <1>3, <1>4 DEF CallInv

LEMMA ReviewInv ==
  ASSUME Inv, NEW c \in Calls, FindReview(c) \/ InsertReview(c)
  PROVE  Inv'
<1>1. pc[c] \in {"review", "insert_review"} /\ UNCHANGED history
      /\ UNCHANGED <<row, performed, skipped, repeated, overlapped, asked>>
  BY DEF FindReview, InsertReview, database, history
<1>2. CASE SaveThen(c, "returned", mine[c]) /\ UNCHANGED tries /\ review' = "pending"
  <2>1. Memory' /\ Moved(c) /\ CallInv(c)' /\ RowInv(c)' /\ pc'[c] = "save"
    BY <1>1, <1>2, ReviewedInv
  <2>2. Ledger'
    BY <1>1, <2>1, LedgerFrame
  <2>3. repeated' \in BOOLEAN /\ overlapped' \in BOOLEAN
    BY <1>1, Zenon DEF Inv, TypeOK
  <2>4. QED
    BY <1>1, <1>2, <2>1, <2>2, <2>3, MemoryStep DEF Inv, TypeOK
<1>3. CASE Continue(c, "insert_review", mine[c]) /\ UNCHANGED <<database, history>>
           /\ pc[c] = "review"
  <2>1. /\ answer[c] = "nothing" /\ mine[c].plan # NoPlan /\ mine[c].version # 0
        /\ mine[c].status = "needs_human"
    BY <1>3, Acting DEF CallInv, PlaceInv, StatusInv, BudgetInv, Blank, Ended
  <2>2. /\ Memory' /\ Moved(c) /\ answer' = answer
        /\ pc'[c] = "insert_review" /\ mine'[c] = mine[c]
    BY <1>3, Acting, ContinueMove DEF PCs
  <2>3. PlaceInv(c)' /\ TruthInv(c)' /\ StatusInv(c)' /\ BudgetInv(c)' /\ RowInv(c)'
    BY <1>1, <1>3, <2>1, <2>2, Acting
    DEF CallInv, PlaceInv, TruthInv, StatusInv, BudgetInv, RowInv, At, Blank, AtSubtask, Ended
  <2>4. QED
    BY <1>3, <2>2, <2>3, QuietStep DEF CallInv
<1>4. CASE End(c, "dead", "nothing") /\ UNCHANGED <<database, history>>
  BY <1>4, EndStep DEF Ended
<1>5. QED
  BY <1>2, <1>3, <1>4 DEF FindReview, InsertReview, database

\* The review is resolved: nothing else changes.
LEMMA ResolveInv ==
  ASSUME Inv, Resolve
  PROVE  Inv'
<1>1. /\ review = "pending" /\ review' = "resolved"
      /\ UNCHANGED <<row, pc, after, mine, tries, answer>>
      /\ UNCHANGED <<performed, skipped, repeated, overlapped, asked>>
  BY DEF Resolve, memory, history
<1>2. repeated' \in BOOLEAN /\ overlapped' \in BOOLEAN
  BY <1>1, Zenon DEF Inv, TypeOK
<1>3. TypeOK'
  BY <1>1, <1>2 DEF Inv, TypeOK
<1>4. ASSUME NEW c \in Calls PROVE CallInv(c)' /\ RowInv(c)'
  <2>1. CallInv(c) /\ RowInv(c)
    BY DEF Inv
  <2>2. QED
    BY <1>1, <2>1 DEF CallInv, PlaceInv, TruthInv, StatusInv, BudgetInv, RowInv, At
<1>5. SnapshotIsTrue' /\ Ledger'
  BY <1>1 DEF Inv, SnapshotIsTrue, Ledger, AtReplan
<1>6. QED
  BY <1>3, <1>4, <1>5 DEF Inv

\* What saving a snapshot leaves behind: the row with the next version of it,
\* and a call that goes on with it or answers its status.
LEMMA SaveFacts ==
  ASSUME Inv, NEW c \in Calls, Save(c)
  PROVE  LET s == Saved(mine[c])
         IN  /\ pc[c] = "save" /\ MayWrite(c)
             /\ UNCHANGED <<review, performed, skipped, repeated, overlapped, asked>>
             /\ row' = [org |-> Org[c], snap |-> s] /\ row' \in Rows
             /\ s \in Snapshots /\ s.version = mine[c].version + 1 /\ s.version > 0
             /\ mine[c] \in Snapshots
             /\ Memory' /\ Moved(c)
             /\ after[c] # "returned" =>
                    /\ pc'[c] = after[c] /\ mine'[c] = s /\ answer' = answer
             /\ after[c] = "returned" =>
                    /\ pc'[c] = "returned" /\ mine'[c] = Fresh /\ answer'[c] = s.status
<1> DEFINE s == Saved(mine[c])
<1>1. pc[c] = "save" /\ MayWrite(c) /\ row' = [org |-> Org[c], snap |-> s]
      /\ UNCHANGED <<review, performed, skipped, repeated, overlapped, asked>>
  BY DEF Save, history
<1>2. /\ TypeOK /\ mine[c] \in Snapshots /\ mine[c].plan # NoPlan /\ after[c] \in PCs
  BY <1>1, Acting DEF CallInv, PlaceInv, Blank, Ended
<1>3. /\ s \in Snapshots /\ s.version = mine[c].version + 1 /\ s.plan = mine[c].plan
  BY <1>2, SavedType
<1>4. CASE after[c] = "returned"
  <2>1. End(c, "returned", s.status)
    BY <1>4 DEF Save
  <2> HIDE DEF s
  <2>2. s.status \in Statuses \cup {"nothing"} /\ "returned" \in Ended
    BY <1>3 DEF Snapshots, Ended
  <2>3. Memory' /\ Moved(c) /\ pc'[c] = "returned" /\ mine'[c] = Fresh /\ answer'[c] = s.status
    BY <1>2, <2>1, <2>2, EndMove
  <2>4. QED
    BY <1>1, <1>2, <1>3, <1>4, <2>3 DEF s, Rows, Snapshots
<1>5. CASE after[c] # "returned"
  <2>1. Continue(c, after[c], s)
    BY <1>5 DEF Save
  <2> HIDE DEF s
  <2>2. Memory' /\ Moved(c) /\ answer' = answer /\ pc'[c] = after[c] /\ mine'[c] = s
    BY <1>2, <1>3, <2>1, ContinueMove
  <2>3. QED
    BY <1>1, <1>2, <1>3, <1>5, <2>2 DEF s, Rows, Snapshots
<1>6. QED
  BY <1>4, <1>5

\* Saving keeps the invariants of the call.
LEMMA SaveCall ==
  ASSUME Inv, NEW c \in Calls, Save(c)
  PROVE  CallInv(c)' /\ RowInv(c)'
<1> DEFINE s == Saved(mine[c])
<1>1. /\ pc[c] = "save" /\ UNCHANGED <<review, performed, skipped>>
      /\ row' = [org |-> Org[c], snap |-> s] /\ row' \in Rows
      /\ s \in Snapshots /\ mine[c] \in Snapshots /\ s.version > 0
  BY SaveFacts
<1>2. CallInv(c)
  BY Acting
<1>3. CASE after[c] = "returned"
  <2>1. pc'[c] = "returned" /\ mine'[c] = Fresh
    BY <1>3, SaveFacts
  <2>2. QED
    BY <2>1, FreshType, CoordinatorAssumption
    DEF CallInv, PlaceInv, TruthInv, StatusInv, BudgetInv, RowInv, At, Blank, AtSubtask, Ended
<1>4. CASE after[c] # "returned"
  <2>1. pc'[c] = after[c] /\ mine'[c] = s /\ answer' = answer
    BY <1>4, SaveFacts
  <2>2. /\ s.plan = mine[c].plan /\ s.completed = mine[c].completed
        /\ s.replans = mine[c].replans /\ s.status = mine[c].status
        /\ Left(s) = Left(mine[c]) /\ Current(s) = Current(mine[c])
    BY <1>1, SavedType
  <2> HIDE DEF s
  <2>3. /\ after[c] \in {"loop", "replan"} \cup AtSubtask
        /\ mine[c].status = "running" /\ mine[c].plan # NoPlan /\ answer[c] = "nothing"
    BY <1>1, <1>2, <1>4 DEF CallInv, PlaceInv, StatusInv, Blank, Ended
  <2>4. /\ pc'[c] # "save" /\ pc'[c] \notin Blank /\ pc'[c] \notin {"review", "insert_review"}
        /\ pc'[c] \notin Ended
    BY <2>1, <2>3 DEF AtSubtask, Blank, Ended
  <2>5. PlaceInv(c)' /\ TruthInv(c)'
    BY <1>1, <1>2, <2>1, <2>2, <2>3, <2>4 DEF CallInv, PlaceInv, TruthInv, At
  <2>6. StatusInv(c)' /\ BudgetInv(c)'
    BY <1>1, <1>2, <2>1, <2>2, <2>3, <2>4 DEF CallInv, StatusInv, BudgetInv
  <2>7. RowInv(c)'
    <3>1. row' # NoRow /\ row'.snap = s
      BY <1>1, NullAssumption
    <3>2. QED
      BY <1>1, <2>1, <2>2, <2>3, <2>4, <3>1 DEF RowInv, Snapshots
  <2>8. QED
    BY <2>5, <2>6, <2>7 DEF CallInv
<1>5. QED
  BY <1>3, <1>4

\* A save that may write is one version ahead of every snapshot in memory.
LEMMA SaveAhead ==
  ASSUME Inv, NEW c \in Calls, Save(c), NEW d \in Calls
  PROVE  mine[d].version <= mine[c].version /\ mine[d].version \in Nat
<1>1. MayWrite(c) /\ mine[c] \in Snapshots
  BY SaveFacts
<1>2. RowInv(d) /\ mine[d] \in Snapshots
  BY Acting
<1>3. QED
  BY <1>1, <1>2 DEF MayWrite, Visible, RowInv, Snapshots

\* Saving keeps the ledger: it records what the call paid, and a replan that is
\* recorded has not been asked for.
LEMMA SaveLedger ==
  ASSUME Inv, NEW c \in Calls, Save(c)
  PROVE  Ledger'
<1> DEFINE s == Saved(mine[c])
<1>1. /\ pc[c] = "save" /\ MayWrite(c) /\ UNCHANGED asked
      /\ row' = [org |-> Org[c], snap |-> s] /\ row' \in Rows
      /\ mine[c] \in Snapshots /\ Moved(c)
      /\ after[c] # "returned" => pc'[c] = after[c]
      /\ after[c] = "returned" => pc'[c] = "returned"
  BY SaveFacts
<1>2. row' # NoRow /\ row'.snap.replans = mine[c].replans
  BY <1>1, NullAssumption, SavedType
<1>3. mine[c].replans \in Nat /\ mine[c].replans <= MaxReplans
  BY <1>1, Acting DEF CallInv, BudgetInv, Snapshots
<1>4. IsFiniteSet(AtReplan) /\ asked \in Nat /\ c \notin AtReplan
  BY <1>1 DEF Inv, Ledger, TypeOK, AtReplan
<1>5. asked + Cardinality(AtReplan) <=
          IF after[c] = "replan" THEN mine[c].replans - 1 ELSE mine[c].replans
  <2>1. CASE mine[c].version = 0
    <3>1. row = NoRow /\ asked = 0
      BY <1>1, <2>1 DEF MayWrite, Inv, Ledger
    <3>2. ASSUME NEW d \in AtReplan PROVE FALSE
      <4>1. d \in Calls /\ pc[d] = "replan"
        BY <3>2 DEF AtReplan
      <4>2. mine[d].version # 0 /\ mine[d] \in Snapshots /\ RowInv(d)
        BY <4>1, Acting DEF CallInv, BudgetInv, Blank, Ended
      <4>3. QED
        BY <3>1, <4>2 DEF RowInv, Snapshots
    <3>3. Cardinality(AtReplan) = 0
      BY <3>2, FS_EmptySet
    <3>4. after[c] # "replan" /\ mine[c].replans = 0
      BY <1>1, <2>1, Acting DEF CallInv, BudgetInv, Blank, Ended
    <3>5. QED
      BY <3>1, <3>3, <3>4
  <2>2. CASE mine[c].version # 0
    <3>1. /\ row # NoRow /\ row \in Rows /\ row.snap.version = mine[c].version
          /\ mine[c].version > 0
      BY <1>1, <2>2, Acting DEF MayWrite, Visible, Snapshots
    <3>2. mine[c].replans = IF after[c] = "replan" THEN row.snap.replans + 1
                            ELSE row.snap.replans
      BY <1>1, <3>1, Acting DEF RowInv
    <3>3. row.snap.replans \in Nat /\ asked + Cardinality(AtReplan) <= row.snap.replans
      BY <3>1 DEF Inv, Ledger, Rows, Snapshots
    <3>4. QED
      BY <3>2, <3>3
  <2>3. QED
    BY <2>1, <2>2
<1>6. CASE after[c] = "replan"
  <2>1. AtReplan' = AtReplan \cup {c}
    BY <1>1, <1>6 DEF AtReplan, Moved
  <2>2. IsFiniteSet(AtReplan') /\ Cardinality(AtReplan') = Cardinality(AtReplan) + 1
        /\ Cardinality(AtReplan) \in Nat
    BY <1>4, <2>1, FS_AddElement, FS_CardinalityType
  <2>3. QED
    BY <1>1, <1>2, <1>3, <1>4, <1>5, <1>6, <2>2 DEF Ledger
<1>7. CASE after[c] # "replan"
  <2>1. AtReplan' = AtReplan
    BY <1>1, <1>7 DEF AtReplan, Moved
  <2>2. QED
    BY <1>1, <1>2, <1>3, <1>4, <1>5, <1>7, <2>1 DEF Ledger
<1>8. QED
  BY <1>6, <1>7

LEMMA SaveInv ==
  ASSUME Inv, NEW c \in Calls, Save(c)
  PROVE  Inv'
<1> DEFINE s == Saved(mine[c])
<1>1. /\ pc[c] = "save" /\ UNCHANGED <<review, performed, skipped, repeated, overlapped, asked>>
      /\ row' = [org |-> Org[c], snap |-> s] /\ row' \in Rows
      /\ mine[c] \in Snapshots /\ s.version = mine[c].version + 1
      /\ Memory' /\ Moved(c)
  BY SaveFacts
<1>2. row'.snap = s /\ row' # NoRow
  BY <1>1, NullAssumption
<1>3. TypeOK'
  <2>1. repeated' \in BOOLEAN /\ overlapped' \in BOOLEAN
    BY <1>1, Zenon DEF Inv, TypeOK
  <2>2. QED
    BY <1>1, <2>1 DEF Inv, TypeOK, Memory
<1>4. ASSUME NEW d \in Calls, d # c PROVE CallInv(d)' /\ RowInv(d)'
  <2>1. CallInv(d)'
    BY <1>1, <1>4, Frame
  <2>2. mine'[d].version <= mine[c].version /\ mine'[d].version \in Nat
        /\ mine[c].version \in Nat
    BY <1>1, <1>4, SaveAhead DEF Moved, Snapshots
  <2>3. RowInv(d)'
    BY <1>1, <1>2, <2>2 DEF RowInv
  <2>4. QED
    BY <2>1, <2>3
<1>5. SnapshotIsTrue'
  <2>1. /\ s.completed = mine[c].completed /\ s.status = mine[c].status
        /\ Left(s) = Left(mine[c])
    BY <1>1, SavedType
  <2> HIDE DEF s
  <2>2. QED
    BY <1>1, <1>2, <2>1, Acting DEF SnapshotIsTrue, CallInv, TruthInv, StatusInv
<1>6. \A d \in Calls : CallInv(d)' /\ RowInv(d)'
  BY <1>4, SaveCall
<1>7. QED
  BY <1>3, <1>5, <1>6, SaveLedger DEF Inv

\* Nothing is stored and nobody has begun.
LEMMA InitInv == Init => Inv
<1> SUFFICES ASSUME Init PROVE Inv
  OBVIOUS
<1>1. "start" \in PCs /\ 0 \in 0 .. MaxRetries
  BY CoordinatorAssumption DEF PCs
<1>2. TypeOK
  BY <1>1, FreshType DEF Init, TypeOK
<1>3. ASSUME NEW c \in Calls PROVE CallInv(c) /\ RowInv(c)
  BY FreshType, CoordinatorAssumption
  DEF Init, CallInv, PlaceInv, TruthInv, StatusInv, BudgetInv, RowInv, At, Blank, AtSubtask,
      Ended
<1>4. Ledger
  <2>1. AtReplan = {}
    BY DEF Init, AtReplan
  <2>2. QED
    BY <2>1, FS_EmptySet DEF Init, Ledger
<1>5. QED
  BY <1>2, <1>3, <1>4 DEF Inv, Init, SnapshotIsTrue

\* Every step keeps the invariant.
LEMMA StepInv ==
  ASSUME Inv, [Next]_vars
  PROVE  Inv'
<1>1. ASSUME NEW c \in Calls, Step(c) PROVE Inv'
  <2>1. CASE Conflict(c)
    BY <2>1, EndStep DEF Conflict, Ended
  <2>2. QED
    BY <1>1, <2>1, LoadInv, RecheckInv, CreatePlanInv, SaveInv, NextSubtaskInv, PerformInv,
       FailInv, SucceedInv, SkipInv, AbortInv, ReplanInv, AskPlannerInv, ReviewInv DEF Step
<1>2. ASSUME NEW c \in Calls, Die(c) PROVE Inv'
  BY <1>2, EndStep DEF Die, Ended
<1>3. CASE UNCHANGED vars
  <2>1. /\ UNCHANGED <<row, review, pc, after, mine, tries, answer>>
        /\ UNCHANGED <<performed, skipped, repeated, overlapped, asked>>
    BY <1>3 DEF vars, database, memory, history
  <2>2. TypeOK'
    BY <2>1, Zenon DEF Inv, TypeOK
  <2>3. ASSUME NEW c \in Calls PROVE CallInv(c)' /\ RowInv(c)'
    <3>1. CallInv(c) /\ RowInv(c)
      BY DEF Inv
    <3>2. QED
      BY <2>1, <3>1 DEF CallInv, PlaceInv, TruthInv, StatusInv, BudgetInv, RowInv, At
  <2>4. QED
    BY <2>1, <2>2, <2>3 DEF Inv, SnapshotIsTrue, Ledger, AtReplan
<1>4. QED
  BY <1>1, <1>2, <1>3, ResolveInv DEF Next

LEMMA Invariant == Spec => []Inv
  BY InitInv, StepInv, PTL DEF Spec

\* Rows, snapshots in memory and places always have their types.
THEOREM TypeCorrect == Spec => []TypeOK
  BY Invariant, PTL DEF Inv

\* The durable snapshot never claims more than what happened, however many
\* calls run, resume, collide and die.
THEOREM SnapshotTrue == Spec => []SnapshotIsTrue
  BY Invariant, PTL DEF Inv

\* The planner is asked to replan at most max_replans times, and every question
\* was recorded before.
THEOREM BudgetIsKept == Spec => []BudgetKept
<1>1. Inv => BudgetKept
  <2> SUFFICES ASSUME Inv, row # NoRow PROVE asked <= row.snap.replans /\ row.snap.replans <= MaxReplans
    BY DEF BudgetKept
  <2>1. asked \in Nat /\ Cardinality(AtReplan) \in Nat /\ row.snap.replans \in Nat
    BY FS_CardinalityType DEF Inv, TypeOK, Ledger, Rows, Snapshots
  <2>2. QED
    BY <2>1 DEF Inv, Ledger
<1>2. QED
  BY Invariant, <1>1, PTL

(***************************************************************************)
(* An orderly retry repeats nothing.                                       *)
(***************************************************************************)

\* What Serial asks of the one call at work.
Alone(c) ==
    /\ (pc[c] \in Blank => performed \subseteq Known)
    /\ (pc[c] = "plan" => row = NoRow)
    /\ pc[c] \notin Blank =>
           /\ MayWrite(c)
           /\ performed \subseteq mine[c].completed \cup
                  (IF At(c) = "succeeded" THEN {Current(mine[c])} ELSE {})

\* In a calm history a call that works, or begins to, is alone.
LEMMA AloneBefore ==
  ASSUME Inv, Serial, Calm, NEW c \in Calls, \A d \in Calls : d # c => ~Working(d)
  PROVE  /\ Alone(c)
         /\ ~repeated
<1>1. pc[c] \in Blank => ~Working(c) \/ pc[c] \in {"recheck", "plan"}
  BY DEF Blank, Working
<1>2. QED
  BY <1>1 DEF Serial, Alone

\* And if it stays so, Serial holds.
LEMMA AloneAfter ==
  ASSUME NEW c \in Calls, Calm' => /\ Alone(c)' /\ \A d \in Calls : d # c => ~Working(d)'
                                   /\ ~repeated'
  PROVE  Serial'
<1> SUFFICES ASSUME Calm' PROVE Serial'
  BY DEF Serial
<1>1. Alone(c)' /\ ~repeated' /\ \A d \in Calls : d # c => ~Working(d)'
  OBVIOUS
<1>2. \A d \in Calls : ~Working(d)' => pc'[d] # "plan" /\ (pc'[d] \in Blank)
  BY DEF Working, Blank, Ended
<1>3. (\A d \in Calls : Working(d)' => pc'[d] \in {"recheck", "plan"}) => performed' \subseteq Known'
  <2>1. ASSUME \A d \in Calls : Working(d)' => pc'[d] \in {"recheck", "plan"}
        PROVE  pc'[c] \in Blank
    BY <2>1, <1>2 DEF Blank
  <2>2. QED
    BY <1>1, <2>1 DEF Alone
<1>4. QED
  BY <1>1, <1>2, <1>3 DEF Serial, Alone

\* A call does not get over its death.
LEMMA CalmBefore ==
  ASSUME Inv, NEW c \in Calls, Moved(c), pc[c] # "dead", overlapped => overlapped', Calm'
  PROVE  Calm
  BY DEF Calm, Moved

\* A step of a call that works on a snapshot it did not save, and on a row it
\* did not write, keeps Serial if nothing was done that its snapshot lacks.
LEMMA WorkStep ==
  ASSUME Inv, Serial, NEW c \in Calls, Moved(c), pc[c] \notin Blank, pc'[c] \notin Blank,
         UNCHANGED <<row, overlapped>>, mine'[c].version = mine[c].version,
         Calm /\ Alone(c) => performed' \subseteq mine'[c].completed \cup
                  (IF At(c)' = "succeeded" THEN {Current(mine'[c])} ELSE {}),
         repeated' => repeated \/ ~Alone(c)
  PROVE  Serial'
<1> SUFFICES ASSUME Calm'
             PROVE  Alone(c)' /\ ~repeated' /\ \A d \in Calls : d # c => ~Working(d)'
  BY AloneAfter
<1>1. Calm
  BY CalmBefore DEF Blank, Ended
<1>2. Working(c)
  BY DEF Working, Blank
<1>3. \A d \in Calls : d # c => ~Working(d)
  BY <1>1, <1>2 DEF Serial
<1>4. Alone(c) /\ ~repeated
  BY <1>1, <1>3, AloneBefore
<1>5. MayWrite(c)'
  BY <1>4 DEF Alone, MayWrite, Visible
<1>6. Alone(c)'
  BY <1>1, <1>4, <1>5 DEF Alone, Blank
<1>7. \A d \in Calls : d # c => ~Working(d)'
  BY <1>3 DEF Moved, Working
<1>8. QED
  BY <1>4, <1>6, <1>7

\* A call that ends with the row as it was: either it had nothing in memory, or
\* somebody else was there.
LEMMA LeaveStep ==
  ASSUME Inv, Serial, NEW c \in Calls, Moved(c), UNCHANGED <<row, performed, repeated>>,
         pc[c] \in {"start", "recheck"}, pc'[c] \in {"recheck", "plan"} \cup Ended,
         pc'[c] = "plan" => row = NoRow, overlapped => overlapped',
         Calm' => \A d \in Calls : d # c => ~Working(d)
  PROVE  Serial'
<1> SUFFICES ASSUME Calm'
             PROVE  Alone(c)' /\ ~repeated' /\ \A d \in Calls : d # c => ~Working(d)'
  BY AloneAfter
<1>1. Calm
  BY CalmBefore DEF Ended
<1>2. Alone(c) /\ ~repeated
  BY <1>1, AloneBefore
<1>3. Known' = Known /\ pc[c] \in Blank /\ pc'[c] \in Blank
  BY DEF Known, Blank
<1>4. Alone(c)'
  BY <1>2, <1>3 DEF Alone
<1>5. QED
  BY <1>2, <1>4 DEF Moved, Working

LEMMA LoadSerial ==
  ASSUME Inv, Serial, NEW c \in Calls, Load(c)
  PROVE  Serial'
<1>1. /\ pc[c] = "start" /\ UNCHANGED <<row, performed, repeated>>
      /\ overlapped' = (overlapped \/ \E d \in Calls : pc[d] \notin Ended \cup {"start"})
      /\ overlapped => overlapped'
  BY DEF Load, database
<1>2. TypeOK /\ mine[c] \in Snapshots /\ tries \in [Calls -> 0 .. MaxRetries]
  BY Acting
<1>3. Calm' => \A d \in Calls : ~Working(d)
  BY <1>1 DEF Calm, Working
<1>4. CASE ~Visible(c)
  <2>1. Moved(c) /\ pc'[c] = "recheck"
    BY <1>2, <1>4, ContinueMove DEF Load, PCs
  <2>2. QED
    BY <1>1, <1>3, <2>1, LeaveStep
<1>5. CASE Visible(c) /\ row.snap.status \in {"completed", "needs_human"}
  <2>1. End(c, "returned", row.snap.status)
    BY <1>5 DEF Load
  <2>2. "returned" \in Ended /\ row.snap.status \in Statuses \cup {"nothing"}
    BY <1>5 DEF Ended, Statuses
  <2>3. Moved(c) /\ pc'[c] = "returned"
    BY <1>2, <2>1, <2>2, EndMove
  <2>4. QED
    BY <1>1, <1>3, <2>2, <2>3, LeaveStep
<1>6. CASE Visible(c) /\ row.snap.status \notin {"completed", "needs_human"}
  <2>1. SaveThen(c, "loop", Resumed(row.snap)) /\ UNCHANGED tries
    BY <1>6 DEF Load
  <2>2. row # NoRow /\ row.org = Org[c] /\ row.snap \in Snapshots /\ row.snap.version > 0
    BY <1>6, Acting DEF Visible, Rows
  <2> DEFINE s == Resumed(row.snap)
  <2>3. s \in Snapshots /\ s.version = row.snap.version /\ s.completed = row.snap.completed
    BY <2>2, ResumedType
  <2> HIDE DEF s
  <2>4. Moved(c) /\ pc'[c] = "save" /\ mine'[c] = s /\ after'[c] = "loop"
    BY <1>2, <2>1, <2>3, SaveThenMove DEF s, PCs
  <2>5. ASSUME Calm' PROVE Alone(c)' /\ ~repeated' /\ \A d \in Calls : d # c => ~Working(d)'
    <3>1. Calm
      BY <1>1, <2>4, <2>5, CalmBefore
    <3>2. Alone(c) /\ ~repeated
      BY <1>3, <2>5, <3>1, AloneBefore
    <3>3. performed \subseteq row.snap.completed
      BY <1>1, <2>2, <3>2 DEF Alone, Known, Blank
    <3>4. MayWrite(c)'
      BY <1>1, <2>2, <2>3, <2>4 DEF MayWrite, Visible, Snapshots
    <3>5. Alone(c)'
      BY <1>1, <2>3, <2>4, <3>3, <3>4 DEF Alone, Blank, Ended
    <3>6. QED
      BY <1>1, <1>3, <2>4, <2>5, <3>2, <3>5 DEF Moved, Working
  <2>6. QED
    BY <2>5, AloneAfter
<1>7. QED
  BY <1>4, <1>5, <1>6

LEMMA RecheckSerial ==
  ASSUME Inv, Serial, NEW c \in Calls, Recheck(c)
  PROVE  Serial'
<1>1. pc[c] = "recheck" /\ UNCHANGED <<row, performed, repeated, overlapped>>
  BY DEF Recheck, database, history
<1>2. Moved(c) /\ pc'[c] = IF row = NoRow THEN "plan" ELSE "refused"
  BY Acting, FreshType, ContinueMove, EndMove DEF Recheck, PCs, Ended
<1>3. ASSUME Calm' PROVE \A d \in Calls : d # c => ~Working(d)
  <2>1. Calm
    BY <1>1, <1>2, <1>3, CalmBefore
  <2>2. QED
    BY <1>1, <2>1 DEF Serial, Working, Ended
<1>4. QED
  BY <1>1, <1>2, <1>3, LeaveStep DEF Ended

LEMMA CreatePlanSerial ==
  ASSUME Inv, Serial, NEW c \in Calls, CreatePlan(c)
  PROVE  Serial'
<1>1. pc[c] = "plan" /\ UNCHANGED <<row, performed, repeated, overlapped>>
  BY DEF CreatePlan, database, history
<1>2. TypeOK /\ mine[c] = Fresh
  BY <1>1, Acting DEF CallInv, PlaceInv, Blank
<1>3. /\ Moved(c) /\ pc'[c] = "save" /\ after'[c] \in {"loop", "returned"}
      /\ mine'[c].version = 0
  <2>1. CASE \E shape \in Shapes :
                 SaveThen(c, "loop", [mine[c] EXCEPT !.plan = Plan(<<c, 0>>, shape)])
    BY <1>2, <2>1 DEF TypeOK, SaveThen, Goto, Moved, Fresh
  <2>2. CASE SaveThen(c, "returned",
                      [mine[c] EXCEPT !.status = "failed", !.plan = EmptyPlan(c)])
    BY <1>2, <2>2 DEF TypeOK, SaveThen, Goto, Moved, Fresh
  <2>3. QED
    BY <2>1, <2>2 DEF CreatePlan
<1>4. ASSUME Calm' PROVE Alone(c)' /\ ~repeated' /\ \A d \in Calls : d # c => ~Working(d)'
  <2>1. Calm
    BY <1>1, <1>3, <1>4, CalmBefore
  <2>2. \A d \in Calls : d # c => ~Working(d)
    BY <1>1, <2>1 DEF Serial, Working, Ended
  <2>3. Alone(c) /\ ~repeated
    BY <2>1, <2>2, AloneBefore
  <2>4. row = NoRow /\ performed = {}
    BY <1>1, <2>3 DEF Alone, Known, Blank
  <2>5. Alone(c)'
    BY <1>1, <1>3, <2>4 DEF Alone, MayWrite, Blank, Ended
  <2>6. QED
    BY <1>1, <1>3, <2>2, <2>3, <2>5 DEF Moved, Working
<1>5. QED
  BY <1>4, AloneAfter

LEMMA SaveSerial ==
  ASSUME Inv, Serial, NEW c \in Calls, Save(c)
  PROVE  Serial'
<1> DEFINE s == Saved(mine[c])
<1>1. /\ pc[c] = "save" /\ UNCHANGED <<performed, repeated, overlapped>>
      /\ row' = [org |-> Org[c], snap |-> s] /\ row' \in Rows
      /\ mine[c] \in Snapshots /\ s.version > 0 /\ Moved(c)
      /\ after[c] # "returned" => pc'[c] = after[c] /\ mine'[c] = s
      /\ after[c] = "returned" => pc'[c] = "returned"
  BY SaveFacts
<1>2. s.completed = mine[c].completed /\ Current(s) = Current(mine[c]) /\ s.version \in Nat
  BY <1>1, SavedType DEF Snapshots
<1> HIDE DEF s
<1>3. row' # NoRow /\ Known' = mine[c].completed
  BY <1>1, <1>2, NullAssumption DEF Known
<1>4. after[c] \in {"loop", "replan", "returned"} \cup AtSubtask
  BY <1>1, Acting DEF CallInv, PlaceInv
<1>5. ASSUME Calm' PROVE Alone(c)' /\ ~repeated' /\ \A d \in Calls : d # c => ~Working(d)'
  <2>1. Calm
    BY <1>1, <1>5, CalmBefore
  <2>2. \A d \in Calls : d # c => ~Working(d)
    BY <1>1, <2>1 DEF Serial, Working, Ended
  <2>3. Alone(c) /\ ~repeated
    BY <2>1, <2>2, AloneBefore
  <2>4. performed \subseteq mine[c].completed \cup
            (IF after[c] = "succeeded" THEN {Current(mine[c])} ELSE {})
    BY <1>1, <2>3 DEF Alone, Blank, Ended, At
  <2>5. CASE after[c] = "returned"
    BY <1>1, <1>3, <2>2, <2>3, <2>4, <2>5 DEF Alone, Blank, Ended, Moved, Working
  <2>6. CASE after[c] # "returned"
    <3>1. pc'[c] \notin Blank /\ pc'[c] # "save"
      BY <1>1, <1>4, <2>6 DEF Blank, Ended, AtSubtask
    <3>2. MayWrite(c)'
      BY <1>1, <1>2, <1>3, <2>6 DEF MayWrite, Visible
    <3>3. Alone(c)'
      BY <1>1, <1>2, <2>4, <2>6, <3>1, <3>2 DEF Alone, At, Blank
    <3>4. QED
      BY <1>1, <2>2, <2>3, <3>3 DEF Moved, Working
  <2>7. QED
    BY <2>5, <2>6
<1>6. QED
  BY <1>5, AloneAfter

\* A conflict takes two writers.
LEMMA ConflictSerial ==
  ASSUME Inv, Serial, NEW c \in Calls, Conflict(c)
  PROVE  Serial'
<1>1. pc[c] = "save" /\ ~MayWrite(c) /\ UNCHANGED overlapped
  BY DEF Conflict, history
<1>2. Moved(c)
  BY Acting, EndMove DEF Conflict, Ended
<1>3. ~Calm
  BY <1>1 DEF Serial, Blank, Ended
<1>4. ~Calm'
  BY <1>1, <1>2, <1>3, CalmBefore
<1>5. QED
  BY <1>4 DEF Serial

\* The steps of a call between two saves.
LEMMA WorkSerial ==
  ASSUME Inv, Serial, NEW c \in Calls,
         \/ NextSubtask(c) \/ Perform(c) \/ Fail(c) \/ Succeed(c) \/ Skip(c) \/ Abort(c)
         \/ Replan(c) \/ AskPlanner(c) \/ FindReview(c)
  PROVE  Serial'
<1>1. TypeOK /\ mine[c] \in Snapshots /\ CallInv(c)
  BY Acting
<1>2. CASE NextSubtask(c)
  <2>1. pc[c] = "loop" /\ UNCHANGED <<row, performed, repeated, overlapped>>
    BY <1>2 DEF NextSubtask, database, history
  <2>2. /\ Moved(c) /\ pc'[c] = "save"
        /\ mine'[c].version = mine[c].version /\ mine'[c].completed = mine[c].completed
    BY <1>1, <1>2, WithType
    DEF NextSubtask, SaveThen, Goto, TypeOK, Moved, Statuses
  <2>3. QED
    BY <2>1, <2>2, WorkStep DEF Alone, At, Blank, Ended
<1>3. CASE Perform(c)
  <2>1. /\ pc[c] = "execute" /\ UNCHANGED <<row, overlapped>>
        /\ performed' = performed \cup {Current(mine[c])}
        /\ repeated' = (repeated \/ Current(mine[c]) \in performed)
    BY <1>3 DEF Perform, database
  <2>2. Moved(c) /\ pc'[c] = "save" /\ after'[c] = "succeeded" /\ mine'[c] = mine[c]
    BY <1>1, <1>3 DEF Perform, SaveThen, Goto, TypeOK, Moved
  <2>3. Current(mine[c]) \notin mine[c].completed
    BY <1>1, <2>1, CurrentType DEF CallInv, PlaceInv, Blank, Ended, At, AtSubtask
  <2>4. Alone(c) => Current(mine[c]) \notin performed
    BY <2>1, <2>3 DEF Alone, At, Blank, Ended
  <2>5. Alone(c) => performed' \subseteq mine'[c].completed \cup {Current(mine'[c])}
    BY <2>1, <2>2 DEF Alone, At, Blank, Ended
  <2>6. At(c)' = "succeeded" /\ pc[c] \notin Blank /\ pc'[c] \notin Blank
    BY <2>1, <2>2 DEF At, Blank, Ended
  <2>7. repeated' => repeated \/ ~Alone(c)
    BY <2>1, <2>4
  <2>8. QED
    BY <2>1, <2>2, <2>5, <2>6, <2>7, WorkStep
<1>4. CASE Fail(c)
  <2>1. pc[c] = "execute" /\ UNCHANGED <<row, performed, repeated, overlapped>>
    BY <1>4 DEF Fail, database, history
  <2>2. /\ Moved(c) /\ pc'[c] \in {"execute", "save"} /\ mine'[c] = mine[c]
    BY <1>1, <1>4 DEF Fail, SaveThen, Goto, TypeOK, Moved
  <2>3. QED
    BY <2>1, <2>2, WorkStep DEF Alone, At, Blank, Ended
<1>5. CASE Succeed(c) \/ Skip(c)
  <2>1. /\ pc[c] \in {"succeeded", "failed"} /\ UNCHANGED <<row, performed, repeated, overlapped>>
        /\ SaveThen(c, "loop", Behind(mine[c]))
    BY <1>5 DEF Succeed, Skip, Failed, database, history
  <2>2. mine[c].plan # NoPlan /\ Left(mine[c]) # {}
    BY <1>1, <2>1 DEF CallInv, PlaceInv, Blank, Ended, At, AtSubtask
  <2>3. Moved(c) /\ pc'[c] = "save" /\ mine'[c] = Behind(mine[c])
    BY <1>1, <2>1 DEF SaveThen, Goto, TypeOK, Moved
  <2>4. /\ mine'[c].version = mine[c].version
        /\ mine'[c].completed = mine[c].completed \cup {Current(mine[c])}
    BY <1>1, <2>2, <2>3, BehindType
  <2>5. QED
    BY <2>1, <2>3, <2>4, WorkStep DEF Alone, At, Blank, Ended
<1>6. CASE Abort(c)
  <2>1. pc[c] = "failed" /\ UNCHANGED <<row, performed, repeated, overlapped>>
    BY <1>6 DEF Abort, Failed, database, history
  <2>2. Moved(c) /\ pc'[c] = "save" /\ mine'[c] = With(mine[c], "failed")
    BY <1>1, <1>6 DEF Abort, SaveThen, Goto, TypeOK, Moved
  <2>3. mine'[c].version = mine[c].version /\ mine'[c].completed = mine[c].completed
    BY <1>1, <2>2, WithType DEF Statuses
  <2>4. QED
    BY <2>1, <2>2, <2>3, WorkStep DEF Alone, At, Blank, Ended
<1>7. CASE Continue(c, "review", With(mine[c], "needs_human")) /\ pc[c] \in {"failed", "replan"}
           /\ UNCHANGED <<row, performed, repeated, overlapped>>
  <2>1. Moved(c) /\ pc'[c] = "review" /\ mine'[c] = With(mine[c], "needs_human")
    BY <1>1, <1>7 DEF Continue, Goto, TypeOK, Moved
  <2>2. mine'[c].version = mine[c].version /\ mine'[c].completed = mine[c].completed
    BY <1>1, <2>1, WithType DEF Statuses
  <2>3. QED
    BY <1>7, <2>1, <2>2, WorkStep DEF Alone, At, Blank, Ended
<1>8. CASE Replan(c)
  <2>1. pc[c] = "failed" /\ UNCHANGED <<row, performed, repeated, overlapped>>
    BY <1>8 DEF Replan, Failed, database, history
  <2>2. CASE SaveThen(c, "replan", Paid(mine[c]))
    <3>1. Moved(c) /\ pc'[c] = "save" /\ mine'[c] = Paid(mine[c])
      BY <1>1, <2>2 DEF SaveThen, Goto, TypeOK, Moved
    <3>2. mine'[c].version = mine[c].version /\ mine'[c].completed = mine[c].completed
      BY <1>1, <3>1, PaidType
    <3>3. QED
      BY <2>1, <3>1, <3>2, WorkStep DEF Alone, At, Blank, Ended
  <2>3. QED
    BY <1>7, <1>8, <2>1, <2>2 DEF Replan
<1>9. CASE AskPlanner(c)
  <2>1. pc[c] = "replan" /\ UNCHANGED <<row, performed, repeated, overlapped>>
    BY <1>9 DEF AskPlanner, database
  <2>2. CASE \E shape \in Shapes :
                 SaveThen(c, "loop", [mine[c] EXCEPT !.plan =
                                          Plan(<<c, mine[c].replans>>, shape)])
    <3>1. PICK plan : SaveThen(c, "loop", [mine[c] EXCEPT !.plan = plan])
      BY <2>2
    <3>2. /\ Moved(c) /\ pc'[c] = "save"
          /\ mine'[c].version = mine[c].version /\ mine'[c].completed = mine[c].completed
      BY <1>1, <3>1 DEF SaveThen, Goto, TypeOK, Moved, Snapshots
    <3>3. QED
      BY <2>1, <3>2, WorkStep DEF Alone, At, Blank, Ended
  <2>3. QED
    BY <1>7, <1>9, <2>1, <2>2 DEF AskPlanner
<1>10. CASE FindReview(c)
  <2>1. pc[c] = "review" /\ UNCHANGED <<row, performed, repeated, overlapped>>
    BY <1>10 DEF FindReview, database, history
  <2>2. Moved(c) /\ pc'[c] \in {"save", "insert_review"} /\ mine'[c] = mine[c]
        /\ after'[c] \in {after[c], "returned"}
    BY <1>1, <1>10 DEF FindReview, SaveThen, Continue, Goto, TypeOK, Moved
  <2>3. At(c) # "succeeded" /\ pc[c] \notin Blank /\ pc'[c] \notin Blank
    BY <2>1, <2>2 DEF At, Blank, Ended
  <2>4. Alone(c) => performed \subseteq mine[c].completed
    BY <2>3 DEF Alone
  <2>5. QED
    BY <2>1, <2>2, <2>3, <2>4, WorkStep
<1>11. QED
  BY <1>2, <1>3, <1>4, <1>5, <1>6, <1>8, <1>9, <1>10

\* A call that dies ends the calm.
LEMMA DeadSerial ==
  ASSUME NEW c \in Calls, pc'[c] = "dead"
  PROVE  Serial'
  BY DEF Serial, Calm

LEMMA InsertSerial ==
  ASSUME Inv, Serial, NEW c \in Calls, InsertReview(c)
  PROVE  Serial'
<1>1. TypeOK
  BY Acting
<1>2. pc[c] = "insert_review" /\ UNCHANGED <<row, performed, repeated, overlapped>>
  BY DEF InsertReview, history
<1>3. CASE review = "pending"
  BY <1>1, <1>3, DeadSerial DEF InsertReview, End, Goto, TypeOK
<1>4. CASE review # "pending"
  <2>1. Moved(c) /\ pc'[c] = "save" /\ mine'[c] = mine[c]
    BY <1>1, <1>4 DEF InsertReview, SaveThen, Goto, TypeOK, Moved
  <2>2. QED
    BY <1>2, <2>1, WorkStep DEF Alone, At, Blank, Ended
<1>5. QED
  BY <1>3, <1>4

\* Every step keeps Serial.
LEMMA SerialStep ==
  ASSUME Inv, Serial, [Next]_vars
  PROVE  Serial'
<1>1. ASSUME NEW c \in Calls, Step(c) PROVE Serial'
  BY <1>1, LoadSerial, RecheckSerial, CreatePlanSerial, SaveSerial, ConflictSerial, WorkSerial,
     InsertSerial DEF Step
<1>2. ASSUME NEW c \in Calls, Die(c) PROVE Serial'
  BY <1>2, Acting, DeadSerial DEF Die, End, Goto, TypeOK
<1>3. CASE Resolve \/ UNCHANGED vars
  <2>1. UNCHANGED <<row, pc, after, mine, performed, repeated, overlapped>>
    BY <1>3 DEF Resolve, vars, database, memory, history
  <2>2. \A c \in Calls : MayWrite(c)' = MayWrite(c) /\ At(c)' = At(c) /\ Working(c)' = Working(c)
    BY <2>1 DEF MayWrite, Visible, At, Working
  <2>3. QED
    BY <2>1, <2>2 DEF Serial, Calm, Known
<1>4. QED
  BY <1>1, <1>2, <1>3 DEF Next

\* A subtask is done again only if a call died in between or two calls worked
\* side by side.
THEOREM RepeatTakesFault == Spec => []RepeatNeedsFault
<1>1. Init => Serial
  BY DEF Init, Serial, Working, Ended, Blank, Known
<1>2. Serial => RepeatNeedsFault
  BY DEF Serial, Calm, RepeatNeedsFault
<1>3. QED
  BY Invariant, <1>1, <1>2, SerialStep, PTL DEF Spec

(***************************************************************************)
(* The coordinator implements the checkpoint contract.                     *)
(***************************************************************************)

\* What callers see of a row is never taken for its absence.
LEMMA ViewType ==
  ASSUME row \in Rows
  PROVE  /\ View = [status |-> row.snap.status, done |-> row.snap.completed,
                    replans |-> row.snap.replans]
         /\ View # NoRow
<1>1. row # NoRow /\ row.snap \in Snapshots
  BY NullAssumption DEF Rows
<1>2. row.snap.status \in Statuses /\ row.snap.completed \in SUBSET (PlanIds \X Nat)
      /\ row.snap.replans \in Nat
  BY <1>1 DEF Snapshots
<1>3. [status |-> row.snap.status, done |-> row.snap.completed, replans |-> row.snap.replans]
          \in [status: Statuses, done: SUBSET (PlanIds \X Nat), replans: Nat]
  BY <1>2
<1>4. QED
  BY <1>1, <1>3, ViewAssumption DEF View

\* A step that leaves the row and what the calls answered alone is invisible.
LEMMA Invisible ==
  ASSUME UNCHANGED <<row, answer>>
  PROVE  UNCHANGED Contract!vars
  BY DEF Contract!vars, View

\* So is a call that ends without an answer.
LEMMA EndsSilently ==
  ASSUME Inv, NEW c \in Calls, NEW how \in Ended, End(c, how, "nothing"), pc[c] \notin Ended,
         UNCHANGED row
  PROVE  UNCHANGED Contract!vars
<1>1. answer[c] = "nothing" /\ TypeOK
  BY Acting DEF CallInv, PlaceInv
<1>2. answer' = answer
  BY <1>1 DEF End, TypeOK
<1>3. QED
  BY <1>2, Invisible

\* A save creates the row or checkpoints it.
LEMMA SaveShows ==
  ASSUME Inv, NEW c \in Calls, Save(c)
  PROVE  Contract!Save /\ View'.status = mine[c].status /\ View' # NoRow
<1> DEFINE s == Saved(mine[c])
<1>1. /\ pc[c] = "save" /\ MayWrite(c) /\ mine[c] \in Snapshots
      /\ row' = [org |-> Org[c], snap |-> s] /\ row' \in Rows /\ s \in Snapshots
  BY SaveFacts
<1>2. /\ s.completed = mine[c].completed /\ s.replans = mine[c].replans
      /\ s.status = mine[c].status
  BY <1>1, SavedType
<1> HIDE DEF s
<1>3. row'.snap = s /\ row' # NoRow
  BY <1>1, NullAssumption
<1>4. View' = [status |-> mine[c].status, done |-> mine[c].completed,
               replans |-> mine[c].replans]
  BY <1>2, <1>3 DEF View
<1>5. View' # NoRow
  <2>1. mine[c].status \in Statuses /\ mine[c].completed \in SUBSET (PlanIds \X Nat)
        /\ mine[c].replans \in Nat
    BY <1>1 DEF Snapshots
  <2>2. QED
    BY <1>4, <2>1, ViewAssumption
<1>6. CASE mine[c].version = 0
  <2>1. View = NoRow
    BY <1>1, <1>6 DEF MayWrite, View
  <2>2. mine[c].completed = {} /\ mine[c].replans = 0 /\ mine[c].status \in {"running", "failed"}
    BY <1>6, Acting DEF CallInv, BudgetInv
  <2>3. QED
    BY <1>4, <1>5, <2>1, <2>2 DEF Contract!Save, Contract!Create
<1>7. CASE mine[c].version # 0
  <2>1. row # NoRow /\ row \in Rows /\ row.snap.version = mine[c].version
        /\ mine[c].version > 0
    BY <1>1, <1>7, Acting DEF MayWrite, Visible, Snapshots
  <2>2. /\ row.snap.status \notin {"completed", "needs_human"}
        /\ row.snap.completed \subseteq mine[c].completed
        /\ mine[c].replans \in {row.snap.replans, row.snap.replans + 1}
    BY <2>1, Acting DEF RowInv
  <2>3. View # NoRow /\ View.status = row.snap.status /\ View.done = row.snap.completed
        /\ View.replans = row.snap.replans
    BY <2>1, ViewType
  <2>4. View'.status \in {"completed", "needs_human", "failed", "running"}
    BY <1>1, <1>4 DEF Snapshots, Statuses
  <2>5. View'.done = mine[c].completed /\ View'.replans = mine[c].replans
    BY <1>4
  <2>6. QED
    BY <1>4, <1>5, <2>2, <2>3, <2>4, <2>5
    DEF Contract!Save, Contract!Checkpoint, Contract!Final, Contract!Outcomes
<1>8. QED
  BY <1>6, <1>7

\* Every step is a step of the contract or invisible.
LEMMA ContractStep ==
  ASSUME Inv, [Next]_vars
  PROVE  [Contract!Next]_(Contract!vars)
<1>1. ASSUME NEW c \in Calls, Load(c) PROVE [Contract!Next]_(Contract!vars)
  <2>1. pc[c] = "start" /\ UNCHANGED row
    BY <1>1 DEF Load, database
  <2>2. CASE Visible(c) /\ row.snap.status \in {"completed", "needs_human"}
    <3>1. row # NoRow /\ row \in Rows /\ answer[c] = "nothing"
      BY <2>1, <2>2, Acting DEF Visible, CallInv, PlaceInv, Ended
    <3>2. answer' = [answer EXCEPT ![c] = row.snap.status]
      BY <1>1, <2>2 DEF Load, End
    <3>3. View # NoRow /\ View.status = row.snap.status /\ View' = View
      BY <2>1, <3>1, ViewType DEF View
    <3>4. QED
      BY <2>2, <3>1, <3>2, <3>3
      DEF Contract!Next, Contract!Tell, Contract!Outcomes, Contract!Final
  <2>3. CASE ~(Visible(c) /\ row.snap.status \in {"completed", "needs_human"})
    <3>1. answer' = answer
      BY <1>1, <2>3 DEF Load, Continue, SaveThen
    <3>2. QED
      BY <2>1, <3>1, Invisible
  <2>4. QED
    BY <2>2, <2>3
<1>2. ASSUME NEW c \in Calls, Save(c) PROVE [Contract!Next]_(Contract!vars)
  <2>1. Contract!Save /\ View'.status = mine[c].status
    BY <1>2, SaveShows
  <2>2. CASE after[c] # "returned"
    BY <1>2, <2>1, <2>2, SaveFacts DEF Contract!Next
  <2>3. CASE after[c] = "returned"
    <3>1. pc[c] = "save" /\ mine[c] \in Snapshots
      BY <1>2, SaveFacts
    <3>2. answer' = [answer EXCEPT ![c] = Saved(mine[c]).status]
      BY <1>2, <2>3 DEF Save, End
    <3>3. Saved(mine[c]).status = mine[c].status
      BY <3>1, SavedType
    <3>4. answer[c] = "nothing" /\ mine[c].status \in {"completed", "needs_human", "failed"}
      BY <2>3, <3>1, Acting DEF CallInv, PlaceInv, StatusInv, Ended, Snapshots, Statuses
    <3>5. QED
      BY <2>1, <3>2, <3>3, <3>4
      DEF Contract!Next, Contract!Tell, Contract!Outcomes, Contract!Final
  <2>4. QED
    BY <2>2, <2>3
<1>3. ASSUME NEW c \in Calls,
             Conflict(c) \/ Die(c) \/ (Recheck(c) /\ row # NoRow)
                \/ (InsertReview(c) /\ review = "pending")
      PROVE  UNCHANGED Contract!vars
  BY <1>3, EndsSilently DEF Conflict, Die, Recheck, InsertReview, database, Ended
<1>4. ASSUME NEW c \in Calls,
             \/ CreatePlan(c) \/ NextSubtask(c) \/ Perform(c) \/ Fail(c) \/ Succeed(c)
             \/ Skip(c) \/ Abort(c) \/ Replan(c) \/ AskPlanner(c) \/ FindReview(c)
             \/ (InsertReview(c) /\ review # "pending") \/ (Recheck(c) /\ row = NoRow)
      PROVE  UNCHANGED Contract!vars
  <2>1. UNCHANGED <<row, answer>>
    BY <1>4
    DEF CreatePlan, NextSubtask, Perform, Fail, Succeed, Skip, Abort, Replan, AskPlanner,
        FindReview, InsertReview, Recheck, SaveThen, Continue, database
  <2>2. QED
    BY <2>1, Invisible
<1>5. CASE Resolve \/ UNCHANGED vars
  BY <1>5, Invisible DEF Resolve, vars, memory, database
<1>6. QED
  BY <1>1, <1>2, <1>3, <1>4, <1>5 DEF Next, Step

\* What callers see of the row and of the answers is the checkpoint contract:
\* progress is never taken back, final outcomes stay, no answer was invented.
THEOREM CheckpointsImplemented == Spec => ImplementsCheckpoints
<1>1. Init => Contract!Init
  BY DEF Init, Contract!Init, View
<1>2. QED
  BY Invariant, <1>1, ContractStep, PTL DEF Spec, ImplementsCheckpoints, Contract!Spec

===============================================================================
