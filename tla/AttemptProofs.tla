------------------------- MODULE AttemptProofs --------------------------
(***************************************************************************)
(* The rows of the agent loop: that an orderly loop leaves none of them    *)
(* open, and that the rows that are worked on implement the sequence of    *)
(* attempts of AttemptContract.tla, for any kind of task and any budget.   *)
(***************************************************************************)
EXTENDS AgentLoopProofs

Beginning == {"enter", "refresh"}
Untouched == {"prepare", "act"}
Closing == {"acted", "judge"}
Working == Beginning \cup Untouched \cup {"acting"} \cup Closing
Waiting == {"launch", "verify", "await", "exhausted"}
Beside == Waiting \cup {"conclude"}
Ending == {"read", "write", "cleanup", "over"}

Ended == {"completed", "failed"}

\* A row that nobody works on is done, or it waits for the loop or for the
\* coroutine that will cancel it.
StrayInv ==
    holes = {} => \A i \in DOMAIN steps : steps[i].status \in {"created", "running"} =>
        \/ i = Top.step /\ pc \in Beginning \cup Untouched \cup {"acting"}
        \/ i = NextRow /\ (pc \in Waiting \/ discarding)

\* Each open call holds the row of its own number ...
StackInv == \A i \in DOMAIN frames : frames[i].step = i

\* ... and each row has its call, but for one created beside a verification.
PlaceInv ==
    /\ pc \in Working => Len(frames) = NextRow
    /\ pc \in Beside => Len(frames) + 1 = NextRow
    /\ pc \in Waiting => steps[NextRow].status = "created"

\* The coroutine that discards outlives the verification, not the row.
CoroutineInv ==
    discarding => /\ pc \in Ending \cup {"conclude"}
                  /\ Len(frames) < NextRow
                  /\ steps[NextRow].status = "created"

\* Where a call is tells what it knows of its row, and that is the truth.
Knows(i) == frames[i].phase = "inside" /\ frames[i].known \in Ended
              /\ frames[i].known = steps[i].status

CallInv ==
    /\ \A i \in DOMAIN frames : i < Len(frames) => Knows(i)
    /\ pc \in Beginning => Top.phase = "outside" /\ steps[NextRow].status = "created"
    /\ pc \in Untouched \cup {"acting"} =>
          /\ Top.phase = "inside" /\ Top.known = "created"
          /\ steps[NextRow].status = IF pc = "acting" THEN "running" ELSE "created"
    /\ pc \in Closing => Knows(Len(frames)) /\ (Top.known = "failed" <=> outcome = "failed")
    /\ pc \in Beside => Knows(Len(frames)) /\ Top.known = "completed"
    /\ pc \in Ending /\ pc # "over" /\ Top.phase = "inside" => Knows(Len(frames))
    /\ pc \in Beside => steps[NextRow].status # "running"

\* Each row but the last has ended, and the next one follows from it.
After(row, next) ==
    \/ row.status = "failed" /\ next.order = row.order /\ next.retry = row.retry + 1
         /\ next.retry <= MaxRetries
    \/ row.status = "completed" /\ next.order = row.order + 1 /\ next.retry = 0

ChainInv ==
    /\ steps[1].order = 0 /\ steps[1].retry = 0
    /\ \A i \in DOMAIN steps : i < NextRow => After(steps[i], steps[i + 1])
    /\ Len(frames) = NextRow => steps[NextRow].order < MaxSteps

\* A task that is reported done had an attempt, and none begins afterwards.
TaskInv ==
    /\ pc \notin Ending => task \in {"running", "canceled"}
    /\ pc \in {"read", "write"} /\ want \in {"completed", "terminated"} =>
          /\ steps[NextRow].status # "running"
          /\ NextRow > 1 \/ steps[NextRow].status \in Ended

\* The invariant: open rows, the stack of calls, and the order of the rows.
AttemptInv == StrayInv /\ StackInv /\ PlaceInv /\ CoroutineInv /\ CallInv /\ ChainInv /\ TaskInv

(***************************************************************************)
(* How a step changes rows and calls.                                      *)
(***************************************************************************)

\* Rows and calls are counted from 1, and each call holds its row.
LEMMA Shape ==
  ASSUME Good, StackInv
  PROVE  /\ Len(frames) \in Nat \ {0} /\ NextRow \in Nat \ {0} /\ Len(frames) <= NextRow
         /\ DOMAIN frames = 1 .. Len(frames) /\ DOMAIN steps = 1 .. NextRow
         /\ \A i \in 1 .. Len(frames) : frames[i] \in Calls
         /\ \A i \in 1 .. NextRow : steps[i] \in Rows
         /\ Top = frames[Len(frames)] /\ Top.step = Len(frames)
         /\ Current = steps[Len(frames)]
<1>1. /\ Len(frames) \in Nat \ {0} /\ Len(steps) \in Nat
      /\ DOMAIN frames = 1 .. Len(frames) /\ DOMAIN steps = 1 .. Len(steps)
      /\ \A i \in 1 .. Len(frames) : frames[i] \in Calls
      /\ \A i \in 1 .. Len(steps) : steps[i] \in Rows
  BY DEF Good, Open
<1>2. Top = frames[Len(frames)] /\ Len(frames) \in DOMAIN frames
  BY LastType DEF Top, Good, Open
<1>3. Top.step = Len(frames) /\ Len(frames) \in DOMAIN steps
  BY <1>2 DEF StackInv, Good, Open
<1>4. QED
  BY <1>1, <1>2, <1>3 DEF NextRow, Current

\* A row gets a status and keeps its place.
LEMMA RowGets ==
  ASSUME steps \in Seq(Rows), NEW i \in DOMAIN steps, NEW s \in StepStatuses, SetRow(i, s)
  PROVE  /\ NextRow' = NextRow /\ DOMAIN steps' = DOMAIN steps
         /\ steps'[i].status = s
         /\ \A j \in DOMAIN steps :
               /\ j # i => steps'[j] = steps[j]
               /\ steps'[j].order = steps[j].order /\ steps'[j].retry = steps[j].retry
         /\ steps[i].status = s => steps' = steps
<1> DEFINE r == [steps[i] EXCEPT !.status = s]
<1>1. steps[i] \in Rows
  OBVIOUS
<1>2. /\ r \in Rows /\ r.status = s /\ r.order = steps[i].order /\ r.retry = steps[i].retry
      /\ steps[i].status = s => r = steps[i]
  BY <1>1 DEF Rows
<1>3. steps' = [steps EXCEPT ![i] = r]
  BY DEF SetRow
<1> HIDE DEF r
<1>4. QED
  BY <1>2, <1>3 DEF NextRow

\* A row is added.
LEMMA RowAdded ==
  ASSUME steps \in Seq(Rows), NEW row \in Rows, steps' = Append(steps, row)
  PROVE  /\ NextRow' = NextRow + 1
         /\ \A j \in 1 .. NextRow : steps'[j] = steps[j]
         /\ steps'[NextRow + 1] = row
  BY DEF NextRow

\* The innermost call goes on with what it knows.
LEMMA TopGets ==
  ASSUME frames \in Seq(Calls), frames # <<>>, NEW s \in StepStatuses, NEW ph \in Phases,
         InTop(s, ph)
  PROVE  /\ Len(frames') = Len(frames)
         /\ Top'.known = s /\ Top'.phase = ph /\ Top'.step = Top.step
         /\ Top' = frames'[Len(frames)]
         /\ \A i \in DOMAIN frames : i # Len(frames) => frames'[i] = frames[i]
<1> DEFINE f == [frames[Len(frames)] EXCEPT !.known = s, !.phase = ph]
<1>1. Len(frames) \in DOMAIN frames /\ Top = frames[Len(frames)] /\ Top \in Calls
  BY LastType DEF Top
<1>2. f \in Calls /\ f.phase = ph /\ f.known = s /\ f.step = Top.step
  BY <1>1 DEF Calls
<1>3. frames' = [frames EXCEPT ![Len(frames)] = f]
  BY <1>1 DEF InTop, Calls
<1> HIDE DEF f
<1>4. QED
  BY <1>1, <1>2, <1>3 DEF Top, Last

\* A call enters its handlers.
LEMMA CallHandles ==
  ASSUME NEW fs \in Seq(Calls), fs # <<>>, NEW ph \in Phases, Handling(fs, ph)
  PROVE  /\ Len(frames') = Len(fs)
         /\ Top'.known = Last(fs).known /\ Top'.phase = ph /\ Top'.step = Last(fs).step
         /\ Top' = frames'[Len(fs)]
         /\ \A i \in DOMAIN fs : i # Len(fs) => frames'[i] = fs[i]
<1> DEFINE f == [fs[Len(fs)] EXCEPT !.phase = ph]
<1>1. Len(fs) \in DOMAIN fs /\ Last(fs) = fs[Len(fs)] /\ Last(fs) \in Calls
  BY LastType
<1>2. f \in Calls /\ f.phase = ph /\ f.known = Last(fs).known /\ f.step = Last(fs).step
  BY <1>1 DEF Calls
<1>3. frames' = [fs EXCEPT ![Len(fs)] = f]
  BY <1>1 DEF Handling, Calls
<1> HIDE DEF f
<1>4. QED
  BY <1>1, <1>2, <1>3 DEF Top, Last

\* A call calls.
LEMMA CallAdded ==
  ASSUME frames \in Seq(Calls), NEW i \in Nat, Recurse(i)
  PROVE  /\ Len(frames') = Len(frames) + 1
         /\ Top'.phase = "outside" /\ Top'.step = i /\ Top' = frames'[Len(frames) + 1]
         /\ \A j \in DOMAIN frames : frames'[j] = frames[j]
<1> DEFINE f == Frame(i)
<1>1. f \in Calls /\ f.phase = "outside" /\ f.step = i
  BY DEF Frame, Calls, StepStatuses, Phases
<1>2. frames' = Append(frames, f)
  BY DEF Recurse
<1> HIDE DEF f
<1>3. QED
  BY <1>1, <1>2 DEF Top, Last

\* The callers of the innermost call.
LEMMA Callers ==
  ASSUME Good, Front(frames) # <<>>
  PROVE  /\ Front(frames) \in Seq(Calls)
         /\ Len(Front(frames)) = Len(frames) - 1
         /\ Last(Front(frames)) = frames[Len(frames) - 1]
         /\ Len(frames) - 1 \in Nat \ {0}
         /\ \A i \in 1 .. Len(frames) - 1 : Front(frames)[i] = frames[i]
<1>1. Front(frames) = SubSeq(frames, 1, Len(frames) - 1) /\ Len(frames) \in Nat \ {0}
  BY DEF Good, Open, Front
<1>2. Len(Front(frames)) = Len(frames) - 1 /\ Front(frames) \in Seq(Calls)
      /\ \A i \in 1 .. Len(frames) - 1 : Front(frames)[i] = frames[i]
  BY <1>1 DEF Good, Open
<1>3. Len(Front(frames)) \in Nat \ {0} /\ Last(Front(frames)) = Front(frames)[Len(Front(frames))]
  BY <1>2, LastType
<1> DEFINE fs == Front(frames)
<1> HIDE DEF fs
<1>4. QED
  BY <1>1, <1>2, <1>3 DEF fs

(***************************************************************************)
(* The invariant is preserved, one kind of step after another.             *)
(***************************************************************************)

\* Steps of the loop that touch neither rows nor calls.
Thinking ==
    \/ Enter /\ run = "running"
    \/ Prepare /\ mode # "goto"
    \/ Download
    \/ Decided
    \/ Launch
    \/ Verified
    \/ NotVerified
    \/ HandleFailed /\ pc' = "read"
    \/ Continue /\ pc' = "read"
    \/ TakePlan /\ pc' = "exhausted"
    \/ ReadTask
    \/ CleanUp
    \/ WriteTask /\ Top.phase # "failing"
    \/ Refused /\ Top.phase # "failing" /\ Catchers = <<>>
    \/ Fault /\ Catchers = <<>>
    \/ Speculate
    \/ CancelRead
    \/ CancelWrite
    \/ RunEnds

\* They leave rows and calls alone.
LEMMA ThinkingStays ==
  ASSUME Thinking
  PROVE  /\ steps' = steps /\ frames' = frames
         /\ Top' = Top /\ NextRow' = NextRow /\ Current' = Current
         /\ holes' = holes \/ holes' = holes \cup {"outside"}
<1>1. UNCHANGED <<steps, frames>>
  BY DEF Thinking, Enter, Prepare, Download, Decided, Launch, Verified, NotVerified,
     HandleFailed, Continue, TakePlan, ReadTask, CleanUp, WriteTask, Refused,
     Fault, CatchError, CatchSettled, Speculate, CancelRead, CancelWrite, RunEnds,
     Settle, Recurse, loop
<1>2. holes' = holes \/ holes' = holes \cup {"outside"}
  BY Zenon DEF Thinking, Enter, Prepare, Download, Decided, Launch, Verified, NotVerified,
     HandleFailed, Continue, TakePlan, ReadTask, CleanUp, WriteTask, Refused,
     Fault, CatchError, CatchSettled, Speculate, CancelRead, CancelWrite, RunEnds
<1>3. QED
  BY <1>1, <1>2 DEF Top, NextRow, Current

\* How they move the loop.
LEMMA ThinkingMoves ==
  ASSUME Inv, AttemptInv, Thinking
  PROVE  /\ \/ pc' = pc
            \/ pc = "enter" /\ pc' = "refresh"
            \/ pc = "prepare" /\ pc' = "act"
            \/ pc \in Closing /\ pc' \in {"judge", "read"}
            \/ pc = "launch" /\ pc' = "verify"
            \/ pc = "verify" /\ pc' \in {"await", "conclude"}
            \/ pc = "await" /\ pc' = "exhausted"
            \/ pc = "read" /\ pc' = "write"
            \/ pc \in Ending /\ pc # "over" /\ pc' \in {"cleanup", "over"}
            \/ pc' = "over" /\ Top.phase = "outside" /\ "outside" \in holes'
         /\ discarding' => discarding \/ (pc = "verify" /\ pc' = "conclude")
         /\ discarding \/ (pc = "verify" /\ pc' = "conclude") => discarding'
         /\ outcome' = outcome \/ pc = "verify"
         /\ task' = task \/ task' = "canceled" \/ pc' \in Ending
         /\ \/ want' = want /\ ~(pc \in Closing /\ pc' = "read")
            \/ want' = "failed"
            \/ pc \in Closing /\ (pc = "judge" => outcome # "failed")
<1>1. /\ pc \in PCs /\ Top.phase \in Phases /\ frames # <<>>
      /\ pc \notin Ending => Top.phase \in {"inside", "outside"}
  <2>1. pc \in PCs /\ frames # <<>> /\ Top.phase \in Phases
    BY Shape DEF Inv, Good, Open, Scalars, AttemptInv, Calls
  <2>2. \A i \in DOMAIN frames : Knows(i) => frames[i].phase = "inside"
    BY DEF Knows
  <2>3. QED
    BY <2>1, <2>2, Shape
    DEF AttemptInv, CallInv, Inv, PCs, Ending, Beside, Waiting, Closing, Untouched, Beginning
<1>2. CASE Fault /\ Catchers = <<>>
  <2>1. /\ pc # "over" /\ Top.phase # "failing"
        /\ Catchers = <<>> /\ pc' = "over" /\ want' = want
        /\ Top.phase = "outside" => "outside" \in holes'
        /\ UNCHANGED <<task, outcome>>
    BY <1>2 DEF Fault
  <2>2. Top.phase # "inside"
    BY <1>1, <2>1 DEF Catchers
  <2>3. discarding' = discarding
    BY <1>2, Zenon DEF Fault, aside
  <2>4. QED
    BY <1>1, <2>1, <2>2, <2>3 DEF Phases, Ending
<1>3. CASE Verified
  BY <1>3 DEF Verified
<1>4. CASE \/ Enter /\ run = "running"
           \/ Prepare /\ mode # "goto"
           \/ Download
           \/ Decided
           \/ Launch
           \/ NotVerified
           \/ HandleFailed /\ pc' = "read"
           \/ Continue /\ pc' = "read"
           \/ TakePlan /\ pc' = "exhausted"
           \/ ReadTask
           \/ CleanUp
           \/ WriteTask /\ Top.phase # "failing"
           \/ Refused /\ Top.phase # "failing" /\ Catchers = <<>>
           \/ Speculate
           \/ CancelRead
           \/ CancelWrite
           \/ RunEnds
  <2>1. discarding' = discarding
    BY <1>4, Zenon DEF Enter, Prepare, Download, Decided, Launch, NotVerified,
       HandleFailed, Continue, TakePlan, ReadTask, CleanUp, WriteTask, Refused,
       Speculate, CancelRead, CancelWrite, RunEnds, aside
  <2>2. QED
    BY <1>4, <2>1 DEF Enter, Prepare, Download, Decided, Launch, NotVerified,
       HandleFailed, Continue, TakePlan, ReadTask, CleanUp, WriteTask, Refused, CatchSettled,
       Speculate, CancelRead, CancelWrite, RunEnds, Settle, Recurse, loop, others,
       Closing, Ending
<1>5. QED
  BY <1>2, <1>3, <1>4 DEF Thinking

\* Nothing is written, so nothing can go wrong.
LEMMA ThinkingKeeps ==
  ASSUME Inv, AttemptInv, Thinking
  PROVE  AttemptInv'
<1>1. /\ Len(frames) \in Nat \ {0} /\ NextRow \in Nat \ {0} /\ Len(frames) <= NextRow
      /\ DOMAIN frames = 1 .. Len(frames) /\ DOMAIN steps = 1 .. NextRow
      /\ Top = frames[Len(frames)] /\ pc \in PCs
  BY Shape DEF Inv, AttemptInv, Scalars
<1>0. Len(frames) \in Nat /\ NextRow \in Nat
  BY <1>1
<1>2. StrayInv'
  <2>1. CASE holes' = {}
    <3>1. /\ holes = {} /\ (pc' # "over" \/ pc \in Ending)
      BY <2>1, ThinkingMoves, ThinkingStays DEF Ending
    <3>2. QED
      BY <2>1, <3>1, ThinkingMoves, ThinkingStays
      DEF AttemptInv, StrayInv, Beginning, Untouched, Waiting, Closing, Ending
  <2>2. QED
    BY <2>1 DEF StrayInv
<1>3. StackInv' /\ PlaceInv' /\ CoroutineInv'
  <2>1. StackInv /\ PlaceInv /\ CoroutineInv
    BY DEF AttemptInv
  <2>2. StackInv'
    BY <2>1, ThinkingStays DEF StackInv
  <2>3. PlaceInv'
    BY <2>1, ThinkingMoves, ThinkingStays
    DEF PlaceInv, Working, Beginning, Untouched, Beside, Waiting, Closing, Ending
  <2>4. pc \in Ending \cup {"conclude"} => pc' \in Ending \cup {"conclude"}
    BY ThinkingMoves DEF Ending, Closing
  <2>5. pc = "verify" => Len(frames) < NextRow /\ steps[NextRow].status = "created"
    BY <1>0, <2>1 DEF PlaceInv, Beside, Waiting
  <2>6. CoroutineInv'
    BY <2>1, <2>4, <2>5, ThinkingMoves, ThinkingStays DEF CoroutineInv
  <2>7. QED
    BY <2>2, <2>3, <2>6
<1>4. CallInv'
  <2>1. \A i : Knows(i)' <=> Knows(i)
    BY ThinkingStays DEF Knows
  <2>2. CallInv /\ PlaceInv
    BY DEF AttemptInv
  <2>3. pc' \in Ending => \/ pc \in Ending \cup Closing
                           \/ (pc \notin Ending /\ Top.phase = "outside")
    BY ThinkingMoves DEF Ending
  <2>4. pc' \in Ending /\ pc' # "over" /\ Top.phase = "inside" => Knows(Len(frames))
    <3>1. CASE pc \in Ending
      BY <2>2, <3>1, ThinkingMoves DEF CallInv, Ending
    <3>2. CASE pc \in Closing
      BY <2>2, <3>2 DEF CallInv
    <3>3. QED
      BY <2>3, <3>1, <3>2
  <2>5. outcome' = outcome \/ pc' \notin Closing
    BY ThinkingMoves DEF Closing
  <2>6. QED
    BY <2>1, <2>2, <2>4, <2>5, ThinkingMoves, ThinkingStays
    DEF CallInv, Beginning, Untouched, Beside, Waiting, Closing, Ending
<1>5. ChainInv'
  BY ThinkingStays DEF AttemptInv, ChainInv, After
<1>6. TaskInv'
  <2>1. CallInv /\ PlaceInv /\ TaskInv
    BY DEF AttemptInv
  <2>2. pc \in Closing => steps[NextRow].status \in Ended
    BY <1>1, <2>1 DEF CallInv, PlaceInv, Working, Knows
  <2>3. pc \in Ending => pc' \in Ending
    BY ThinkingMoves DEF Ending, Closing
  <2>4. pc' \in {"read", "write"} => pc \in {"read", "write"} \cup Closing
    BY ThinkingMoves DEF Closing
  <2>5. /\ pc' \notin Ending => task' = task \/ task' = "canceled"
        /\ want' \in {"completed", "terminated"} =>
              \/ want' = want /\ (pc' \in {"read", "write"} => pc \in {"read", "write"})
              \/ steps[NextRow].status \in Ended
    BY <2>2, <2>4, ThinkingMoves DEF Closing
  <2>6. "running" \notin Ended
    BY DEF Ended
  <2>7. QED
    BY <2>1, <2>2, <2>3, <2>4, <2>5, <2>6, ThinkingStays DEF TaskInv
<1>7. QED
  BY <1>2, <1>3, <1>4, <1>5, <1>6 DEF AttemptInv

\* The loop is interrupted: no hole is left only if it was at its end already.
LEMMA StopKeeps ==
  ASSUME Inv, AttemptInv, Interrupted \/ WorkerDies
  PROVE  AttemptInv' /\ steps' = steps /\ task' = task
<1>1. /\ pc' = "over" /\ UNCHANGED <<task, steps, frames, outcome, want>>
      /\ Top' = Top /\ NextRow' = NextRow
  BY DEF Interrupted, WorkerDies, Stop, Top, NextRow
<1>2. /\ holes \subseteq holes'
      /\ pc \notin {"cleanup", "over"} => "interrupted" \in holes'
  BY Zenon DEF Interrupted, WorkerDies
<1>3. discarding' => discarding
  BY Zenon DEF Interrupted, WorkerDies, aside
<1>4. discarding => discarding' \/ holes' # {}
  BY Zenon DEF Interrupted, WorkerDies, aside
<1>5. /\ pc' \in Ending
      /\ pc' \notin Working \cup Beginning \cup Untouched \cup {"acting"} \cup Closing
      /\ pc' \notin Beside \cup Waiting
  BY <1>1 DEF Working, Beginning, Untouched, Closing, Beside, Waiting, Ending
<1>6. StrayInv'
  <2>1. CASE holes' = {}
    <3>1. holes = {} /\ pc \in {"cleanup", "over"}
      BY <1>2, <2>1
    <3>2. pc \notin Beginning \cup Untouched \cup {"acting"} \cup Waiting
      BY <3>1 DEF Beginning, Untouched, Waiting
    <3>3. \A i \in DOMAIN steps : steps[i].status \in {"created", "running"} =>
             i = NextRow /\ discarding
      BY <3>1, <3>2, Zenon DEF AttemptInv, StrayInv
    <3>4. QED
      BY <1>1, <1>4, <2>1, <3>3, Zenon DEF StrayInv
  <2>2. QED
    BY <2>1 DEF StrayInv
<1>7. StackInv' /\ PlaceInv' /\ ChainInv' /\ TaskInv'
  BY <1>1, <1>5 DEF AttemptInv, StackInv, PlaceInv, ChainInv, TaskInv, After
<1>8. CoroutineInv'
  BY <1>1, <1>3, <1>5 DEF AttemptInv, CoroutineInv
<1>9. CallInv'
  <2>1. \A i : Knows(i)' <=> Knows(i)
    BY <1>1 DEF Knows
  <2>2. QED
    BY <1>1, <1>5, <2>1 DEF AttemptInv, CallInv
<1>10. QED
  BY <1>1, <1>6, <1>7, <1>8, <1>9 DEF AttemptInv

\* The row of the innermost call, the last one, gets a status.
LEMMA RowMarked ==
  ASSUME Inv, AttemptInv, pc \in Working, NEW s \in StepStatuses, SetRow(Top.step, s),
         Len(frames') = Len(frames)
  PROVE  /\ NextRow' = NextRow /\ DOMAIN steps' = DOMAIN steps
         /\ steps'[NextRow].status = s
         /\ \A i \in DOMAIN steps : i # NextRow => steps'[i] = steps[i]
         /\ ChainInv'
<1>1. /\ Len(frames) \in Nat \ {0} /\ NextRow \in Nat \ {0} /\ Len(frames) <= NextRow
      /\ DOMAIN steps = 1 .. NextRow
      /\ Top.step = Len(frames) /\ steps \in Seq(Rows)
  BY Shape DEF Inv, Good, AttemptInv
<1>2. Top.step = NextRow /\ NextRow \in DOMAIN steps
  BY <1>1 DEF AttemptInv, PlaceInv
<1>3. /\ NextRow' = NextRow /\ DOMAIN steps' = DOMAIN steps
      /\ steps'[NextRow].status = s
      /\ \A i \in DOMAIN steps :
            /\ i # NextRow => steps'[i] = steps[i]
            /\ steps'[i].order = steps[i].order /\ steps'[i].retry = steps[i].retry
  BY <1>1, <1>2, RowGets
<1>4. ChainInv
  BY DEF AttemptInv
<1>5. (steps[1].order = 0 /\ steps[1].retry = 0)'
  BY <1>1, <1>3, <1>4 DEF ChainInv
<1>6. ASSUME NEW i \in DOMAIN steps, i < NextRow
      PROVE  After(steps[i], steps[i + 1])'
  <2>1. i # NextRow /\ i + 1 \in DOMAIN steps
    BY <1>1, <1>6
  <2>2. After(steps[i], steps[i + 1])
    BY <1>4, <1>6 DEF ChainInv
  <2>3. QED
    BY <1>3, <2>1, <2>2 DEF After
<1>7. (Len(frames) = NextRow => steps[NextRow].order < MaxSteps)'
  BY <1>2, <1>3, <1>4 DEF ChainInv
<1>8. QED
  BY <1>3, <1>5, <1>6, <1>7 DEF ChainInv

\* The innermost call goes on, and the others keep what they know.
LEMMA CallMarked ==
  ASSUME Inv, AttemptInv, NEW s \in StepStatuses, NEW ph \in Phases, InTop(s, ph),
         \A i \in 1 .. Len(frames) - 1 : steps'[i] = steps[i]
  PROVE  /\ Len(frames') = Len(frames) /\ Top' = frames'[Len(frames)]
         /\ Top'.known = s /\ Top'.phase = ph /\ Top'.step = Len(frames)
         /\ StackInv'
         /\ (\A i \in DOMAIN frames : i < Len(frames) => Knows(i))'
<1>1. /\ Len(frames) \in Nat \ {0} /\ DOMAIN frames = 1 .. Len(frames)
      /\ Top.step = Len(frames) /\ frames \in Seq(Calls) /\ frames # <<>>
  BY Shape DEF Inv, Good, Open, AttemptInv
<1>2. /\ Len(frames') = Len(frames) /\ Top' = frames'[Len(frames)]
      /\ Top'.known = s /\ Top'.phase = ph /\ Top'.step = Len(frames)
      /\ \A i \in DOMAIN frames : i # Len(frames) => frames'[i] = frames[i]
  BY <1>1, TopGets
<1>3. DOMAIN frames' = DOMAIN frames
  BY <1>1 DEF InTop
<1>4. StackInv'
  BY <1>1, <1>2, <1>3 DEF AttemptInv, StackInv
<1>5. (\A i \in DOMAIN frames : i < Len(frames) => Knows(i))'
  BY <1>1, <1>2, <1>3 DEF AttemptInv, CallInv, Knows
<1>6. QED
  BY <1>2, <1>4, <1>5

\* Steps that end the row of the innermost call, well or badly.
LEMMA MarkKeeps ==
  ASSUME Inv, AttemptInv, pc \in Working \ Closing,
         NEW s \in Ended \cup {"canceled"}, NEW ph \in {"inside", "outside"}, MarkStep(s, ph),
         ph = "inside" <=> s \in Ended,
         \/ /\ pc' \in {"read", "cleanup"}
            /\ s = "canceled" /\ pc' = "read" => want' \notin {"completed", "terminated"}
         \/ /\ pc' = "acted" /\ s \in Ended
            /\ s = "failed" <=> outcome' = "failed",
         UNCHANGED <<task, discarding, holes>>
  PROVE  AttemptInv'
<1>1. /\ Len(frames) \in Nat \ {0} /\ NextRow \in Nat \ {0}
      /\ DOMAIN frames = 1 .. Len(frames) /\ DOMAIN steps = 1 .. NextRow
      /\ Top.step = Len(frames)
  BY Shape DEF Inv, AttemptInv
<1>2. Len(frames) = NextRow
  BY DEF AttemptInv, PlaceInv
<1>3. s \in StepStatuses /\ ph \in Phases /\ SetRow(Top.step, s) /\ InTop(s, ph)
  BY DEF MarkStep, StepStatuses, Phases, Ended
<1>4. Len(frames') = Len(frames)
  BY <1>3 DEF InTop, Inv, Good, Open
<1>5. /\ NextRow' = NextRow /\ DOMAIN steps' = DOMAIN steps
      /\ steps'[NextRow].status = s
      /\ \A i \in DOMAIN steps : i # NextRow => steps'[i] = steps[i]
      /\ ChainInv'
  BY <1>3, <1>4, RowMarked
<1>6. \A i \in 1 .. Len(frames) - 1 : steps'[i] = steps[i]
  BY <1>1, <1>2, <1>5
<1>7. /\ Top' = frames'[Len(frames)]
      /\ Top'.known = s /\ Top'.phase = ph /\ Top'.step = Len(frames)
      /\ StackInv'
      /\ (\A i \in DOMAIN frames : i < Len(frames) => Knows(i))'
  BY <1>3, <1>6, CallMarked
<1>8. pc \notin Ending \cup {"conclude"} \cup Waiting
  BY DEF Working, Beginning, Untouched, Closing, Ending, Waiting
<1>9. ~discarding' /\ ~discarding
  BY <1>8, Zenon DEF AttemptInv, CoroutineInv
<1>10. StrayInv'
  <2>1. CASE holes = {}
    <3>1. \A i \in DOMAIN steps : steps[i].status \in {"created", "running"} => i = NextRow
      BY <1>1, <1>2, <1>8, <1>9, <2>1, Zenon DEF AttemptInv, StrayInv
    <3>2. \A i \in DOMAIN steps : steps'[i].status \notin {"created", "running"}
      BY <1>1, <1>5, <3>1 DEF Ended
    <3>3. QED
      BY <1>5, <3>2 DEF StrayInv
  <2>2. QED
    BY <2>1 DEF StrayInv
<1>11. PlaceInv' /\ CoroutineInv'
  <2>1. pc' \notin Waiting \cup Beside /\ ~discarding'
    BY <1>9 DEF Waiting, Beside
  <2>2. QED
    BY <1>2, <1>4, <1>5, <2>1 DEF PlaceInv, CoroutineInv
<1>12. CallInv'
  <2>1. ph = "inside" => Knows(Len(frames))'
    BY <1>2, <1>4, <1>5, <1>7 DEF Knows
  <2>2. pc' \in Closing => pc' = "acted"
    BY DEF Closing
  <2>3. pc' \notin Beginning \cup Untouched \cup {"acting"} \cup Beside
    BY DEF Beginning, Untouched, Beside, Waiting
  <2>4. pc' = "acted" => pc' \notin Ending
    BY DEF Ending
  <2>5. QED
    BY <1>4, <1>5, <1>7, <2>1, <2>2, <2>3, <2>4 DEF CallInv
<1>13. TaskInv'
  <2>1. pc \notin Ending /\ task' \in {"running", "canceled"}
    BY <1>8 DEF AttemptInv, TaskInv
  <2>2. s # "running" /\ (s # "canceled" => s \in Ended)
    BY DEF Ended
  <2>3. QED
    BY <1>5, <2>1, <2>2 DEF TaskInv
<1>14. QED
  BY <1>5, <1>7, <1>10, <1>11, <1>12, <1>13 DEF AttemptInv

\* The step is started.
LEMMA ActKeeps == ASSUME Inv, AttemptInv, Act PROVE AttemptInv'
<1>1. /\ Len(frames) \in Nat \ {0} /\ NextRow \in Nat \ {0}
      /\ DOMAIN frames = 1 .. Len(frames) /\ DOMAIN steps = 1 .. NextRow
      /\ Top.step = Len(frames)
  BY Shape DEF Inv, AttemptInv
<1>2. /\ pc = "act" /\ pc' = "acting" /\ SetRow(Top.step, "running")
      /\ UNCHANGED <<frames, task, holes>> /\ Top' = Top
  BY DEF Act, Top
<1>3. pc \in Working /\ Len(frames) = NextRow
  BY <1>2 DEF AttemptInv, PlaceInv, Working, Untouched
<1>4. /\ NextRow' = NextRow /\ DOMAIN steps' = DOMAIN steps
      /\ steps'[NextRow].status = "running"
      /\ \A i \in DOMAIN steps : i # NextRow => steps'[i] = steps[i]
      /\ ChainInv'
  BY <1>2, <1>3, RowMarked DEF StepStatuses
<1>5. ~discarding'
  <2>1. pc \notin Ending \cup {"conclude"}
    BY <1>2 DEF Ending
  <2>2. QED
    BY <2>1, Zenon DEF AttemptInv, CoroutineInv, Act, aside
<1>6. StrayInv'
  BY <1>1, <1>2, <1>3, <1>4 DEF AttemptInv, StrayInv, Waiting, Untouched, Beginning
<1>7. StackInv' /\ PlaceInv' /\ CoroutineInv'
  <2>1. pc' \notin Waiting \cup Beside /\ ~discarding'
    BY <1>2, <1>5 DEF Waiting, Beside
  <2>2. QED
    BY <1>2, <1>3, <1>4, <2>1 DEF AttemptInv, StackInv, PlaceInv, CoroutineInv
<1>8. CallInv'
  <2>1. \A i \in DOMAIN frames : i < Len(frames) => Knows(i)'
    BY <1>1, <1>2, <1>3, <1>4 DEF AttemptInv, CallInv, Knows
  <2>2. Top.phase = "inside" /\ Top.known = "created"
    BY <1>2 DEF AttemptInv, CallInv, Untouched
  <2>3. QED
    BY <1>2, <1>3, <1>4, <2>1, <2>2
    DEF CallInv, Beginning, Untouched, Closing, Beside, Waiting, Ending
<1>9. TaskInv'
  BY <1>2 DEF AttemptInv, TaskInv, Ending
<1>10. QED
  BY <1>4, <1>6, <1>7, <1>8, <1>9 DEF AttemptInv

\* The call enters its try block.
LEMMA BeginKeeps ==
  ASSUME Inv, AttemptInv, Refresh, task # "canceled"
  PROVE  AttemptInv'
<1>1. /\ Len(frames) \in Nat \ {0} /\ NextRow \in Nat \ {0}
      /\ DOMAIN frames = 1 .. Len(frames) /\ DOMAIN steps = 1 .. NextRow
      /\ Top.step = Len(frames)
  BY Shape DEF Inv, AttemptInv
<1>2. /\ pc = "refresh" /\ pc' = "prepare" /\ InTop("created", "inside")
      /\ UNCHANGED <<steps, task, holes>> /\ NextRow' = NextRow
  BY DEF Refresh, NextRow
<1>3. pc \in Working /\ Len(frames) = NextRow
  BY <1>2 DEF AttemptInv, PlaceInv, Working, Beginning
<1>4. /\ Len(frames') = Len(frames) /\ Top' = frames'[Len(frames)]
      /\ Top'.known = "created" /\ Top'.phase = "inside" /\ Top'.step = Len(frames)
      /\ StackInv'
      /\ (\A i \in DOMAIN frames : i < Len(frames) => Knows(i))'
  <2>1. \A i \in 1 .. Len(frames) - 1 : steps'[i] = steps[i]
    BY <1>2
  <2>2. QED
    BY <1>2, <2>1, CallMarked DEF StepStatuses, Phases
<1>5. ~discarding'
  <2>1. pc \notin Ending \cup {"conclude"}
    BY <1>2 DEF Ending
  <2>2. QED
    BY <2>1, Zenon DEF AttemptInv, CoroutineInv, Refresh, aside
<1>6. StrayInv'
  <2>1. pc \in Beginning \cup Untouched \cup {"acting"} /\ pc' \in Beginning \cup Untouched \cup {"acting"}
    BY <1>2 DEF Beginning, Untouched
  <2>2. pc \notin Waiting /\ ~discarding
    BY <1>2, <1>5, Zenon DEF Waiting, Refresh, aside
  <2>3. QED
    BY <1>1, <1>2, <1>4, <2>1, <2>2 DEF AttemptInv, StrayInv
<1>7. PlaceInv' /\ CoroutineInv'
  <2>1. pc' \notin Waiting \cup Beside /\ ~discarding'
    BY <1>2, <1>5 DEF Waiting, Beside
  <2>2. QED
    BY <1>2, <1>3, <1>4, <2>1 DEF PlaceInv, CoroutineInv
<1>8. CallInv'
  <2>1. steps[NextRow].status = "created"
    BY <1>2 DEF AttemptInv, CallInv, Beginning
  <2>2. QED
    BY <1>2, <1>4, <2>1 DEF CallInv, Beginning, Untouched, Closing, Beside, Waiting, Ending
<1>9. ChainInv' /\ TaskInv'
  BY <1>2, <1>4 DEF AttemptInv, ChainInv, TaskInv, After, Ending
<1>10. QED
  BY <1>4, <1>6, <1>7, <1>8, <1>9 DEF AttemptInv

\* The completed step is reported once more, with the result of the
\* verification; the row beside it is left to the coroutine.
LEMMA ConcludeKeeps ==
  ASSUME Inv, AttemptInv, Conclude
  PROVE  AttemptInv' /\ steps' = steps
<1>1. /\ Len(frames) \in Nat \ {0} /\ NextRow \in Nat \ {0} /\ Len(frames) <= NextRow
      /\ DOMAIN frames = 1 .. Len(frames) /\ DOMAIN steps = 1 .. NextRow
      /\ Top = frames[Len(frames)] /\ Top.step = Len(frames) /\ steps \in Seq(Rows)
  BY Shape DEF Inv, Good, AttemptInv
<1>2. /\ pc = "conclude" /\ pc' = "read"
      /\ SetRow(Top.step, "completed") /\ InTop("completed", "inside")
      /\ UNCHANGED <<task, holes>>
  BY DEF Conclude, MarkStep, Settle
<1>3. /\ Len(frames) + 1 = NextRow
      /\ Knows(Len(frames)) /\ Top.known = "completed"
  BY <1>2 DEF AttemptInv, PlaceInv, CallInv, Beside
<1>4. steps[Len(frames)].status = "completed"
  BY <1>1, <1>3 DEF Knows
<1>5. steps' = steps /\ NextRow' = NextRow
  <2>1. Len(frames) \in DOMAIN steps
    BY <1>1
  <2>2. steps' = steps
    BY <1>1, <1>2, <1>4, <2>1, RowGets DEF StepStatuses
  <2>3. QED
    BY <2>2 DEF NextRow
<1>6. /\ Len(frames') = Len(frames) /\ Top' = frames'[Len(frames)]
      /\ Top'.known = "completed" /\ Top'.phase = "inside" /\ Top'.step = Len(frames)
      /\ StackInv'
      /\ (\A i \in DOMAIN frames : i < Len(frames) => Knows(i))'
  <2>1. \A i \in 1 .. Len(frames) - 1 : steps'[i] = steps[i]
    BY <1>5
  <2>2. QED
    BY <1>2, <2>1, CallMarked DEF StepStatuses, Phases
<1>7. discarding' <=> discarding
  <2>1. discarding' = discarding
    BY Zenon DEF Conclude, aside
  <2>2. QED
    BY <2>1
<1>8. StrayInv'
  <2>1. pc \notin Beginning \cup Untouched \cup {"acting"} \cup Waiting
    BY <1>2 DEF Beginning, Untouched, Waiting
  <2>2. QED
    BY <1>2, <1>5, <1>7, <2>1 DEF AttemptInv, StrayInv
<1>9. PlaceInv' /\ CoroutineInv'
  <2>1. pc' \notin Working \cup Waiting \cup Beside /\ pc' \in Ending
    BY <1>2 DEF Working, Beginning, Untouched, Closing, Waiting, Beside, Ending
  <2>2. QED
    BY <1>5, <1>6, <1>7, <2>1 DEF AttemptInv, PlaceInv, CoroutineInv
<1>10. CallInv'
  <2>1. Knows(Len(frames))'
    BY <1>4, <1>5, <1>6 DEF Knows, Ended
  <2>2. QED
    BY <1>2, <1>5, <1>6, <2>1
    DEF CallInv, Beginning, Untouched, Closing, Beside, Waiting
<1>11. ChainInv' /\ TaskInv'
  <2>1. NextRow > 1 /\ pc' \in Ending /\ steps[NextRow].status # "running"
    BY <1>1, <1>2, <1>3 DEF AttemptInv, CallInv, Beside, Ending
  <2>2. QED
    BY <1>5, <1>6, <2>1 DEF AttemptInv, ChainInv, TaskInv, After
<1>12. QED
  BY <1>5, <1>6, <1>8, <1>9, <1>10, <1>11 DEF AttemptInv

\* A row is created after the last one, which has ended and has its call.
LEMMA RowFollows ==
  ASSUME Inv, AttemptInv, pc \in Closing, NEW row \in Rows,
         After(Current, row), row.status = "created", steps' = Append(steps, row)
  PROVE  /\ Len(frames) = NextRow /\ NextRow' = NextRow + 1
         /\ DOMAIN steps' = 1 .. NextRow + 1
         /\ \A i \in 1 .. NextRow : steps'[i] = steps[i]
         /\ steps'[NextRow + 1] = row
         /\ steps[NextRow].status \in Ended
         /\ (steps[1].order = 0 /\ steps[1].retry = 0)'
         /\ (\A i \in DOMAIN steps : i < NextRow => After(steps[i], steps[i + 1]))'
<1>1. /\ Len(frames) \in Nat \ {0} /\ NextRow \in Nat \ {0}
      /\ DOMAIN steps = 1 .. NextRow /\ steps \in Seq(Rows)
      /\ Top.step = Len(frames) /\ Current = steps[Len(frames)]
  BY Shape DEF Inv, Good, AttemptInv
<1>2. Len(frames) = NextRow
  BY DEF AttemptInv, PlaceInv, Working
<1>3. /\ NextRow' = NextRow + 1 /\ DOMAIN steps' = 1 .. NextRow + 1
      /\ \A i \in 1 .. NextRow : steps'[i] = steps[i]
      /\ steps'[NextRow + 1] = row
  BY <1>1, RowAdded DEF NextRow
<1>4. (steps[1].order = 0 /\ steps[1].retry = 0)'
  BY <1>1, <1>3 DEF AttemptInv, ChainInv
<1>5. ASSUME NEW i \in 1 .. NextRow
      PROVE  After(steps[i], steps[i + 1])'
  <2>1. CASE i = NextRow
    BY <1>1, <1>2, <1>3, <2>1 DEF After
  <2>2. CASE i # NextRow
    <3>1. i < NextRow /\ i \in DOMAIN steps /\ i + 1 \in 1 .. NextRow
      BY <1>1, <2>2
    <3>2. After(steps[i], steps[i + 1])
      BY <3>1 DEF AttemptInv, ChainInv
    <3>3. QED
      BY <1>3, <3>1, <3>2 DEF After
  <2>3. QED
    BY <2>1, <2>2
<1>6. (\A i \in DOMAIN steps : i < NextRow => After(steps[i], steps[i + 1]))'
  <2>1. \A i \in 1 .. NextRow + 1 : i < NextRow + 1 => i \in 1 .. NextRow
    BY <1>1
  <2>2. QED
    BY <1>3, <1>5, <2>1
<1>7. steps[NextRow].status \in Ended
  BY <1>2 DEF AttemptInv, CallInv, Knows
<1>8. QED
  BY <1>2, <1>3, <1>4, <1>6, <1>7

\* What a row that ended tells of the outcome.
LEMMA Judged ==
  ASSUME Inv, AttemptInv, pc = "judge"
  PROVE  /\ Current \in Rows /\ Len(frames) = NextRow /\ Current = steps[NextRow]
         /\ Current.order < MaxSteps
         /\ outcome = "failed" => Current.status = "failed"
         /\ outcome = "progress" => Current.status = "completed"
         /\ Knows(Len(frames)) /\ ~discarding
<1>1. /\ Len(frames) \in Nat \ {0} /\ NextRow \in Nat \ {0}
      /\ DOMAIN frames = 1 .. Len(frames) /\ DOMAIN steps = 1 .. NextRow
      /\ \A i \in 1 .. NextRow : steps[i] \in Rows
      /\ Top = frames[Len(frames)] /\ Current = steps[Len(frames)]
  BY Shape DEF Inv, AttemptInv
<1>2. Len(frames) = NextRow
  BY DEF AttemptInv, PlaceInv, Working, Closing
<1>3. Knows(Len(frames)) /\ (Top.known = "failed" <=> outcome = "failed")
  BY DEF AttemptInv, CallInv, Closing
<1>4. /\ outcome = "failed" => Current.status = "failed"
      /\ outcome = "progress" => Current.status = "completed"
  BY <1>1, <1>3 DEF Knows, Ended
<1>5. Current.order < MaxSteps
  BY <1>1, <1>2 DEF AttemptInv, ChainInv
<1>6. ~discarding
  <2>1. pc \notin Ending \cup {"conclude"}
    BY DEF Ending
  <2>2. QED
    BY <2>1, Zenon DEF AttemptInv, CoroutineInv
<1>7. QED
  BY <1>1, <1>2, <1>3, <1>4, <1>5, <1>6

\* The next step or attempt gets a row and a call.
LEMMA NextKeeps ==
  ASSUME Inv, AttemptInv, pc = "judge", NEW row \in Rows,
         After(Current, row), row.status = "created", row.order < MaxSteps,
         steps' = Append(steps, row), Recurse(NextRow + 1),
         UNCHANGED <<task, discarding, holes>>
  PROVE  AttemptInv'
<1>1. /\ Len(frames) \in Nat \ {0} /\ NextRow \in Nat \ {0}
      /\ DOMAIN frames = 1 .. Len(frames) /\ DOMAIN steps = 1 .. NextRow
      /\ Top.step = Len(frames) /\ frames \in Seq(Calls)
  BY Shape DEF Inv, Good, Open, AttemptInv
<1>2. /\ Len(frames) = NextRow /\ NextRow' = NextRow + 1
      /\ DOMAIN steps' = 1 .. NextRow + 1
      /\ \A i \in 1 .. NextRow : steps'[i] = steps[i]
      /\ steps'[NextRow + 1] = row
      /\ steps[NextRow].status \in Ended
      /\ (steps[1].order = 0 /\ steps[1].retry = 0)'
      /\ (\A i \in DOMAIN steps : i < NextRow => After(steps[i], steps[i + 1]))'
  BY RowFollows DEF Closing
<1>3. /\ Len(frames') = Len(frames) + 1
      /\ Top'.phase = "outside" /\ Top'.step = NextRow + 1 /\ Top' = frames'[Len(frames) + 1]
      /\ \A j \in DOMAIN frames : frames'[j] = frames[j]
  BY <1>1, CallAdded
<1>4. DOMAIN frames' = 1 .. Len(frames) + 1
  BY <1>1 DEF Recurse
<1>5. pc' = "enter" /\ pc' \in Beginning /\ pc' \in Working
      /\ pc' \notin Untouched \cup {"acting"} \cup Closing \cup Beside \cup Ending \cup Waiting
  BY DEF Recurse, Working, Beginning, Untouched, Closing, Beside, Ending, Waiting
<1>6. ~discarding /\ ~discarding' /\ Knows(Len(frames))
  BY Judged
<1>7. StrayInv'
  <2>1. pc \notin Beginning \cup Untouched \cup {"acting"} \cup Waiting
    BY DEF Beginning, Untouched, Waiting
  <2>2. holes = {} => \A i \in DOMAIN steps : steps[i].status \notin {"created", "running"}
    BY <1>6, <2>1, Zenon DEF AttemptInv, StrayInv
  <2>3. holes = {} => \A i \in DOMAIN steps' :
           steps'[i].status \in {"created", "running"} => i = NextRow + 1
    BY <1>1, <1>2, <2>2
  <2>4. QED
    BY <1>3, <1>5, <2>3 DEF StrayInv
<1>8. StackInv'
  BY <1>1, <1>2, <1>3, <1>4 DEF AttemptInv, StackInv
<1>9. PlaceInv' /\ CoroutineInv'
  BY <1>2, <1>3, <1>5, <1>6 DEF PlaceInv, CoroutineInv
<1>10. CallInv'
  <2>1. ASSUME NEW i \in 1 .. Len(frames)
        PROVE  Knows(i)'
    <3>1. Knows(i)
      BY <1>1, <1>6, <2>1 DEF AttemptInv, CallInv
    <3>2. QED
      BY <1>1, <1>2, <1>3, <3>1 DEF Knows
  <2>2. \A i \in DOMAIN frames' : i < Len(frames') => Knows(i)'
    BY <1>1, <1>3, <1>4, <2>1
  <2>3. QED
    BY <1>2, <1>3, <1>5, <2>2 DEF CallInv
<1>11. ChainInv'
  BY <1>2, <1>3 DEF ChainInv
<1>12. TaskInv'
  <2>1. pc \notin Ending
    BY DEF Ending
  <2>2. QED
    BY <1>5, <2>1 DEF AttemptInv, TaskInv
<1>13. QED
  BY <1>7, <1>8, <1>9, <1>10, <1>11, <1>12 DEF AttemptInv

\* The next step gets a row beside the verification.
LEMMA VerifyKeeps == ASSUME Inv, AttemptInv, Verify PROVE AttemptInv'
<1>1. /\ Len(frames) \in Nat \ {0} /\ NextRow \in Nat \ {0}
      /\ DOMAIN frames = 1 .. Len(frames) /\ DOMAIN steps = 1 .. NextRow
      /\ Top.step = Len(frames) /\ Top = frames[Len(frames)]
  BY Shape DEF Inv, Good, Open, AttemptInv
<1> DEFINE row == NextOf(Current)
<1>2. /\ pc = "judge" /\ pc' = "launch" /\ steps' = Append(steps, row)
      /\ UNCHANGED <<task, frames, holes>> /\ Top' = Top
  BY DEF Verify, Top
<1>3. row \in Rows /\ After(Current, row) /\ row.status = "created"
  BY Judged DEF Verify, NextOf, Row, Rows, After, StepStatuses
<1> HIDE DEF row
<1>4. /\ Len(frames) = NextRow /\ NextRow' = NextRow + 1
      /\ DOMAIN steps' = 1 .. NextRow + 1
      /\ \A i \in 1 .. NextRow : steps'[i] = steps[i]
      /\ steps'[NextRow + 1] = row
      /\ steps[NextRow].status \in Ended
      /\ (steps[1].order = 0 /\ steps[1].retry = 0)'
      /\ (\A i \in DOMAIN steps : i < NextRow => After(steps[i], steps[i + 1]))'
  BY <1>2, <1>3, RowFollows DEF Closing
<1>5. /\ pc' \in Beside /\ pc' \in Waiting
      /\ pc' \notin Working \cup Beginning \cup Untouched \cup {"acting"} \cup Closing \cup Ending
  BY <1>2 DEF Working, Beginning, Untouched, Closing, Beside, Ending, Waiting
<1>6. ~discarding /\ ~discarding' /\ Knows(Len(frames)) /\ Top.known = "completed"
  <2>1. discarding' = discarding
    BY Zenon DEF Verify, aside
  <2>2. Current.status = "completed" /\ Knows(Len(frames)) /\ Current = steps[NextRow]
    BY <1>2, Judged DEF Verify
  <2>3. QED
    BY <1>1, <1>2, <1>4, <2>1, <2>2, Judged DEF Knows
<1>7. StrayInv'
  <2>1. pc \notin Beginning \cup Untouched \cup {"acting"} \cup Waiting
    BY <1>2 DEF Beginning, Untouched, Waiting
  <2>2. holes = {} => \A i \in DOMAIN steps : steps[i].status \notin {"created", "running"}
    BY <1>6, <2>1, Zenon DEF AttemptInv, StrayInv
  <2>3. holes = {} => \A i \in DOMAIN steps' :
           steps'[i].status \in {"created", "running"} => i = NextRow + 1
    BY <1>1, <1>4, <2>2
  <2>4. QED
    BY <1>2, <1>4, <1>5, <2>3 DEF StrayInv
<1>8. StackInv'
  BY <1>2 DEF AttemptInv, StackInv
<1>9. PlaceInv' /\ CoroutineInv'
  BY <1>2, <1>3, <1>4, <1>5, <1>6 DEF PlaceInv, CoroutineInv
<1>10. CallInv'
  <2>1. ASSUME NEW i \in 1 .. Len(frames)
        PROVE  Knows(i)'
    <3>1. Knows(i)
      BY <1>1, <1>6, <2>1 DEF AttemptInv, CallInv
    <3>2. QED
      BY <1>1, <1>2, <1>4, <3>1 DEF Knows
  <2>2. Len(frames') = Len(frames) /\ DOMAIN frames' = 1 .. Len(frames)
    BY <1>1, <1>2
  <2>3. QED
    BY <1>1, <1>2, <1>3, <1>4, <1>5, <1>6, <2>1, <2>2 DEF CallInv
<1>11. ChainInv'
  BY <1>1, <1>2, <1>4 DEF ChainInv
<1>12. TaskInv'
  <2>1. pc \notin Ending
    BY <1>2 DEF Ending
  <2>2. QED
    BY <1>2, <1>5, <2>1 DEF AttemptInv, TaskInv, Ending
<1>13. QED
  BY <1>7, <1>8, <1>9, <1>10, <1>11, <1>12 DEF AttemptInv

\* The row beside the verification gets its call.
LEMMA TakeKeeps ==
  ASSUME Inv, AttemptInv, TakePlan, pc' # "exhausted"
  PROVE  AttemptInv' /\ steps' = steps
<1>1. /\ Len(frames) \in Nat \ {0} /\ NextRow \in Nat \ {0}
      /\ DOMAIN frames = 1 .. Len(frames) /\ DOMAIN steps = 1 .. NextRow
      /\ \A i \in 1 .. NextRow : steps[i] \in Rows
      /\ Top = frames[Len(frames)] /\ Top.step = Len(frames) /\ frames \in Seq(Calls)
      /\ Current = steps[Len(frames)]
  BY Shape DEF Inv, Good, Open, AttemptInv
<1>2. /\ pc = "await" /\ Recurse(NextRow) /\ ~OutOfSteps(Current)
      /\ UNCHANGED <<steps, task, holes>> /\ NextRow' = NextRow
  BY DEF TakePlan, NextRow
<1>3. /\ Len(frames) + 1 = NextRow /\ steps[NextRow].status = "created"
      /\ Knows(Len(frames)) /\ Top.known = "completed"
  BY <1>2 DEF AttemptInv, PlaceInv, CallInv, Beside, Waiting
<1>4. /\ Len(frames') = Len(frames) + 1
      /\ Top'.phase = "outside" /\ Top'.step = NextRow /\ Top' = frames'[Len(frames) + 1]
      /\ \A j \in DOMAIN frames : frames'[j] = frames[j]
  BY <1>1, <1>2, CallAdded
<1>5. DOMAIN frames' = 1 .. Len(frames) + 1
  BY <1>1, <1>2 DEF Recurse
<1>6. pc' = "enter" /\ pc' \in Beginning /\ pc' \in Working
      /\ pc' \notin Untouched \cup {"acting"} \cup Closing \cup Beside \cup Ending \cup Waiting
  BY <1>2 DEF Recurse, Working, Beginning, Untouched, Closing, Beside, Ending, Waiting
<1>7. ~discarding /\ ~discarding'
  <2>1. pc \notin Ending \cup {"conclude"}
    BY <1>2 DEF Ending
  <2>2. discarding' = discarding
    BY Zenon DEF TakePlan
  <2>3. QED
    BY <2>1, <2>2, Zenon DEF AttemptInv, CoroutineInv
<1>8. StrayInv'
  <2>1. pc \notin Beginning \cup Untouched \cup {"acting"}
    BY <1>2 DEF Beginning, Untouched
  <2>2. holes = {} => \A i \in DOMAIN steps :
           steps[i].status \in {"created", "running"} => i = NextRow
    BY <2>1, Zenon DEF AttemptInv, StrayInv
  <2>3. QED
    BY <1>2, <1>4, <1>6, <2>2 DEF StrayInv
<1>9. StackInv'
  BY <1>1, <1>3, <1>4, <1>5 DEF AttemptInv, StackInv
<1>10. PlaceInv' /\ CoroutineInv'
  BY <1>2, <1>3, <1>4, <1>6, <1>7 DEF PlaceInv, CoroutineInv
<1>11. CallInv'
  <2>1. ASSUME NEW i \in 1 .. Len(frames)
        PROVE  Knows(i)'
    <3>1. Knows(i)
      BY <1>1, <1>3, <2>1 DEF AttemptInv, CallInv
    <3>2. QED
      BY <1>1, <1>2, <1>4, <3>1 DEF Knows
  <2>2. \A i \in DOMAIN frames' : i < Len(frames') => Knows(i)'
    BY <1>1, <1>4, <1>5, <2>1
  <2>3. QED
    BY <1>2, <1>3, <1>4, <1>6, <2>2 DEF CallInv
<1>12. ChainInv'
  <2>1. ChainInv
    BY DEF AttemptInv
  <2>2. Current.order + 1 < MaxSteps
    <3>1. Current \in Rows
      BY <1>1, <1>3
    <3>2. QED
      BY <1>2, <3>1, AgentLoopAssumption DEF OutOfSteps, Rows
  <2>3. Current.status = "completed"
    BY <1>1, <1>3 DEF Knows
  <2>4. After(Current, steps[NextRow])
    <3>1. Len(frames) \in DOMAIN steps /\ Len(frames) < NextRow
      BY <1>1, <1>3
    <3>2. After(steps[Len(frames)], steps[Len(frames) + 1])
      BY <2>1, <3>1 DEF ChainInv
    <3>3. QED
      BY <1>1, <1>3, <3>2
  <2>5. steps[NextRow].order < MaxSteps
    BY <2>2, <2>3, <2>4 DEF After
  <2>6. QED
    BY <1>2, <2>1, <2>5 DEF ChainInv, After
<1>13. TaskInv'
  <2>1. pc \notin Ending
    BY <1>2 DEF Ending
  <2>2. QED
    BY <1>2, <1>6, <2>1 DEF AttemptInv, TaskInv, Ending
<1>14. QED
  BY <1>2, <1>8, <1>9, <1>10, <1>11, <1>12, <1>13 DEF AttemptInv

\* The row beside the verification is canceled, or that fails.
LEMMA CancelKeeps ==
  ASSUME Inv, AttemptInv, Exhaust \/ Discard
  PROVE  /\ AttemptInv'
         /\ steps[NextRow].status = "created" /\ Len(frames) < NextRow
         /\ steps' = steps \/ SetRow(NextRow, "canceled")
<1>1. /\ Len(frames) \in Nat \ {0} /\ NextRow \in Nat \ {0}
      /\ DOMAIN frames = 1 .. Len(frames) /\ DOMAIN steps = 1 .. NextRow
      /\ steps \in Seq(Rows)
  BY Shape DEF Inv, Good, Open, AttemptInv
<1>2. /\ \/ pc = "exhausted" /\ pc' = "read" /\ want' = "failed"
         \/ pc \in Ending \cup {"conclude"} /\ pc' = pc /\ want' = want
      /\ Len(frames) < NextRow /\ steps[NextRow].status = "created"
      /\ UNCHANGED <<task, frames>> /\ Top' = Top
  <2>1. CASE Exhaust
    <3>1. pc = "exhausted" /\ pc \in Beside /\ pc \in Waiting
      BY <2>1 DEF Exhaust, Beside, Waiting
    <3>2. Len(frames) + 1 = NextRow /\ steps[NextRow].status = "created"
      BY <3>1 DEF AttemptInv, PlaceInv
    <3>3. Len(frames) < NextRow
      BY <1>1, <3>2
    <3>4. QED
      BY <2>1, <3>1, <3>2, <3>3 DEF Exhaust, Settle, Top
  <2>2. CASE Discard
    <3>1. discarding
      BY <2>2, Zenon DEF Discard
    <3>2. pc \in Ending \cup {"conclude"} /\ Len(frames) < NextRow
            /\ steps[NextRow].status = "created"
      BY <3>1, Zenon DEF AttemptInv, CoroutineInv
    <3>3. QED
      BY <2>2, <3>2 DEF Discard, loop, Top
  <2>3. QED
    BY <2>1, <2>2
<1>3. ~discarding'
  <2>1. CASE Exhaust
    <3>1. pc = "exhausted" /\ pc \notin Ending \cup {"conclude"}
      BY <2>1 DEF Exhaust, Ending
    <3>2. discarding' = discarding
      BY <2>1, Zenon DEF Exhaust, aside
    <3>3. QED
      BY <3>1, <3>2, Zenon DEF AttemptInv, CoroutineInv
  <2>2. CASE Discard
    BY <2>2, Zenon DEF Discard
  <2>3. QED
    BY <2>1, <2>2
<1>4. \/ SetRow(NextRow, "canceled") /\ holes' = holes
      \/ steps' = steps /\ holes' = holes \cup {"background"}
  BY Zenon DEF Exhaust, Discard, CancelNext
<1>5. /\ NextRow' = NextRow /\ DOMAIN steps' = DOMAIN steps
      /\ \A i \in DOMAIN steps :
            /\ i # NextRow => steps'[i] = steps[i]
            /\ steps'[i].order = steps[i].order /\ steps'[i].retry = steps[i].retry
      /\ steps'[NextRow].status \in {"created", "canceled"}
      /\ holes' = {} => holes = {} /\ steps'[NextRow].status = "canceled"
  <2>1. CASE SetRow(NextRow, "canceled") /\ holes' = holes
    <3>1. NextRow \in DOMAIN steps
      BY <1>1
    <3>2. QED
      BY <1>1, <2>1, <3>1, RowGets DEF StepStatuses
  <2>2. CASE steps' = steps /\ holes' = holes \cup {"background"}
    BY <1>2, <2>2 DEF NextRow
  <2>3. QED
    BY <1>4, <2>1, <2>2
<1>6. /\ pc' \in Ending \cup {"conclude"} /\ pc' \notin Working \cup Waiting
      /\ pc \notin Beginning \cup Untouched \cup {"acting"} \cup Working
      /\ pc' = "conclude" => pc = "conclude"
  BY <1>2 DEF Ending, Working, Beginning, Untouched, Closing, Waiting
<1>7. StrayInv'
  <2>1. CASE holes' = {}
    <3>1. \A i \in DOMAIN steps : steps[i].status \in {"created", "running"} => i = NextRow
      BY <1>5, <1>6, <2>1, Zenon DEF AttemptInv, StrayInv
    <3>2. \A i \in DOMAIN steps : steps'[i].status \notin {"created", "running"}
      BY <1>1, <1>5, <2>1, <3>1
    <3>3. QED
      BY <1>5, <3>2 DEF StrayInv
  <2>2. QED
    BY <2>1 DEF StrayInv
<1>8. StackInv' /\ CoroutineInv'
  BY <1>2, <1>3 DEF AttemptInv, StackInv, CoroutineInv
<1>9. PlaceInv'
  <2>1. pc' \in Beside => pc \in Beside
    BY <1>6 DEF Beside, Ending, Waiting
  <2>2. QED
    BY <1>2, <1>5, <1>6, <2>1 DEF AttemptInv, PlaceInv
<1>10. \A i \in 1 .. Len(frames) : Knows(i)' <=> Knows(i)
  <2>1. \A i \in 1 .. Len(frames) : steps'[i] = steps[i]
    BY <1>1, <1>2, <1>5
  <2>2. QED
    BY <1>2, <2>1 DEF Knows
<1>11. CallInv'
  <2>1. pc \in Beside => Knows(Len(frames)) /\ Top.known = "completed"
    BY DEF AttemptInv, CallInv
  <2>2. pc' \in Beside => pc = "conclude" /\ pc \in Beside
    BY <1>6 DEF Beside, Waiting, Ending
  <2>3. pc' \in Ending => pc \in Ending \/ pc \in Beside
    BY <1>2 DEF Ending, Beside, Waiting
  <2>4. pc' \notin Beginning \cup Untouched \cup {"acting"} \cup Closing
    BY <1>6 DEF Working
  <2>5. QED
    BY <1>1, <1>2, <1>5, <1>10, <2>1, <2>2, <2>3, <2>4 DEF AttemptInv, CallInv
<1>12. ChainInv'
  <2>1. ChainInv
    BY DEF AttemptInv
  <2>2. ASSUME NEW i \in DOMAIN steps, i < NextRow
        PROVE  After(steps[i], steps[i + 1])'
    <3>1. i # NextRow /\ i + 1 \in DOMAIN steps
      BY <1>1, <2>2
    <3>2. After(steps[i], steps[i + 1])
      BY <2>1, <2>2 DEF ChainInv
    <3>3. QED
      BY <1>5, <3>1, <3>2 DEF After
  <2>3. (steps[1].order = 0 /\ steps[1].retry = 0)'
    <3>1. 1 \in DOMAIN steps
      BY <1>1
    <3>2. steps'[1].order = steps[1].order /\ steps'[1].retry = steps[1].retry
      BY <1>5, <3>1
    <3>3. QED
      BY <2>1, <3>2 DEF ChainInv
  <2>4. Len(frames') # NextRow'
    <3>1. Len(frames) # NextRow
      BY <1>1, <1>2
    <3>2. QED
      BY <1>2, <1>5, <3>1
  <2>5. QED
    BY <1>5, <2>2, <2>3, <2>4 DEF ChainInv
<1>13. TaskInv'
  <2>1. NextRow' > 1 /\ steps'[NextRow'].status # "running"
    BY <1>1, <1>2, <1>5
  <2>2. pc' \notin Ending => pc \notin Ending
    BY <1>2 DEF Ending
  <2>3. QED
    BY <1>2, <2>1, <2>2 DEF AttemptInv, TaskInv
<1>14. QED
  BY <1>2, <1>4, <1>7, <1>8, <1>9, <1>11, <1>12, <1>13 DEF AttemptInv

\* The call that catches the exception enters its handlers: the innermost one,
\* or the one around it, which called it.
LEMMA CallCatches ==
  ASSUME Inv, AttemptInv, NEW fs \in {frames, Front(frames)}, fs # <<>>,
         NEW ph \in {"handled", "failing"}, Handling(fs, ph),
         \A i \in 1 .. Len(frames) - 1 : steps'[i] = steps[i]
  PROVE  /\ Len(frames') = Len(fs) /\ Len(frames') <= Len(frames)
         /\ Top'.phase = ph
         /\ StackInv'
         /\ (\A i \in DOMAIN frames : i < Len(frames) => Knows(i))'
         /\ Last(fs) = frames[Len(fs)] /\ Last(fs).step = Len(fs)
         /\ fs # frames => Knows(Len(fs)) /\ Len(fs) < Len(frames)
<1>1. /\ Len(frames) \in Nat \ {0} /\ DOMAIN frames = 1 .. Len(frames)
      /\ Top = frames[Len(frames)] /\ frames \in Seq(Calls) /\ Good
  BY Shape DEF Inv, Good, Open, AttemptInv
<1>2. /\ fs \in Seq(Calls) /\ Len(fs) \in 1 .. Len(frames)
      /\ Last(fs) = frames[Len(fs)]
      /\ fs # frames => Len(fs) < Len(frames)
      /\ \A i \in 1 .. Len(fs) : fs[i] = frames[i]
  <2>1. CASE fs = frames
    BY <1>1, <2>1 DEF Top
  <2>2. CASE fs # frames
    <3>1. fs = Front(frames)
      BY <2>2
    <3>2. /\ fs \in Seq(Calls)
          /\ Len(fs) = Len(frames) - 1
          /\ Last(fs) = frames[Len(frames) - 1]
          /\ Len(frames) - 1 \in Nat \ {0}
          /\ \A i \in 1 .. Len(frames) - 1 : fs[i] = frames[i]
      BY <1>1, <3>1, Callers
    <3>3. QED
      BY <1>1, <3>2
  <2>3. QED
    BY <2>1, <2>2
<1>3. /\ Len(frames') = Len(fs)
      /\ Top'.phase = ph /\ Top'.step = Last(fs).step
      /\ Top' = frames'[Len(fs)]
      /\ \A i \in DOMAIN fs : i # Len(fs) => frames'[i] = fs[i]
  BY <1>2, CallHandles DEF Phases
<1>4. DOMAIN frames' = 1 .. Len(fs) /\ DOMAIN fs = 1 .. Len(fs)
  BY <1>2 DEF Handling
<1>5. /\ \A i \in 1 .. Len(frames) : frames[i].step = i
      /\ \A i \in 1 .. Len(frames) : i < Len(frames) => Knows(i)
  BY <1>1 DEF AttemptInv, StackInv, CallInv
<1>6. Last(fs).step = Len(fs)
  BY <1>2, <1>5
<1>7. ASSUME NEW i \in 1 .. Len(fs)
      PROVE  /\ frames'[i].step = i
             /\ i < Len(fs) => Knows(i)'
  <2>1. CASE i = Len(fs)
    BY <1>3, <1>6, <2>1
  <2>2. CASE i # Len(fs)
    <3>1. i < Len(frames) /\ i \in 1 .. Len(frames) /\ i \in 1 .. Len(frames) - 1
      BY <1>1, <1>2, <2>2
    <3>2. frames'[i] = frames[i] /\ steps'[i] = steps[i]
      BY <1>2, <1>3, <1>4, <2>2, <3>1
    <3>3. QED
      BY <1>5, <3>1, <3>2 DEF Knows
  <2>3. QED
    BY <2>1, <2>2
<1>8. StackInv' /\ (\A i \in DOMAIN frames : i < Len(frames) => Knows(i))'
  BY <1>3, <1>4, <1>7 DEF StackInv
<1>9. fs # frames => Knows(Len(fs)) /\ Len(fs) < Len(frames)
  BY <1>2, <1>5
<1>10. Len(frames') <= Len(frames)
  BY <1>1, <1>2, <1>3
<1>11. QED
  BY <1>2, <1>3, <1>6, <1>8, <1>9, <1>10

\* It leaves the rows alone.
LEMMA CatchKeeps ==
  ASSUME Inv, AttemptInv, NEW fs \in {frames, Front(frames)}, fs # <<>>,
         NEW ph \in {"handled", "failing"}, Handling(fs, ph), steps' = steps,
         pc' \in {"read", "cleanup", "over"},
         pc' = "read" => want' = "failed",
         holes' = {} => holes = {} /\ pc \notin Beginning \cup Untouched \cup {"acting"} \cup Waiting,
         discarding' <=> discarding
  PROVE  AttemptInv'
<1>1. Len(frames) \in Nat \ {0} /\ NextRow \in Nat \ {0} /\ Len(frames) <= NextRow
  BY Shape DEF Inv, AttemptInv
<1>2. /\ Len(frames') = Len(fs) /\ Len(frames') <= Len(frames)
      /\ Top'.phase = ph
      /\ StackInv'
      /\ (\A i \in DOMAIN frames : i < Len(frames) => Knows(i))'
  BY CallCatches
<1>3. NextRow' = NextRow
  BY DEF NextRow
<1>4. Len(frames') \in Nat
  <2>1. frames' \in Seq(Calls)
    <3>1. fs \in Seq(Calls)
      BY Callers DEF Inv, Good, Open
    <3>2. Len(fs) \in DOMAIN fs /\ fs[Len(fs)] \in Calls
      BY <3>1, LastType
    <3> DEFINE f == [fs[Len(fs)] EXCEPT !.phase = ph]
    <3>3. f \in Calls
      BY <3>2 DEF Calls, Phases
    <3>4. frames' = [fs EXCEPT ![Len(fs)] = f]
      BY <3>2 DEF Handling, Calls
    <3> HIDE DEF f
    <3>5. QED
      BY <3>1, <3>3, <3>4
  <2>2. QED
    BY <2>1
<1>5. pc' \in Ending /\ pc' \notin Working \cup Waiting \cup Beside
  BY DEF Ending, Working, Beginning, Untouched, Closing, Waiting, Beside
<1>6. StrayInv'
  BY <1>3, Zenon DEF AttemptInv, StrayInv
<1>7. PlaceInv' /\ CoroutineInv'
  <2>1. discarding => Len(frames) < NextRow /\ steps[NextRow].status = "created"
    BY Zenon DEF AttemptInv, CoroutineInv
  <2>2. Len(frames) < NextRow => Len(frames') < NextRow
    BY <1>1, <1>2, <1>4
  <2>3. QED
    BY <1>3, <1>5, <2>1, <2>2 DEF PlaceInv, CoroutineInv
<1>8. CallInv'
  BY <1>2, <1>3, <1>5 DEF CallInv, Working
<1>9. ChainInv'
  <2>1. Len(frames') = NextRow => Len(frames) = NextRow
    BY <1>1, <1>2, <1>4
  <2>2. QED
    BY <1>3, <2>1 DEF AttemptInv, ChainInv, After
<1>10. TaskInv'
  BY <1>5 DEF TaskInv
<1>11. QED
  BY <1>2, <1>6, <1>7, <1>8, <1>9, <1>10 DEF AttemptInv

\* It fails the row it was working on.
LEMMA FailKeeps ==
  ASSUME Inv, AttemptInv, pc \in Untouched \cup {"acting"},
         SetRow(Top.step, "failed"), Handling(frames, "failing"),
         pc' = "read", want' = "failed", holes' = holes, discarding' <=> discarding
  PROVE  AttemptInv'
<1>1. /\ Len(frames) \in Nat \ {0} /\ NextRow \in Nat \ {0}
      /\ DOMAIN frames = 1 .. Len(frames) /\ DOMAIN steps = 1 .. NextRow
      /\ frames # <<>>
  BY Shape DEF Inv, Good, Open, AttemptInv
<1>2. pc \in Working /\ Len(frames) = NextRow
  BY DEF AttemptInv, PlaceInv, Working
<1>3. Len(frames') = Len(frames)
  BY DEF Handling, Inv, Good, Open
<1>4. /\ NextRow' = NextRow /\ DOMAIN steps' = DOMAIN steps
      /\ steps'[NextRow].status = "failed"
      /\ \A i \in DOMAIN steps : i # NextRow => steps'[i] = steps[i]
      /\ ChainInv'
  BY <1>2, <1>3, RowMarked DEF StepStatuses
<1>5. /\ Top'.phase = "failing"
      /\ StackInv'
      /\ (\A i \in DOMAIN frames : i < Len(frames) => Knows(i))'
  <2>1. \A i \in 1 .. Len(frames) - 1 : steps'[i] = steps[i]
    BY <1>1, <1>2, <1>4
  <2>2. QED
    BY <1>1, <2>1, CallCatches
<1>6. pc' \in Ending /\ pc' \notin Working \cup Waiting \cup Beside /\ pc \notin Waiting
  BY DEF Ending, Working, Beginning, Untouched, Closing, Waiting, Beside
<1>7. ~discarding /\ ~discarding'
  <2>1. pc \notin Ending \cup {"conclude"}
    BY DEF Ending, Untouched
  <2>2. QED
    BY <2>1, Zenon DEF AttemptInv, CoroutineInv
<1>8. StrayInv'
  <2>1. CASE holes = {}
    <3>1. \A i \in DOMAIN steps : steps[i].status \in {"created", "running"} => i = NextRow
      <4>1. Top.step = NextRow
        BY <1>2, Shape DEF Inv, AttemptInv
      <4>2. QED
        BY <1>6, <1>7, <2>1, <4>1, Zenon DEF AttemptInv, StrayInv
    <3>2. \A i \in DOMAIN steps : steps'[i].status \notin {"created", "running"}
      BY <1>1, <1>4, <3>1
    <3>3. QED
      BY <1>4, <3>2 DEF StrayInv
  <2>2. QED
    BY <2>1 DEF StrayInv
<1>9. PlaceInv' /\ CoroutineInv'
  BY <1>6, <1>7 DEF PlaceInv, CoroutineInv
<1>10. CallInv'
  BY <1>4, <1>5, <1>6 DEF CallInv, Working
<1>11. TaskInv'
  BY <1>6 DEF TaskInv
<1>12. QED
  BY <1>4, <1>5, <1>8, <1>9, <1>10, <1>11 DEF AttemptInv

\* What is known of the innermost call wherever a statement may raise.
LEMMA TopKnows ==
  ASSUME Inv, AttemptInv
  PROVE  /\ pc \in PCs /\ frames # <<>> /\ Top.phase \in Phases
         /\ Top.phase = "inside" /\ pc # "over" =>
               Knows(Len(frames)) \/ (pc \in Untouched \cup {"acting"} /\ Top.known = "created")
         /\ Top.phase \in {"handled", "failing"} => pc \in Ending
         /\ Top.phase = "outside" => pc \in Beginning \cup Ending
         /\ pc \in Waiting => Top.known = "completed" /\ Top.phase = "inside"
<1>1. /\ Len(frames) \in Nat \ {0} /\ NextRow \in Nat \ {0}
      /\ DOMAIN frames = 1 .. Len(frames)
      /\ Top = frames[Len(frames)] /\ Top \in Calls /\ pc \in PCs /\ frames # <<>>
  BY Shape DEF Inv, Good, Open, Scalars, AttemptInv
<1>2. CallInv /\ PlaceInv
  BY DEF AttemptInv
<1>3. Top.phase \in Phases
  BY <1>1 DEF Calls
<1>4. Knows(Len(frames)) => Top.phase = "inside" /\ steps[Len(frames)].status \in Ended
  BY <1>1 DEF Knows
<1>5. pc \in Beginning \cup Untouched \cup {"acting"} \cup Closing \cup Beside \cup Ending
  BY <1>1 DEF PCs, Beginning, Untouched, Closing, Beside, Waiting, Ending
<1>6. /\ Top.phase = "inside" /\ pc # "over" =>
            Knows(Len(frames)) \/ (pc \in Untouched \cup {"acting"} /\ Top.known = "created")
      /\ Top.phase \in {"handled", "failing"} => pc \in Ending
      /\ Top.phase = "outside" => pc \in Beginning \cup Ending
  BY <1>2, <1>4, <1>5 DEF CallInv
<1>7. pc \in Waiting => Top.known = "completed" /\ Top.phase = "inside"
  BY <1>2, <1>4 DEF CallInv, Beside
<1>8. QED
  BY <1>1, <1>3, <1>6, <1>7

\* An exception is caught.
LEMMA FaultKeeps ==
  ASSUME Inv, AttemptInv, Fault, Catchers # <<>>
  PROVE  /\ AttemptInv'
         /\ \/ steps' = steps
            \/ pc \in Untouched \cup {"acting"} /\ SetRow(Top.step, "failed")
<1>1. /\ pc # "over" /\ Top.phase # "failing"
      /\ CatchError(Catchers, IF Top.phase = "outside" THEN {"nested"} ELSE {})
      /\ discarding' = discarding /\ UNCHANGED task
  <2>1. discarding' = discarding
    BY Zenon DEF Fault, aside
  <2>2. /\ pc # "over" /\ Top.phase # "failing" /\ UNCHANGED task
        /\ CatchError(Catchers, IF Top.phase = "outside" THEN {"nested"} ELSE {})
    BY Zenon DEF Fault
  <2>3. QED
    BY <2>1, <2>2
<1>2. /\ Catchers \in {frames, Front(frames)}
      /\ Catchers = IF Top.phase = "inside" THEN frames ELSE Front(frames)
  BY DEF Catchers
<1> DEFINE fs == Catchers
<1>3. holes \subseteq holes'
        /\ (Top.phase = "outside" => holes' # {})
  BY <1>1 DEF CatchError
<1>4. CASE /\ Handling(fs, "handled") /\ pc' = "cleanup" /\ holes' # {}
           /\ UNCHANGED <<steps, want>>
  BY <1>1, <1>2, <1>4, CatchKeeps
<1>5. CASE /\ Last(fs).known \notin {"completed", "canceled"}
           /\ SetRow(Last(fs).step, "failed")
           /\ Handling(fs, "failing")
           /\ pc' = "read" /\ want' = "failed"
  <2>1. CASE fs = frames /\ ~Knows(Len(frames))
    <3>1. /\ Top.phase = "inside" /\ Last(fs) = Top
          /\ pc \in Untouched \cup {"acting"}
      <4>1. Top.phase = "inside"
        <5>1. Front(frames) # frames
          <6>1. Front(frames) # <<>> => Len(Front(frames)) = Len(frames) - 1
            BY Callers DEF Inv
          <6>2. Len(frames) \in Nat
            BY Shape DEF Inv, AttemptInv
          <6>3. QED
            BY <6>1, <6>2, TopKnows
        <5>2. QED
          BY <1>2, <2>1, <5>1
      <4>2. QED
        BY <1>1, <2>1, <4>1, TopKnows DEF Top
    <3>2. holes' = holes
      <4>1. CatchError(frames, {})
        BY <1>1, <2>1, <3>1
      <4>2. QED
        BY <1>5, <4>1 DEF CatchError
    <3>3. AttemptInv'
      BY <1>1, <1>5, <2>1, <3>1, <3>2, FailKeeps
    <3>4. QED
      BY <1>5, <3>1, <3>3
  <2>2. CASE fs = frames => Knows(Len(frames))
    <3>1. /\ Len(frames) \in Nat \ {0} /\ NextRow \in Nat \ {0} /\ Len(frames) <= NextRow
          /\ DOMAIN frames = 1 .. Len(frames) /\ DOMAIN steps = 1 .. NextRow
          /\ Top = frames[Len(frames)] /\ steps \in Seq(Rows)
          /\ \A i \in 1 .. Len(frames) : frames[i].step = i
      BY Shape DEF Inv, Good, AttemptInv, StackInv
    <3>2. /\ Len(fs) \in 1 .. Len(frames) /\ Last(fs) = frames[Len(fs)]
          /\ Knows(Len(fs))
      <4>1. CASE fs = frames
        BY <2>2, <3>1, <4>1 DEF Top
      <4>2. CASE fs # frames
        <5>1. fs = Front(frames)
          BY <1>2, <4>2
        <5>2. /\ Len(fs) = Len(frames) - 1 /\ Len(frames) - 1 \in Nat \ {0}
              /\ Last(fs) = frames[Len(frames) - 1]
          BY <5>1, Callers DEF Inv
        <5>3. Len(fs) \in 1 .. Len(frames) /\ Len(fs) < Len(frames)
          BY <3>1, <5>2
        <5>4. QED
          BY <3>1, <5>2, <5>3 DEF AttemptInv, CallInv
      <4>3. QED
        BY <4>1, <4>2
    <3>3. /\ Last(fs).step = Len(fs) /\ Len(fs) \in DOMAIN steps
          /\ steps[Len(fs)].status = "failed"
      BY <1>5, <3>1, <3>2 DEF Knows, Ended
    <3>4. steps' = steps
      BY <1>5, <3>1, <3>3, RowGets DEF StepStatuses
    <3>5. pc \notin Untouched \cup {"acting"}
      <4>1. SUFFICES ASSUME pc \in Untouched \cup {"acting"} PROVE FALSE
        OBVIOUS
      <4>2. Top.phase = "inside" /\ Top.known = "created"
        BY <4>1 DEF AttemptInv, CallInv
      <4>3. Knows(Len(frames))
        BY <1>2, <2>2, <4>2
      <4>4. QED
        BY <3>1, <4>2, <4>3 DEF Knows, Ended
    <3>6. pc \notin Waiting
      <4>1. SUFFICES ASSUME pc \in Waiting PROVE FALSE
        OBVIOUS
      <4>2. Top.known = "completed" /\ Top.phase = "inside"
        BY <4>1, TopKnows
      <4>3. Last(fs) = Top
        BY <1>2, <4>2 DEF Top
      <4>4. QED
        BY <1>5, <4>2, <4>3
    <3>7. holes' = {} => holes = {} /\ pc \notin Beginning
      <4>1. pc \in Beginning => Top.phase = "outside"
        BY DEF AttemptInv, CallInv
      <4>2. QED
        BY <1>3, <4>1
    <3>8. AttemptInv'
      BY <1>1, <1>2, <1>5, <3>4, <3>5, <3>6, <3>7, CatchKeeps
    <3>9. QED
      BY <3>4, <3>8
  <2>3. QED
    BY <2>1, <2>2
<1>6. QED
  BY <1>1, <1>4, <1>5 DEF CatchError, Settle

\* Handlers that find the task settled, or give up.
LEMMA HandlerKeeps ==
  ASSUME Inv, AttemptInv,
         \/ FailTaskRaises
         \/ WriteTask /\ Top.phase = "failing"
         \/ Refused /\ (Top.phase = "failing" \/ Catchers # <<>>)
  PROVE  AttemptInv' /\ steps' = steps
<1>1. pc \in {"read", "write"} /\ UNCHANGED steps
  BY DEF FailTaskRaises, WriteTask, Refused, CatchSettled
<1>2. discarding' <=> discarding
  <2>1. discarding' = discarding
    BY Zenon DEF FailTaskRaises, WriteTask, Refused, aside
  <2>2. QED
    BY <2>1
<1>3. pc \notin Beginning \cup Untouched \cup {"acting"} \cup Waiting
  BY <1>1 DEF Beginning, Untouched, Waiting
<1>4. frames # <<>>
  BY TopKnows
<1>5. holes' = {} => holes = {}
  BY DEF FailTaskRaises, WriteTask, Refused, CatchSettled
<1>6. CASE FailTaskRaises
  BY <1>1, <1>2, <1>3, <1>4, <1>5, <1>6, CatchKeeps DEF FailTaskRaises
<1>7. CASE WriteTask /\ Top.phase = "failing"
  <2>1. Handling(frames, "handled") /\ pc' = "cleanup"
    BY <1>7 DEF WriteTask, Handling
  <2>2. QED
    BY <1>1, <1>2, <1>3, <1>4, <1>5, <2>1, CatchKeeps
<1>8. CASE Refused /\ Top.phase = "failing"
  <2>1. Handling(frames, "handled") /\ pc' \in {"cleanup", "over"}
    BY <1>8 DEF Refused
  <2>2. QED
    BY <1>1, <1>2, <1>3, <1>4, <1>5, <2>1, CatchKeeps
<1>9. CASE Refused /\ Top.phase # "failing" /\ Catchers # <<>>
  <2>1. Handling(Catchers, "handled") /\ pc' = "cleanup"
    BY <1>9 DEF Refused, CatchSettled
  <2>2. Catchers \in {frames, Front(frames)}
    BY DEF Catchers
  <2>3. QED
    BY <1>1, <1>2, <1>3, <1>4, <1>5, <1>9, <2>1, <2>2, CatchKeeps
<1>10. QED
  BY <1>1, <1>6, <1>7, <1>8, <1>9

\* Steps that mark the row and the call of the innermost call.
Marking ==
    \/ Enter /\ run # "running"
    \/ Refresh /\ task = "canceled"
    \/ Prepare /\ mode = "goto"
    \/ Acted

\* All of them end the row.
LEMMA MarkingEnds ==
  ASSUME Inv, AttemptInv, Marking
  PROVE  /\ AttemptInv'
         /\ pc \in Working \ Closing
         /\ \E s \in Ended \cup {"canceled"} :
               /\ SetRow(Top.step, s)
               /\ s = "canceled" => steps[NextRow].status = "created"
<1>1. pc \in Working \ Closing
  BY DEF Marking, Enter, Refresh, Prepare, Acted, Working, Beginning, Untouched, Closing
<1>2. UNCHANGED <<task, discarding, holes>>
  <2>1. discarding' = discarding
    BY Zenon DEF Marking, Enter, Refresh, Prepare, Acted, aside
  <2>2. UNCHANGED <<task, holes>>
    BY DEF Marking, Enter, Refresh, Prepare, Acted
  <2>3. QED
    BY <2>1, <2>2
<1>3. CASE Enter /\ run # "running"
  <2>1. /\ MarkStep("canceled", "outside") /\ pc' = "read" /\ want' = run
        /\ pc \in Beginning
    BY <1>3 DEF Enter, Settle, Beginning
  <2>2. want' \notin {"completed", "terminated"}
    BY <2>1 DEF Inv, Scalars
  <2>3. steps[NextRow].status = "created"
    BY <2>1 DEF AttemptInv, CallInv
  <2>4. QED
    BY <1>1, <1>2, <2>1, <2>2, <2>3, MarkKeeps DEF Ended, MarkStep
<1>4. CASE Refresh /\ task = "canceled"
  <2>1. /\ MarkStep("canceled", "outside") /\ pc' = "cleanup" /\ want' = want
        /\ pc \in Beginning
    BY <1>4 DEF Refresh, Beginning
  <2>2. steps[NextRow].status = "created"
    BY <2>1 DEF AttemptInv, CallInv
  <2>3. QED
    BY <1>1, <1>2, <2>1, <2>2, MarkKeeps DEF Ended, MarkStep
<1>5. CASE Prepare /\ mode = "goto"
  <2>1. MarkStep("completed", "inside") /\ pc' = "read"
    BY <1>5 DEF Prepare, Settle
  <2>2. QED
    BY <1>1, <1>2, <2>1, MarkKeeps DEF Ended, MarkStep
<1>6. CASE Acted
  <2>1. /\ pc' = "acted"
        /\ \/ MarkStep("completed", "inside") /\ outcome' # "failed"
           \/ MarkStep("failed", "inside") /\ outcome' = "failed"
    BY <1>6 DEF Acted
  <2>2. QED
    BY <1>1, <1>2, <2>1, MarkKeeps DEF Ended, MarkStep
<1>7. QED
  BY <1>3, <1>4, <1>5, <1>6 DEF Marking

\* The row of the next attempt, or of the next step within the budget.
LEMMA JudgeKeeps ==
  ASSUME Inv, AttemptInv,
         \/ HandleFailed /\ pc' # "read"
         \/ Continue /\ pc' # "read"
  PROVE  /\ AttemptInv'
         /\ \E row \in Rows : /\ After(Current, row) /\ row.status = "created"
                              /\ steps' = Append(steps, row)
<1>1. UNCHANGED <<task, discarding, holes>> /\ pc = "judge"
  <2>1. discarding' = discarding
    BY Zenon DEF HandleFailed, Continue, aside
  <2>2. UNCHANGED <<task, holes>> /\ pc = "judge"
    BY DEF HandleFailed, Continue
  <2>3. QED
    BY <2>1, <2>2
<1>2. /\ Current \in Rows /\ Current.order < MaxSteps
      /\ outcome = "failed" => Current.status = "failed"
      /\ outcome = "progress" => Current.status = "completed"
  BY <1>1, Judged
<1>3. CASE HandleFailed /\ pc' # "read"
  <2> DEFINE row == RetryOf(Current)
  <2>1. /\ outcome = "failed" /\ Current.retry < MaxRetries
        /\ steps' = Append(steps, row) /\ Recurse(NextRow + 1)
    BY <1>3 DEF HandleFailed, Settle
  <2>2. row \in Rows /\ After(Current, row) /\ row.status = "created" /\ row.order < MaxSteps
    BY <1>2, <2>1, AgentLoopAssumption DEF RetryOf, Row, Rows, After, StepStatuses
  <2> HIDE DEF row
  <2>3. QED
    BY <1>1, <2>1, <2>2, NextKeeps
<1>4. CASE Continue /\ pc' # "read"
  <2> DEFINE row == NextOf(Current)
  <2>1. /\ outcome = "progress" /\ ~OutOfSteps(Current)
        /\ steps' = Append(steps, row) /\ Recurse(NextRow + 1)
    BY <1>4 DEF Continue, Settle
  <2>2. row \in Rows /\ After(Current, row) /\ row.status = "created" /\ row.order < MaxSteps
    BY <1>2, <2>1, AgentLoopAssumption DEF NextOf, Row, Rows, After, StepStatuses, OutOfSteps
  <2> HIDE DEF row
  <2>3. QED
    BY <1>1, <2>1, <2>2, NextKeeps
<1>5. QED
  BY <1>3, <1>4

\* What a step may do to the rows: nothing, one more row after the last, which
\* has ended, an attempt that begins or ends in the last row, or the end of a
\* row that was never worked on.
RowStep ==
    \/ steps' = steps
    \/ /\ pc \in Closing /\ task' = task
       /\ \E row \in Rows : /\ After(Current, row) /\ row.status = "created"
                            /\ steps' = Append(steps, row)
    \/ /\ pc \in Working \ Closing /\ task' = task
       /\ \/ SetRow(NextRow, "running") /\ steps[NextRow].status = "created"
          \/ \E s \in Ended : SetRow(NextRow, s)
    \/ /\ steps[NextRow].status = "created" /\ task' = task
       /\ SetRow(NextRow, "canceled")

\* The invariant is inductive, and a step of the loop is one of these.
LEMMA AttemptStep ==
  ASSUME Inv, AttemptInv, [Next]_vars
  PROVE  AttemptInv' /\ RowStep
<1>1. CASE Thinking
  BY <1>1, ThinkingKeeps, ThinkingStays DEF RowStep
<1>2. CASE Marking
  <2>1. task' = task
    BY <1>2 DEF Marking, Enter, Refresh, Prepare, Acted
  <2>2. pc \in Working \ Closing => Top.step = NextRow
    BY Shape DEF Inv, AttemptInv, PlaceInv
  <2>3. QED
    BY <1>2, <2>1, <2>2, MarkingEnds DEF RowStep
<1>3. CASE Act
  <2>1. /\ task' = task /\ SetRow(Top.step, "running")
        /\ pc = "act" /\ pc \in Untouched /\ pc \in Working \ Closing
    BY <1>3 DEF Act, Working, Closing, Untouched
  <2>2. Top.step = NextRow
    BY <2>1, Shape DEF Inv, AttemptInv, PlaceInv
  <2>3. steps[NextRow].status = "created"
    BY <2>1 DEF AttemptInv, CallInv
  <2>4. QED
    BY <1>3, <2>1, <2>2, <2>3, ActKeeps DEF RowStep
<1>4. CASE Refresh /\ task # "canceled"
  BY <1>4, BeginKeeps DEF RowStep, Refresh
<1>5. CASE Conclude
  BY <1>5, ConcludeKeeps DEF RowStep
<1>6. CASE \/ HandleFailed /\ pc' # "read"
           \/ Continue /\ pc' # "read"
  <2>1. pc \in Closing /\ task' = task
    BY <1>6 DEF HandleFailed, Continue, Closing
  <2>2. QED
    BY <1>6, <2>1, JudgeKeeps DEF RowStep
<1>7. CASE Verify
  <2> DEFINE row == NextOf(Current)
  <2>1. pc = "judge" /\ pc \in Closing /\ task' = task /\ steps' = Append(steps, row)
    BY <1>7 DEF Verify, Closing
  <2>2. row \in Rows /\ After(Current, row) /\ row.status = "created"
    BY <1>7, <2>1, Judged DEF Verify, NextOf, Row, Rows, After, StepStatuses
  <2> HIDE DEF row
  <2>3. QED
    BY <1>7, <2>1, <2>2, VerifyKeeps DEF RowStep
<1>8. CASE TakePlan /\ pc' # "exhausted"
  BY <1>8, TakeKeeps DEF RowStep
<1>9. CASE Exhaust \/ Discard
  <2>1. task' = task
    BY <1>9 DEF Exhaust, Discard
  <2>2. QED
    BY <1>9, <2>1, CancelKeeps DEF RowStep
<1>10. CASE Fault /\ Catchers # <<>>
  <2>1. task' = task
    BY <1>10 DEF Fault
  <2>2. pc \in Untouched \cup {"acting"} => pc \in Working \ Closing
    BY DEF Working, Untouched, Closing
  <2>3. pc \in Working => Top.step = NextRow
    BY Shape DEF Inv, AttemptInv, PlaceInv
  <2>4. QED
    BY <1>10, <2>1, <2>2, <2>3, FaultKeeps DEF RowStep, Ended
<1>11. CASE \/ FailTaskRaises
            \/ WriteTask /\ Top.phase = "failing"
            \/ Refused /\ (Top.phase = "failing" \/ Catchers # <<>>)
  BY <1>11, HandlerKeeps DEF RowStep
<1>12. CASE UNCHANGED vars
  <2>1. UNCHANGED <<steps, frames, pc, task, want, outcome, holes>>
        /\ Top' = Top /\ NextRow' = NextRow
    BY <1>12 DEF vars, loop, Top, NextRow
  <2>2. discarding' <=> discarding
    <3>1. discarding' = discarding
      BY <1>12, Zenon DEF vars, loop
    <3>2. QED
      BY <3>1
  <2>3. \A i : Knows(i)' <=> Knows(i)
    BY <2>1 DEF Knows
  <2>4. StrayInv' /\ CoroutineInv'
    BY <2>1, <2>2, Zenon DEF AttemptInv, StrayInv, CoroutineInv
  <2>5. StackInv' /\ PlaceInv' /\ ChainInv' /\ TaskInv'
    BY <2>1 DEF AttemptInv, StackInv, PlaceInv, ChainInv, TaskInv, After
  <2>6. CallInv'
    BY <2>1, <2>3 DEF AttemptInv, CallInv
  <2>7. QED
    BY <2>1, <2>4, <2>5, <2>6 DEF AttemptInv, RowStep
<1>13. QED
  <2>1. CASE Progress
    <3>1. Enter => Thinking \/ Marking
      BY DEF Thinking, Marking
    <3>2. Refresh => Marking \/ (Refresh /\ task # "canceled")
      BY DEF Marking
    <3>3. Prepare \/ Acted => Thinking \/ Marking
      BY DEF Thinking, Marking
    <3>4. Download \/ Decided \/ Launch \/ Verified \/ NotVerified \/ ReadTask \/ CleanUp
             => Thinking
      BY Zenon DEF Thinking
    <3>5. HandleFailed /\ pc' = "read" => Thinking
      BY Zenon DEF Thinking
    <3>6. Continue /\ pc' = "read" => Thinking
      BY Zenon DEF Thinking
    <3>7. TakePlan /\ pc' = "exhausted" => Thinking
      BY Zenon DEF Thinking
    <3>8. WriteTask /\ Top.phase # "failing" => Thinking
      BY Zenon DEF Thinking
    <3>9. Refused /\ Top.phase # "failing" /\ Catchers = <<>> => Thinking
      BY Zenon DEF Thinking
    <3>10. QED
      BY <1>1, <1>2, <1>3, <1>4, <1>5, <1>6, <1>7, <1>8, <1>9, <1>11, <2>1,
         <3>1, <3>2, <3>3, <3>4, <3>5, <3>6, <3>7, <3>8, <3>9 DEF Progress
  <2>2. CASE Fault
    BY <1>1, <1>10, <2>2 DEF Thinking
  <2>3. CASE Speculate \/ CancelRead \/ CancelWrite \/ RunEnds
    BY <1>1, <2>3 DEF Thinking
  <2>4. CASE Interrupted \/ WorkerDies
    BY <2>4, StopKeeps DEF RowStep
  <2>5. QED
    BY <1>9, <1>11, <1>12, <2>1, <2>2, <2>3, <2>4 DEF Next

\* The first row waits for its call.
LEMMA AttemptInit == Init => AttemptInv
<1> SUFFICES ASSUME Init PROVE AttemptInv
  OBVIOUS
<1> DEFINE r == Row(0, 0)
<1> DEFINE f == Frame(1)
<1>1. /\ steps = <<r>> /\ frames = <<f>> /\ pc = "enter" /\ task = "running"
      /\ r.status = "created" /\ r.order = 0 /\ r.retry = 0
      /\ f.step = 1 /\ f.phase = "outside"
  BY DEF Init, Row, Frame
<1> HIDE DEF r, f
<1>2. /\ Len(frames) = 1 /\ DOMAIN frames = {1} /\ frames[1] = f /\ Top = f
      /\ NextRow = 1 /\ DOMAIN steps = {1} /\ steps[1] = r
  BY <1>1 DEF Top, Last, NextRow
<1>3. ~discarding
  BY Zenon DEF Init
<1>4. StrayInv /\ StackInv /\ TaskInv
  BY <1>1, <1>2 DEF StrayInv, StackInv, TaskInv, Beginning
<1>5. PlaceInv /\ CoroutineInv
  BY <1>1, <1>2, <1>3 DEF PlaceInv, CoroutineInv, Beside, Waiting
<1>6. CallInv
  BY <1>1, <1>2 DEF CallInv, Beginning, Untouched, Closing, Beside, Waiting, Ending
<1>7. ChainInv
  BY <1>1, <1>2, AgentLoopAssumption DEF ChainInv
<1>8. QED
  BY <1>4, <1>5, <1>6, <1>7 DEF AttemptInv

\* Rows and calls keep their shape in every state.
THEOREM AttemptInvariant == Spec => [](Inv /\ AttemptInv)
<1>1. Init => AttemptInv
  BY AttemptInit
<1>2. Inv /\ AttemptInv /\ [Next]_vars => AttemptInv'
  BY AttemptStep
<1>3. QED
  BY <1>1, <1>2, Invariant, PTL DEF Spec

\* An orderly loop leaves no step open, however many attempts it took and
\* whatever raced it: the step created beside the verification was worked on,
\* or canceled by the loop or by the coroutine it left behind.
THEOREM NothingStrays == Spec => []NoStrayStep
<1>1. Inv /\ AttemptInv => NoStrayStep
  <2> SUFFICES ASSUME AttemptInv, pc = "over", ~discarding, holes = {}
               PROVE  \A i \in DOMAIN steps : steps[i].status \notin {"created", "running"}
    BY DEF NoStrayStep, Over
  <2>1. pc \notin Beginning \cup Untouched \cup {"acting"} \cup Waiting
    BY DEF Beginning, Untouched, Waiting
  <2>2. QED
    BY <2>1, Zenon DEF AttemptInv, StrayInv
<1>2. QED
  BY <1>1, AttemptInvariant, PTL

(***************************************************************************)
(* The attempts.                                                           *)
(***************************************************************************)

Begun(row) == row.status \notin {"created", "canceled"}

AttemptOf(row) == [order |-> row.order, retry |-> row.retry, result |-> row.status]

NoAttempt == [order |-> 0, retry |-> 0, result |-> "none"]

\* Every row but the last has been worked on.
Dense ==
    /\ NextRow \in Nat \ {0} /\ DOMAIN steps = 1 .. NextRow
    /\ \A i \in DOMAIN steps : i < NextRow => Begun(steps[i])

LastAttempt ==
    IF Begun(steps[NextRow]) THEN AttemptOf(steps[NextRow])
    ELSE IF NextRow > 1 THEN AttemptOf(steps[NextRow - 1])
    ELSE NoAttempt

\* The latest attempt is the last row, or the one before while nobody has
\* worked on the last one.
LEMMA LatestIs == Dense => LatestAttempt = LastAttempt
<1> SUFFICES ASSUME NextRow \in Nat \ {0}, DOMAIN steps = 1 .. NextRow,
                    \A i \in DOMAIN steps : i < NextRow => Begun(steps[i])
             PROVE  LatestAttempt = LastAttempt
  BY DEF Dense
<1>1. \A i : i \in Attempts <=> i \in 1 .. NextRow /\ Begun(steps[i])
  BY DEF Attempts, Begun
<1>2. ASSUME NEW m \in Attempts, \A i \in Attempts : i <= m
      PROVE  LatestAttempt = AttemptOf(steps[m])
  <2>1. m = CHOOSE i \in Attempts : \A j \in Attempts : j <= i
    <3>1. \A i \in Attempts : i \in Nat
      BY <1>1
    <3>2. \A i \in Attempts : (\A j \in Attempts : j <= i) => i = m
      BY <1>2, <3>1
    <3>3. QED
      BY <1>2, <3>2
  <2>2. Attempts # {}
    BY <1>2
  <2>3. LatestAttempt = LET row == steps[m]
                        IN  [order |-> row.order, retry |-> row.retry, result |-> row.status]
    BY <2>1, <2>2, Zenon DEF LatestAttempt
  <2>4. QED
    BY <2>3 DEF AttemptOf
<1>3. CASE Begun(steps[NextRow])
  <2>1. NextRow \in Attempts /\ \A i \in Attempts : i <= NextRow
    BY <1>1, <1>3
  <2>2. QED
    BY <1>2, <1>3, <2>1 DEF LastAttempt
<1>4. CASE ~Begun(steps[NextRow]) /\ NextRow > 1
  <2>1. NextRow - 1 \in 1 .. NextRow /\ NextRow - 1 < NextRow
    BY <1>4
  <2>2. NextRow - 1 \in Attempts
    BY <1>1, <2>1
  <2>3. ASSUME NEW i \in Attempts
        PROVE  i <= NextRow - 1
    <3>1. i \in 1 .. NextRow /\ i # NextRow
      BY <1>1, <1>4
    <3>2. QED
      BY <3>1
  <2>4. QED
    BY <1>2, <1>4, <2>2, <2>3 DEF LastAttempt
<1>5. CASE ~Begun(steps[NextRow]) /\ ~(NextRow > 1)
  <2>1. NextRow = 1
    BY <1>5
  <2>2. Attempts = {}
    BY <1>1, <1>5, <2>1
  <2>3. QED
    BY <1>5, <2>2 DEF LatestAttempt, NoAttempt, LastAttempt
<1>6. QED
  BY <1>3, <1>4, <1>5

\* The rows before the last have been worked on.
LEMMA EarlierBegun ==
  ASSUME Inv, AttemptInv
  PROVE  /\ Dense
         /\ NextRow \in Nat \ {0} /\ DOMAIN steps = 1 .. NextRow /\ steps \in Seq(Rows)
         /\ \A i \in 1 .. NextRow : steps[i] \in Rows
         /\ \A i \in DOMAIN steps : i < NextRow => steps[i].status \in Ended
<1>1. /\ NextRow \in Nat \ {0} /\ DOMAIN steps = 1 .. NextRow /\ steps \in Seq(Rows)
      /\ \A i \in 1 .. NextRow : steps[i] \in Rows
  BY Shape DEF Inv, Good, AttemptInv
<1>2. \A i \in DOMAIN steps : i < NextRow => steps[i].status \in Ended
  BY DEF AttemptInv, ChainInv, After, Ended
<1>3. QED
  BY <1>1, <1>2 DEF Begun, Ended, Dense

\* The last row gets a status: nothing that happened before changes.
LEMMA LastGets ==
  ASSUME Inv, AttemptInv, NEW s \in StepStatuses, SetRow(NextRow, s)
  PROVE  /\ steps'[NextRow].order = steps[NextRow].order
         /\ steps'[NextRow].retry = steps[NextRow].retry
         /\ steps'[NextRow].status = s
         /\ NextRow > 1 => steps'[NextRow - 1] = steps[NextRow - 1]
         /\ LatestAttempt' = IF Begun(steps'[NextRow]) THEN AttemptOf(steps'[NextRow])
                             ELSE IF NextRow > 1 THEN AttemptOf(steps[NextRow - 1])
                             ELSE NoAttempt
<1>1. /\ NextRow \in Nat \ {0} /\ DOMAIN steps = 1 .. NextRow /\ steps \in Seq(Rows)
      /\ Dense
  BY EarlierBegun
<1>2. NextRow \in DOMAIN steps
  BY <1>1
<1>3. /\ NextRow' = NextRow /\ DOMAIN steps' = DOMAIN steps
      /\ steps'[NextRow].status = s
      /\ \A j \in DOMAIN steps :
            /\ j # NextRow => steps'[j] = steps[j]
            /\ steps'[j].order = steps[j].order /\ steps'[j].retry = steps[j].retry
  BY <1>1, <1>2, RowGets
<1>4. LatestAttempt' = LastAttempt'
  <2>1. Dense'
    BY <1>1, <1>3 DEF Dense, Begun
  <2>2. (Dense => LatestAttempt = LastAttempt)'
    BY LatestIs, PTL
  <2>3. QED
    BY <2>1, <2>2
<1>5. NextRow > 1 => NextRow - 1 \in DOMAIN steps /\ NextRow - 1 # NextRow
  BY <1>1
<1>6. NextRow > 1 => steps'[NextRow - 1] = steps[NextRow - 1]
  BY <1>3, <1>5
<1>7. QED
  BY <1>2, <1>3, <1>4, <1>6 DEF LastAttempt, Begun, AttemptOf

\* One more row is not an attempt yet.
LEMMA LatestStays ==
  ASSUME Inv, AttemptInv, pc \in Closing, NEW row \in Rows,
         After(Current, row), row.status = "created", steps' = Append(steps, row)
  PROVE  LatestAttempt' = LatestAttempt
<1>1. /\ NextRow \in Nat \ {0} /\ DOMAIN steps = 1 .. NextRow /\ Dense
  BY EarlierBegun
<1>2. /\ NextRow' = NextRow + 1 /\ DOMAIN steps' = 1 .. NextRow + 1
      /\ \A i \in 1 .. NextRow : steps'[i] = steps[i]
      /\ steps'[NextRow + 1] = row
      /\ steps[NextRow].status \in Ended
  BY RowFollows
<1>3. Begun(steps[NextRow]) /\ ~Begun(row)
  BY <1>2 DEF Begun, Ended
<1>4. Dense'
  <2>1. ASSUME NEW i \in 1 .. NextRow + 1, i < NextRow + 1
        PROVE  Begun(steps'[i])
    <3>1. i \in 1 .. NextRow
      BY <1>1, <2>1
    <3>2. steps'[i] = steps[i] /\ (i = NextRow \/ i < NextRow)
      BY <1>1, <1>2, <3>1
    <3>3. QED
      BY <1>1, <1>3, <3>1, <3>2 DEF Dense
  <2>2. QED
    BY <1>1, <1>2, <2>1 DEF Dense
<1>5. (Dense => LatestAttempt = LastAttempt)'
  BY LatestIs, PTL
<1>6. LatestAttempt = AttemptOf(steps[NextRow])
  BY <1>1, <1>3, LatestIs DEF LastAttempt
<1>7. LatestAttempt' = AttemptOf(steps[NextRow])
  <2>1. ~Begun(steps'[NextRow']) /\ NextRow' > 1 /\ NextRow' - 1 = NextRow
    BY <1>1, <1>2, <1>3
  <2>2. steps'[NextRow' - 1] = steps[NextRow]
    BY <1>1, <1>2, <2>1
  <2>3. LastAttempt' = AttemptOf(steps'[NextRow' - 1])
    BY <2>1 DEF LastAttempt, Begun, AttemptOf
  <2>4. QED
    BY <1>4, <1>5, <2>2, <2>3
<1>8. QED
  BY <1>6, <1>7

\* An attempt begins where the last one allows it, or the one under way ends.
LEMMA MarkImplements ==
  ASSUME Inv, AttemptInv, pc \in Working \ Closing, task' = task,
         NEW s \in Ended \cup {"running"}, SetRow(NextRow, s),
         s = "running" => steps[NextRow].status = "created"
  PROVE  [Contract!Next]_(Contract!vars)
<1> DEFINE row == steps[NextRow]
<1> DEFINE a == LatestAttempt
<1>1. /\ NextRow \in Nat \ {0} /\ DOMAIN steps = 1 .. NextRow
      /\ \A i \in 1 .. NextRow : steps[i] \in Rows
      /\ \A i \in DOMAIN steps : i < NextRow => steps[i].status \in Ended
      /\ a = LastAttempt
  BY EarlierBegun, LatestIs
<1>2. LatestAttempt' = [order |-> row.order, retry |-> row.retry, result |-> s]
  <2>1. s \in StepStatuses /\ s \notin {"created", "canceled"}
    BY DEF Ended, StepStatuses
  <2>2. QED
    BY <2>1, LastGets DEF Begun, AttemptOf
<1>3. row \in Rows /\ row.order < MaxSteps /\ pc \notin Ending
      /\ row.status \in {"created", "running"}
  <2>1. Len(frames) = NextRow
    BY DEF AttemptInv, PlaceInv
  <2>2. pc \in Beginning \cup Untouched \cup {"acting"} /\ pc \notin Ending
    BY DEF Working, Beginning, Untouched, Closing, Ending
  <2>3. QED
    BY <1>1, <2>1, <2>2 DEF AttemptInv, ChainInv, CallInv
<1>4. task \in {"running", "canceled"}
  BY <1>3 DEF AttemptInv, TaskInv
<1>5. CASE row.status = "running"
  <2>1. a = [order |-> row.order, retry |-> row.retry, result |-> "running"]
    BY <1>1, <1>5 DEF LastAttempt, Begun, AttemptOf
  <2>2. s \in {"completed", "failed"} /\ LatestAttempt' = [a EXCEPT !.result = s]
    BY <1>2, <1>5, <2>1 DEF Ended
  <2>3. Contract!End
    BY <2>1, <2>2 DEF Contract!End
  <2>4. QED
    BY <2>3 DEF Contract!Next
<1>6. CASE row.status = "created"
  <2>1. /\ Contract!Follows(row.order, row.retry, a)
        /\ row.order \in {a.order, a.order + 1} /\ row.retry \in {0, a.retry + 1}
    <3>1. CASE NextRow > 1
      <4>1. NextRow - 1 \in DOMAIN steps /\ NextRow - 1 < NextRow /\ (NextRow - 1) + 1 = NextRow
        BY <1>1, <3>1
      <4> DEFINE last == steps[NextRow - 1]
      <4>2. After(last, row)
        BY <4>1 DEF AttemptInv, ChainInv
      <4>3. a.order = last.order /\ a.retry = last.retry /\ a.result = last.status
        BY <1>1, <1>6, <3>1 DEF LastAttempt, Begun, AttemptOf
      <4>4. QED
        BY <1>3, <4>2, <4>3 DEF After, Contract!Follows
    <3>2. CASE ~(NextRow > 1)
      <4>1. NextRow = 1
        BY <1>1, <3>2
      <4>2. row.order = 0 /\ row.retry = 0
        BY <4>1 DEF AttemptInv, ChainInv
      <4>3. a = NoAttempt
        BY <1>1, <1>6, <3>2 DEF LastAttempt, Begun
      <4>4. QED
        BY <4>2, <4>3 DEF NoAttempt, Contract!Follows
    <3>3. QED
      BY <3>1, <3>2
  <2>2. s \in {"running", "completed", "failed"}
    BY DEF Ended
  <2>3. Contract!Begin
    BY <1>2, <1>4, <2>1, <2>2 DEF Contract!Begin
  <2>4. QED
    BY <2>3 DEF Contract!Next
<1>7. QED
  BY <1>3, <1>5, <1>6

\* A row that was never worked on and is canceled was no attempt.
LEMMA CancelImplements ==
  ASSUME Inv, AttemptInv, steps[NextRow].status = "created", SetRow(NextRow, "canceled")
  PROVE  LatestAttempt' = LatestAttempt
<1>1. Dense /\ LatestAttempt = LastAttempt
  BY EarlierBegun, LatestIs
<1>2. LatestAttempt' = IF NextRow > 1 THEN AttemptOf(steps[NextRow - 1]) ELSE NoAttempt
  BY LastGets DEF Begun, StepStatuses
<1>3. QED
  BY <1>1, <1>2 DEF LastAttempt, Begun

\* The task is settled, by a cancel or by the loop: completed or terminated only
\* after an attempt that has ended.
LEMMA SettleImplements ==
  ASSUME Inv, AttemptInv, [Next]_vars, steps' = steps, task' # task
  PROVE  Contract!Settle
<1>1. LatestAttempt' = LatestAttempt
  BY DEF LatestAttempt, Attempts
<1>2. \/ task' = "canceled"
      \/ pc = "write" /\ task' = want
  BY DEF Next, Progress, Enter, Refresh, Prepare, Act, Acted, Download, HandleFailed,
     Decided, Continue, Verify, Launch, Verified, Conclude, NotVerified, TakePlan,
     Exhaust, ReadTask, Refused, WriteTask, CleanUp, Fault, FailTaskRaises,
     Interrupted, WorkerDies, Stop, Speculate, Discard, CancelRead, CancelWrite, RunEnds, vars
<1>3. CASE task' = "canceled"
  BY <1>1, <1>3 DEF Contract!Settle
<1>4. CASE pc = "write" /\ task' = want
  <2>1. want \in Final
    BY <1>4 DEF Inv, SettleInv
  <2>2. want \in {"completed", "terminated"} => LatestAttempt.result \in {"completed", "failed"}
    <3>1. SUFFICES ASSUME want \in {"completed", "terminated"}
                   PROVE  LatestAttempt.result \in {"completed", "failed"}
      OBVIOUS
    <3>2. /\ NextRow \in Nat \ {0} /\ DOMAIN steps = 1 .. NextRow
          /\ \A i \in 1 .. NextRow : steps[i] \in Rows
          /\ \A i \in DOMAIN steps : i < NextRow => steps[i].status \in Ended
          /\ LatestAttempt = LastAttempt
      BY EarlierBegun, LatestIs
    <3>3. /\ NextRow > 1 \/ steps[NextRow].status \in Ended
          /\ steps[NextRow].status # "running"
      BY <1>4, <3>1 DEF AttemptInv, TaskInv, CallInv, Ending
    <3>4. CASE Begun(steps[NextRow])
      <4>1. steps[NextRow] \in Rows
        BY <3>2
      <4>2. steps[NextRow].status \in Ended
        BY <3>3, <3>4, <4>1 DEF Begun, Ended, Rows, StepStatuses
      <4>3. QED
        BY <3>2, <3>4, <4>2 DEF LastAttempt, AttemptOf, Ended
    <3>5. CASE ~Begun(steps[NextRow])
      <4>1. NextRow > 1
        BY <3>3, <3>5 DEF Begun, Ended
      <4>2. NextRow - 1 \in DOMAIN steps /\ NextRow - 1 < NextRow
        BY <3>2, <4>1
      <4>3. QED
        BY <3>2, <3>5, <4>1, <4>2 DEF LastAttempt, AttemptOf, Ended
    <3>6. QED
      BY <3>4, <3>5
  <2>3. QED
    BY <1>1, <1>4, <2>1, <2>2 DEF Contract!Settle, Final
<1>5. QED
  BY <1>2, <1>3, <1>4

\* Every step of the loop, of what runs beside it and of its handlers is a step
\* of the contract or invisible to it.
LEMMA ContractStep ==
  ASSUME Inv, AttemptInv, [Next]_vars
  PROVE  [Contract!Next]_(Contract!vars)
<1>1. RowStep
  BY AttemptStep
<1>2. CASE steps' = steps
  <2>1. CASE task' = task
    BY <1>2, <2>1 DEF Contract!vars, LatestAttempt, Attempts
  <2>2. CASE task' # task
    BY <1>2, <2>2, SettleImplements DEF Contract!Next
  <2>3. QED
    BY <2>1, <2>2
<1>3. CASE /\ pc \in Closing /\ task' = task
           /\ \E row \in Rows : /\ After(Current, row) /\ row.status = "created"
                                /\ steps' = Append(steps, row)
  BY <1>3, LatestStays DEF Contract!vars
<1>4. CASE /\ pc \in Working \ Closing /\ task' = task
           /\ \/ SetRow(NextRow, "running") /\ steps[NextRow].status = "created"
              \/ \E s \in Ended : SetRow(NextRow, s)
  <2>1. \A s \in Ended : s # "running"
    BY DEF Ended
  <2>2. QED
    BY <1>4, <2>1, MarkImplements
<1>5. CASE /\ steps[NextRow].status = "created" /\ task' = task
           /\ SetRow(NextRow, "canceled")
  BY <1>5, CancelImplements DEF Contract!vars
<1>6. QED
  BY <1>1, <1>2, <1>3, <1>4, <1>5 DEF RowStep

\* Nothing has been attempted at first.
LEMMA ContractInit == Init => Contract!Init
<1> SUFFICES ASSUME Init PROVE Contract!Init
  OBVIOUS
<1>1. task = "running" /\ steps = <<Row(0, 0)>> /\ Row(0, 0).status = "created"
  BY DEF Init, Row
<1> DEFINE r == Row(0, 0)
<1> HIDE DEF r
<1>2. Attempts = {}
  <2>1. steps = <<r>> /\ r.status = "created"
    BY <1>1 DEF r
  <2>2. QED
    BY <2>1 DEF Attempts
<1>3. QED
  BY <1>1, <1>2 DEF LatestAttempt, Contract!Init

\* The steps that are worked on are a legal sequence of attempts within the
\* budgets, whatever is retried, verified, speculated on, canceled or raised;
\* none begins once the loop has settled the task, and the task is reported
\* completed or terminated only after an attempt that has ended.
THEOREM AttemptsImplemented == Spec => ImplementsAttempts
<1>1. Inv /\ AttemptInv /\ [Next]_vars => [Contract!Next]_(Contract!vars)
  BY ContractStep
<1>2. QED
  BY <1>1, ContractInit, AttemptInvariant, PTL DEF Spec, ImplementsAttempts, Contract!Spec

===============================================================================
