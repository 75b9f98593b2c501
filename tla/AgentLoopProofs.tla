----------------------------- MODULE AgentLoopProofs -----------------------------
(***************************************************************************)
(* Theorems about AgentLoop for any kind of task and any budget of steps   *)
(* and retries: its types, and that a loop that is over has settled its    *)
(* task, unless an exception escaped its handlers through one of the three *)
(* holes that lose the task, or the loop was interrupted.                  *)
(***************************************************************************)
EXTENDS AgentLoop, TLAPS

(***************************************************************************)
(* Sequences of rows and of open calls.                                    *)
(***************************************************************************)

Rows == [order : Nat, retry : Nat, status : StepStatuses]
Calls == [step : Nat, known : StepStatuses, phase : Phases]

\* Open calls: at least one, each with a row of its own.
Open(fs) == fs \in Seq(Calls) /\ fs # <<>> /\ \A i \in DOMAIN fs : fs[i].step \in DOMAIN steps

\* The innermost of some open calls.
LEMMA LastType ==
  ASSUME NEW fs \in Seq(Calls), fs # <<>>
  PROVE  Len(fs) \in DOMAIN fs /\ Last(fs) = fs[Len(fs)] /\ Last(fs) \in Calls
  BY DEF Last

\* Without the innermost call the others stay open.
LEMMA FrontType ==
  ASSUME Open(frames), Front(frames) # <<>>
  PROVE  Open(Front(frames))
<1>1. Front(frames) = SubSeq(frames, 1, Len(frames) - 1) /\ Len(frames) \in Nat \ {0}
  BY DEF Open, Front
<1>2. Len(Front(frames)) = Len(frames) - 1 /\ Front(frames) \in Seq(Calls)
      /\ \A i \in 1 .. Len(frames) - 1 : Front(frames)[i] = frames[i]
  BY <1>1 DEF Open
<1>3. QED
  BY <1>1, <1>2 DEF Open

\* The innermost call changes its phase.
LEMMA PhaseType ==
  ASSUME Open(frames), NEW fs, Open(fs), NEW ph \in Phases
  PROVE  LET gs == [fs EXCEPT ![Len(fs)].phase = ph]
         IN  Open(gs) /\ Last(gs).phase = ph /\ Len(gs) = Len(fs)
<1>1. Len(fs) \in DOMAIN fs /\ fs[Len(fs)] \in Calls
  BY LastType DEF Open
<1> DEFINE f == [fs[Len(fs)] EXCEPT !.phase = ph]
<1> DEFINE gs == [fs EXCEPT ![Len(fs)] = f]
<1>2. f \in Calls /\ f.phase = ph /\ f.step = fs[Len(fs)].step
  BY <1>1 DEF Calls
<1>3. gs \in Seq(Calls) /\ Len(gs) = Len(fs) /\ DOMAIN gs = DOMAIN fs
      /\ gs[Len(gs)] = f /\ \A i \in DOMAIN fs : i # Len(fs) => gs[i] = fs[i]
  <2> HIDE DEF f
  <2> QED BY <1>1, <1>2 DEF Open
<1>4. QED
  BY <1>2, <1>3 DEF Open, Last

\* The innermost call goes on.
LEMMA InTopType ==
  ASSUME Open(frames), NEW s \in StepStatuses, NEW ph \in Phases, InTop(s, ph),
         DOMAIN steps' = DOMAIN steps
  PROVE  Open(frames)' /\ Top'.phase = ph
<1>1. Len(frames) \in DOMAIN frames /\ frames[Len(frames)] \in Calls
  BY LastType DEF Open
<1> DEFINE f == [frames[Len(frames)] EXCEPT !.known = s, !.phase = ph]
<1>2. f \in Calls /\ f.phase = ph /\ f.step = frames[Len(frames)].step
  BY <1>1 DEF Calls
<1>3. frames' = [frames EXCEPT ![Len(frames)] = f]
  BY <1>1 DEF InTop, Open, Calls
<1>4. frames' \in Seq(Calls) /\ Len(frames') = Len(frames) /\ DOMAIN frames' = DOMAIN frames
      /\ frames'[Len(frames')] = f
      /\ \A i \in DOMAIN frames : i # Len(frames) => frames'[i] = frames[i]
  <2> HIDE DEF f
  <2> QED BY <1>1, <1>2, <1>3 DEF Open
<1>5. \A i \in DOMAIN frames' : frames'[i].step \in DOMAIN steps'
  BY <1>1, <1>2, <1>4 DEF Open
<1>6. frames' # <<>> /\ Top' = f
  BY <1>1, <1>4 DEF Last, Top, Open
<1> HIDE DEF f
<1> QED BY <1>2, <1>4, <1>5, <1>6 DEF Open

\* A row gets a status.
LEMMA SetRowType ==
  ASSUME steps \in Seq(Rows), NEW i, NEW s \in StepStatuses, SetRow(i, s)
  PROVE  steps' \in Seq(Rows) /\ DOMAIN steps' = DOMAIN steps
<1>1. CASE i \in DOMAIN steps
  <2> DEFINE r == [steps[i] EXCEPT !.status = s]
  <2>0. steps[i] \in Rows
    BY <1>1
  <2>1. r \in Rows
    BY <2>0 DEF Rows
  <2>2. steps' = [steps EXCEPT ![i] = r]
    BY DEF SetRow
  <2> HIDE DEF r
  <2> QED BY <1>1, <2>1, <2>2
<1>2. CASE i \notin DOMAIN steps
  <2>1. steps' = steps
    BY <1>2 DEF SetRow
  <2> QED BY <2>1
<1> QED BY <1>1, <1>2

\* A row is added.
LEMMA AppendType ==
  ASSUME steps \in Seq(Rows), NEW row \in Rows, steps' = Append(steps, row)
  PROVE  steps' \in Seq(Rows) /\ DOMAIN steps \subseteq DOMAIN steps'
         /\ NextRow + 1 \in DOMAIN steps'
  BY DEF NextRow

\* execute_step calls itself.
LEMMA RecurseType ==
  ASSUME Open(frames), steps' \in Seq(Rows), DOMAIN steps \subseteq DOMAIN steps',
         NEW i \in DOMAIN steps', Recurse(i)
  PROVE  Open(frames)' /\ Top'.phase = "outside"
<1>1. Frame(i) \in Calls /\ Frame(i).step = i /\ Frame(i).phase = "outside"
  BY DEF Frame, Calls, StepStatuses, Phases
<1>2. frames' = Append(frames, Frame(i)) /\ frames \in Seq(Calls)
  BY DEF Recurse, Open
<1> DEFINE f == Frame(i)
<1> HIDE DEF f
<1>3. frames' \in Seq(Calls) /\ Len(frames') = Len(frames) + 1 /\ frames'[Len(frames')] = f
      /\ \A j \in DOMAIN frames' : (j \in DOMAIN frames /\ frames'[j] = frames[j]) \/ frames'[j] = f
  <2>1. frames' = Append(frames, f) /\ f \in Calls
    BY <1>1, <1>2 DEF f
  <2> QED BY <1>2, <2>1
<1>4. f.step \in DOMAIN steps' /\ f.phase = "outside"
  BY <1>1 DEF f
<1> QED BY <1>3, <1>4 DEF Open, Last, Top

(***************************************************************************)
(* The invariant.                                                          *)
(***************************************************************************)

Good == steps \in Seq(Rows) /\ Open(frames)

Scalars ==
    /\ mode \in Modes
    /\ task \in Final \cup {"running"}
    /\ run \in {"running", "canceled", "timed_out"}
    /\ pc \in PCs
    /\ outcome \in Outcomes
    /\ want \in Statuses
    /\ speculation \in {"none", "working", "plan", "nothing"}
    /\ canceler \in {"idle", "read", "done"}

Escaped == holes \cap {"late", "failing", "outside", "interrupted"} # {}

\* What update_task is asked to write settles the task, and so has every call
\* that is over or went through its handlers, unless the exception escaped.
SettleInv ==
    /\ pc \in {"read", "write"} => want \in Final
    /\ ~Escaped => (pc \in {"cleanup", "over"} \/ Top.phase = "handled" => task \in Final)

Inv == Good /\ Scalars /\ discarding \in BOOLEAN /\ holes \subseteq Holes /\ SettleInv

\* A task that runs may be settled with any status; one that refuses a status
\* is settled.
LEMMA RefusedIsFinal ==
  ASSUME Scalars, want \in Final, ~CanUpdateTo(task, want)
  PROVE  task \in Final
  BY DEF Scalars, CanUpdateTo, Successors, Statuses, Final

LEMMA InitInv == Init => Inv
<1> SUFFICES ASSUME Init PROVE Inv
  OBVIOUS
<1>1. Row(0, 0) \in Rows /\ Frame(1) \in Calls /\ Frame(1).step = 1
      /\ Frame(1).phase = "outside"
  BY DEF Row, Rows, Frame, Calls, StepStatuses, Phases
<1> DEFINE r == Row(0, 0)
<1> DEFINE f == Frame(1)
<1>2. r \in Rows /\ f \in Calls /\ f.step = 1 /\ f.phase = "outside"
      /\ steps = <<r>> /\ frames = <<f>>
  BY <1>1 DEF Init
<1> HIDE DEF r, f
<1>3. Good /\ Top = f
  BY <1>2 DEF Good, Open, Top, Last
<1>4. Scalars /\ pc = "enter"
  BY DEF Init, Scalars, Final, PCs, Outcomes, Statuses, Holes
<1>5. discarding \in BOOLEAN
  BY DEF Init
<1>6. SettleInv
  BY <1>2, <1>3, <1>4 DEF SettleInv
<1>7. holes \subseteq Holes
  BY DEF Init
<1> QED BY <1>3, <1>4, <1>5, <1>6, <1>7 DEF Inv

\* A call begins, or the workflow run has ended.
LEMMA EnterInv == Inv /\ Enter => Inv'
<1> SUFFICES ASSUME Inv, Enter PROVE Inv'
  OBVIOUS
<1> USE DEF Inv, Good
<1>1. Good' /\ (Top' = Top \/ Top'.phase # "handled")
  BY SetRowType, InTopType DEF Enter, MarkStep, Settle, Open, Top, StepStatuses,
     Phases
<1>2. (holes \subseteq Holes)'
  BY DEF Enter, loop, Holes
<1>3. Scalars'
  BY DEF Enter, Scalars, others, aside, loop, Settle, Final, PCs, Outcomes,
     Statuses
<1>4. (discarding \in BOOLEAN)'
  BY Zenon DEF Enter, others, aside
<1>5. SettleInv'
  BY <1>1 DEF Enter, Scalars, SettleInv, Escaped, loop, Settle, Final
<1> QED BY <1>1, <1>2, <1>3, <1>4, <1>5

\* A call begins its try block, or the task was canceled.
LEMMA RefreshInv == Inv /\ Refresh => Inv'
<1> SUFFICES ASSUME Inv, Refresh PROVE Inv'
  OBVIOUS
<1> USE DEF Inv, Good
<1>1. Good' /\ (Top' = Top \/ Top'.phase # "handled")
  BY SetRowType, InTopType DEF Refresh, MarkStep, Settle, Open, Top,
     StepStatuses, Phases
<1>2. (holes \subseteq Holes)'
  BY DEF Refresh, loop, Holes
<1>3. Scalars'
  BY DEF Refresh, Scalars, others, aside, loop, Settle, Final, PCs, Outcomes,
     Statuses
<1>4. (discarding \in BOOLEAN)'
  BY Zenon DEF Refresh, others, aside
<1>5. SettleInv'
  BY <1>1 DEF Refresh, Scalars, SettleInv, Escaped, loop, Settle, Final
<1> QED BY <1>1, <1>2, <1>3, <1>4, <1>5

\* The browser is there.
LEMMA PrepareInv == Inv /\ Prepare => Inv'
<1> SUFFICES ASSUME Inv, Prepare PROVE Inv'
  OBVIOUS
<1> USE DEF Inv, Good
<1>1. Good' /\ (Top' = Top \/ Top'.phase # "handled")
  BY SetRowType, InTopType DEF Prepare, MarkStep, Settle, Open, Top,
     StepStatuses, Phases
<1>2. (holes \subseteq Holes)'
  BY DEF Prepare, loop, Holes
<1>3. Scalars'
  BY DEF Prepare, Scalars, others, aside, loop, Settle, Final, PCs, Outcomes,
     Statuses
<1>4. (discarding \in BOOLEAN)'
  BY Zenon DEF Prepare, others, aside
<1>5. SettleInv'
  BY <1>1 DEF Prepare, Scalars, SettleInv, Escaped, loop, Settle, Final
<1> QED BY <1>1, <1>2, <1>3, <1>4, <1>5

\* The step is worked on.
LEMMA ActInv == Inv /\ Act => Inv'
<1> SUFFICES ASSUME Inv, Act PROVE Inv'
  OBVIOUS
<1> USE DEF Inv, Good
<1>1. Good' /\ Top' = Top
  BY SetRowType DEF Act, Open, Top, loop, StepStatuses
<1>2. (holes \subseteq Holes)'
  BY DEF Act, loop, Holes
<1>3. Scalars'
  BY DEF Act, Scalars, others, aside, loop, Final, PCs, Outcomes, Statuses
<1>4. (discarding \in BOOLEAN)'
  BY Zenon DEF Act, others, aside
<1>5. SettleInv'
  BY <1>1 DEF Act, Scalars, SettleInv, Escaped, loop, Final
<1> QED BY <1>1, <1>2, <1>3, <1>4, <1>5

\* The step is completed or failed.
LEMMA ActedInv == Inv /\ Acted => Inv'
<1> SUFFICES ASSUME Inv, Acted PROVE Inv'
  OBVIOUS
<1> USE DEF Inv, Good
<1>1. Good' /\ (Top' = Top \/ Top'.phase # "handled")
  BY SetRowType, InTopType DEF Acted, MarkStep, Open, Top, StepStatuses, Phases
<1>2. (holes \subseteq Holes)'
  BY DEF Acted, loop, Holes
<1>3. Scalars'
  BY DEF Acted, Scalars, others, aside, loop, Final, PCs, Outcomes, Statuses
<1>4. (discarding \in BOOLEAN)'
  BY Zenon DEF Acted, others, aside
<1>5. SettleInv'
  BY <1>1 DEF Acted, Scalars, SettleInv, Escaped, loop, Final
<1> QED BY <1>1, <1>2, <1>3, <1>4, <1>5

\* A file may have arrived.
LEMMA DownloadInv == Inv /\ Download => Inv'
<1> SUFFICES ASSUME Inv, Download PROVE Inv'
  OBVIOUS
<1> USE DEF Inv, Good
<1>1. Good' /\ Top' = Top
  BY DEF Download, Settle, Open, Top, loop
<1>2. (holes \subseteq Holes)'
  BY DEF Download, loop, Holes
<1>3. Scalars'
  BY DEF Download, Scalars, others, aside, loop, Settle, Final, PCs, Outcomes,
     Statuses
<1>4. (discarding \in BOOLEAN)'
  BY Zenon DEF Download, others, aside
<1>5. SettleInv'
  BY <1>1 DEF Download, Scalars, SettleInv, Escaped, loop, Settle, Final
<1> QED BY <1>1, <1>2, <1>3, <1>4, <1>5

\* The step is retried, or the task fails.
LEMMA HandleFailedInv == Inv /\ HandleFailed => Inv'
<1> SUFFICES ASSUME Inv, HandleFailed PROVE Inv'
  OBVIOUS
<1> USE DEF Inv, Good
<1>1. Good' /\ (Top' = Top \/ Top'.phase # "handled")
  <2>1. Current \in Rows
    BY LastType DEF Current, Open, Top
  <2>2. RetryOf(Current) \in Rows
    BY <2>1 DEF RetryOf, Row, Rows, StepStatuses
  <2>3. CASE steps' = steps /\ frames' = frames
    BY <2>3 DEF Open, Top
  <2>4. CASE steps' = Append(steps, RetryOf(Current)) /\ Recurse(NextRow + 1)
    <3>1. steps' \in Seq(Rows) /\ DOMAIN steps \subseteq DOMAIN steps'
          /\ NextRow + 1 \in DOMAIN steps'
      BY <2>2, <2>4, AppendType
    <3>2. Open(frames)' /\ Top'.phase = "outside"
      BY <2>4, <3>1, RecurseType
    <3> QED BY <3>1, <3>2
  <2> QED BY <2>3, <2>4 DEF HandleFailed, Settle
<1>2. (holes \subseteq Holes)'
  BY DEF HandleFailed, loop, Holes
<1>3. Scalars'
  BY DEF HandleFailed, Scalars, others, aside, loop, Settle, Recurse, Final,
     PCs, Outcomes, Statuses
<1>4. (discarding \in BOOLEAN)'
  BY Zenon DEF HandleFailed, others, aside
<1>5. SettleInv'
  BY <1>1 DEF HandleFailed, Scalars, SettleInv, Escaped, loop, Settle, Recurse,
     Final
<1> QED BY <1>1, <1>2, <1>3, <1>4, <1>5

\* The agent has decided.
LEMMA DecidedInv == Inv /\ Decided => Inv'
<1> SUFFICES ASSUME Inv, Decided PROVE Inv'
  OBVIOUS
<1> USE DEF Inv, Good
<1>1. Good' /\ Top' = Top
  BY DEF Decided, Settle, Open, Top, loop
<1>2. (holes \subseteq Holes)'
  BY DEF Decided, loop, Holes
<1>3. Scalars'
  BY DEF Decided, Scalars, others, aside, loop, Settle, Final, PCs, Outcomes,
     Statuses
<1>4. (discarding \in BOOLEAN)'
  BY Zenon DEF Decided, others, aside
<1>5. SettleInv'
  BY <1>1 DEF Decided, Scalars, SettleInv, Escaped, loop, Settle, Final
<1> QED BY <1>1, <1>2, <1>3, <1>4, <1>5

\* The next step, or the task fails.
LEMMA ContinueInv == Inv /\ Continue => Inv'
<1> SUFFICES ASSUME Inv, Continue PROVE Inv'
  OBVIOUS
<1> USE DEF Inv, Good
<1>1. Good' /\ (Top' = Top \/ Top'.phase # "handled")
  <2>1. Current \in Rows
    BY LastType DEF Current, Open, Top
  <2>2. NextOf(Current) \in Rows
    BY <2>1 DEF NextOf, Row, Rows, StepStatuses
  <2>3. CASE steps' = steps /\ frames' = frames
    BY <2>3 DEF Open, Top
  <2>4. CASE steps' = Append(steps, NextOf(Current)) /\ Recurse(NextRow + 1)
    <3>1. steps' \in Seq(Rows) /\ DOMAIN steps \subseteq DOMAIN steps'
          /\ NextRow + 1 \in DOMAIN steps'
      BY <2>2, <2>4, AppendType
    <3>2. Open(frames)' /\ Top'.phase = "outside"
      BY <2>4, <3>1, RecurseType
    <3> QED BY <3>1, <3>2
  <2> QED BY <2>3, <2>4 DEF Continue, Settle
<1>2. (holes \subseteq Holes)'
  BY DEF Continue, loop, Holes
<1>3. Scalars'
  BY DEF Continue, Scalars, others, aside, loop, Settle, Recurse, Final, PCs,
     Outcomes, Statuses
<1>4. (discarding \in BOOLEAN)'
  BY Zenon DEF Continue, others, aside
<1>5. SettleInv'
  BY <1>1 DEF Continue, Scalars, SettleInv, Escaped, loop, Settle, Recurse,
     Final
<1> QED BY <1>1, <1>2, <1>3, <1>4, <1>5

\* The next step is created beside the verification.
LEMMA VerifyInv == Inv /\ Verify => Inv'
<1> SUFFICES ASSUME Inv, Verify PROVE Inv'
  OBVIOUS
<1> USE DEF Inv, Good
<1>1. Good' /\ Top' = Top
  <2>1. Current \in Rows
    BY LastType DEF Current, Open, Top
  <2>2. NextOf(Current) \in Rows
    BY <2>1 DEF NextOf, Row, Rows, StepStatuses
  <2>3. steps' \in Seq(Rows) /\ DOMAIN steps \subseteq DOMAIN steps' /\ frames' = frames
    BY <2>2, AppendType DEF Verify
  <2> QED BY <2>3 DEF Open, Top
<1>2. (holes \subseteq Holes)'
  BY DEF Verify, loop, Holes
<1>3. Scalars'
  BY DEF Verify, Scalars, others, aside, loop, Final, PCs, Outcomes, Statuses
<1>4. (discarding \in BOOLEAN)'
  BY Zenon DEF Verify, others, aside
<1>5. SettleInv'
  BY <1>1 DEF Verify, Scalars, SettleInv, Escaped, loop, Final
<1> QED BY <1>1, <1>2, <1>3, <1>4, <1>5

\* The speculation starts.
LEMMA LaunchInv == Inv /\ Launch => Inv'
<1> SUFFICES ASSUME Inv, Launch PROVE Inv'
  OBVIOUS
<1> USE DEF Inv, Good
<1>1. Good' /\ Top' = Top
  BY DEF Launch, Open, Top, loop
<1>2. (holes \subseteq Holes)'
  BY DEF Launch, loop, Holes
<1>3. Scalars'
  BY DEF Launch, Scalars, others, aside, loop, Final, PCs, Outcomes, Statuses
<1>4. (discarding \in BOOLEAN)'
  BY Zenon DEF Launch, others, aside
<1>5. SettleInv'
  BY <1>1 DEF Launch, Scalars, SettleInv, Escaped, loop, Final
<1> QED BY <1>1, <1>2, <1>3, <1>4, <1>5

\* It ends.
LEMMA SpeculateInv == Inv /\ Speculate => Inv'
<1> SUFFICES ASSUME Inv, Speculate PROVE Inv'
  OBVIOUS
<1> USE DEF Inv, Good
<1>1. Good' /\ Top' = Top
  BY DEF Speculate, Open, Top, loop
<1>2. (holes \subseteq Holes)'
  BY DEF Speculate, loop, Holes
<1>3. Scalars'
  BY DEF Speculate, Scalars, others, aside, loop, Final, PCs, Outcomes, Statuses
<1>4. (discarding \in BOOLEAN)'
  BY Zenon DEF Speculate, others, aside
<1>5. SettleInv'
  BY <1>1 DEF Speculate, Scalars, SettleInv, Escaped, loop, Final
<1> QED BY <1>1, <1>2, <1>3, <1>4, <1>5

\* The goal is reached, or cannot be.
LEMMA VerifiedInv == Inv /\ Verified => Inv'
<1> SUFFICES ASSUME Inv, Verified PROVE Inv'
  OBVIOUS
<1> USE DEF Inv, Good
<1>1. Good' /\ Top' = Top
  BY DEF Verified, Open, Top, loop
<1>2. (holes \subseteq Holes)'
  BY DEF Verified, loop, Holes
<1>3. Scalars'
  BY DEF Verified, Scalars, others, aside, loop, Final, PCs, Outcomes, Statuses
<1>4. (discarding \in BOOLEAN)'
  BY Zenon DEF Verified, others, aside
<1>5. SettleInv'
  BY <1>1 DEF Verified, Scalars, SettleInv, Escaped, loop, Final
<1> QED BY <1>1, <1>2, <1>3, <1>4, <1>5

\* The step is completed.
LEMMA ConcludeInv == Inv /\ Conclude => Inv'
<1> SUFFICES ASSUME Inv, Conclude PROVE Inv'
  OBVIOUS
<1> USE DEF Inv, Good
<1>1. Good' /\ (Top' = Top \/ Top'.phase # "handled")
  BY SetRowType, InTopType DEF Conclude, MarkStep, Settle, Open, Top,
     StepStatuses, Phases
<1>2. (holes \subseteq Holes)'
  BY DEF Conclude, loop, Holes
<1>3. Scalars'
  BY DEF Conclude, Scalars, others, aside, loop, Settle, Final, PCs, Outcomes,
     Statuses
<1>4. (discarding \in BOOLEAN)'
  BY Zenon DEF Conclude, others, aside
<1>5. SettleInv'
  BY <1>1 DEF Conclude, Scalars, SettleInv, Escaped, loop, Settle, Final
<1> QED BY <1>1, <1>2, <1>3, <1>4, <1>5

\* The goal is not reached.
LEMMA NotVerifiedInv == Inv /\ NotVerified => Inv'
<1> SUFFICES ASSUME Inv, NotVerified PROVE Inv'
  OBVIOUS
<1> USE DEF Inv, Good
<1>1. Good' /\ Top' = Top
  BY DEF NotVerified, Open, Top, loop
<1>2. (holes \subseteq Holes)'
  BY DEF NotVerified, loop, Holes
<1>3. Scalars'
  BY DEF NotVerified, Scalars, others, aside, loop, Final, PCs, Outcomes,
     Statuses
<1>4. (discarding \in BOOLEAN)'
  BY Zenon DEF NotVerified, others, aside
<1>5. SettleInv'
  BY <1>1 DEF NotVerified, Scalars, SettleInv, Escaped, loop, Final
<1> QED BY <1>1, <1>2, <1>3, <1>4, <1>5

\* The loop goes on with the next step, or the steps are used up.
LEMMA TakePlanInv == Inv /\ TakePlan => Inv'
<1> SUFFICES ASSUME Inv, TakePlan PROVE Inv'
  OBVIOUS
<1> USE DEF Inv, Good
<1>1. Good' /\ (Top' = Top \/ Top'.phase # "handled")
  <2>1. CASE steps' = steps /\ frames' = frames
    BY <2>1 DEF Open, Top
  <2>2. CASE steps' = steps /\ Recurse(NextRow)
    <3>1. NextRow \in DOMAIN steps'
      <4>1. Top.step \in DOMAIN steps
        BY LastType DEF Open, Top
      <4> QED BY <2>2, <4>1 DEF NextRow
    <3> QED BY <2>2, <3>1, RecurseType
  <2> QED BY <2>1, <2>2 DEF TakePlan
<1>2. (holes \subseteq Holes)'
  BY DEF TakePlan, loop, Holes
<1>3. Scalars'
  BY DEF TakePlan, Scalars, others, aside, loop, Recurse, Final, PCs, Outcomes,
     Statuses
<1>4. (discarding \in BOOLEAN)'
  BY Zenon DEF TakePlan, others, aside
<1>5. SettleInv'
  BY <1>1 DEF TakePlan, Scalars, SettleInv, Escaped, loop, Recurse, Final
<1> QED BY <1>1, <1>2, <1>3, <1>4, <1>5

\* The steps are used up.
LEMMA ExhaustInv == Inv /\ Exhaust => Inv'
<1> SUFFICES ASSUME Inv, Exhaust PROVE Inv'
  OBVIOUS
<1> USE DEF Inv, Good
<1>1. Good' /\ Top' = Top
  BY SetRowType DEF Exhaust, CancelNext, Open, Top, loop, StepStatuses
<1>2. (holes \subseteq Holes)'
  BY DEF Exhaust, CancelNext, loop, Holes
<1>3. Scalars'
  BY DEF Exhaust, Scalars, others, aside, loop, CancelNext, Settle, Final, PCs,
     Outcomes, Statuses
<1>4. (discarding \in BOOLEAN)'
  BY Zenon DEF Exhaust, others, aside
<1>5. SettleInv'
  BY <1>1 DEF Exhaust, Scalars, SettleInv, Escaped, loop, CancelNext, Settle,
     Final
<1> QED BY <1>1, <1>2, <1>3, <1>4, <1>5

\* The discarded step is canceled.
LEMMA DiscardInv == Inv /\ Discard => Inv'
<1> SUFFICES ASSUME Inv, Discard PROVE Inv'
  OBVIOUS
<1> USE DEF Inv, Good
<1>1. Good' /\ Top' = Top
  BY SetRowType DEF Discard, CancelNext, Open, Top, loop, StepStatuses
<1>2. (holes \subseteq Holes)'
  BY DEF Discard, CancelNext, loop, Holes
<1>3. Scalars'
  BY DEF Discard, Scalars, others, aside, loop, CancelNext, Settle, Final, PCs,
     Outcomes, Statuses
<1>4. (discarding \in BOOLEAN)'
  BY Zenon DEF Discard, others, aside
<1>5. SettleInv'
  BY <1>1 DEF Discard, Scalars, SettleInv, Escaped, loop, CancelNext, Settle,
     Final
<1> QED BY <1>1, <1>2, <1>3, <1>4, <1>5

\* update_task may write.
LEMMA ReadTaskInv == Inv /\ ReadTask => Inv'
<1> SUFFICES ASSUME Inv, ReadTask PROVE Inv'
  OBVIOUS
<1> USE DEF Inv, Good
<1>1. Good' /\ Top' = Top
  BY DEF ReadTask, Open, Top, loop
<1>2. (holes \subseteq Holes)'
  BY DEF ReadTask, loop, Holes
<1>3. Scalars'
  BY DEF ReadTask, Scalars, others, aside, loop, Final, PCs, Outcomes, Statuses
<1>4. (discarding \in BOOLEAN)'
  BY Zenon DEF ReadTask, others, aside
<1>5. SettleInv'
  BY <1>1 DEF ReadTask, Scalars, SettleInv, Escaped, loop, Final
<1> QED BY <1>1, <1>2, <1>3, <1>4, <1>5

\* The task is cleaned up.
LEMMA CleanUpInv == Inv /\ CleanUp => Inv'
<1> SUFFICES ASSUME Inv, CleanUp PROVE Inv'
  OBVIOUS
<1> USE DEF Inv, Good
<1>1. Good' /\ Top' = Top
  BY DEF CleanUp, Open, Top, loop
<1>2. (holes \subseteq Holes)'
  BY DEF CleanUp, loop, Holes
<1>3. Scalars'
  BY DEF CleanUp, Scalars, others, aside, loop, Final, PCs, Outcomes, Statuses
<1>4. (discarding \in BOOLEAN)'
  BY Zenon DEF CleanUp, others, aside
<1>5. SettleInv'
  BY <1>1 DEF CleanUp, Scalars, SettleInv, Escaped, loop, Final
<1> QED BY <1>1, <1>2, <1>3, <1>4, <1>5

\* The cancel endpoint reads the task.
LEMMA CancelReadInv == Inv /\ CancelRead => Inv'
<1> SUFFICES ASSUME Inv, CancelRead PROVE Inv'
  OBVIOUS
<1> USE DEF Inv, Good
<1>1. Good' /\ Top' = Top
  BY DEF CancelRead, Open, Top, loop
<1>2. (holes \subseteq Holes)'
  BY DEF CancelRead, loop, Holes
<1>3. Scalars'
  BY DEF CancelRead, Scalars, others, aside, loop, Final, PCs, Outcomes,
     Statuses
<1>4. (discarding \in BOOLEAN)'
  BY Zenon DEF CancelRead, others, aside
<1>5. SettleInv'
  BY <1>1 DEF CancelRead, Scalars, SettleInv, Escaped, loop, Final
<1> QED BY <1>1, <1>2, <1>3, <1>4, <1>5

\* The cancel endpoint writes it.
LEMMA CancelWriteInv == Inv /\ CancelWrite => Inv'
<1> SUFFICES ASSUME Inv, CancelWrite PROVE Inv'
  OBVIOUS
<1> USE DEF Inv, Good
<1>1. Good' /\ Top' = Top
  BY DEF CancelWrite, Open, Top, loop
<1>2. (holes \subseteq Holes)'
  BY DEF CancelWrite, loop, Holes
<1>3. Scalars'
  BY DEF CancelWrite, Scalars, others, aside, loop, Final, PCs, Outcomes,
     Statuses
<1>4. (discarding \in BOOLEAN)'
  BY Zenon DEF CancelWrite, others, aside
<1>5. SettleInv'
  BY <1>1 DEF CancelWrite, Scalars, SettleInv, Escaped, loop, Final
<1> QED BY <1>1, <1>2, <1>3, <1>4, <1>5

\* The workflow run ends.
LEMMA RunEndsInv == Inv /\ RunEnds => Inv'
<1> SUFFICES ASSUME Inv, RunEnds PROVE Inv'
  OBVIOUS
<1> USE DEF Inv, Good
<1>1. Good' /\ Top' = Top
  BY DEF RunEnds, Open, Top, loop
<1>2. (holes \subseteq Holes)'
  BY DEF RunEnds, loop, Holes
<1>3. Scalars'
  BY DEF RunEnds, Scalars, others, aside, loop, Final, PCs, Outcomes, Statuses
<1>4. (discarding \in BOOLEAN)'
  BY Zenon DEF RunEnds, others, aside
<1>5. SettleInv'
  BY <1>1 DEF RunEnds, Scalars, SettleInv, Escaped, loop, Final
<1> QED BY <1>1, <1>2, <1>3, <1>4, <1>5

\* The task is settled.
LEMMA WriteTaskInv == Inv /\ WriteTask => Inv'
<1> SUFFICES ASSUME Inv, WriteTask PROVE Inv'
  OBVIOUS
<1> USE DEF Inv, Good
<1>0. "failing" \in Phases /\ "handled" \in Phases
  BY DEF Phases
<1>1. Good' /\ (Top' = Top \/ Top'.phase = "handled")
  BY <1>0, PhaseType DEF WriteTask, Open, Top
<1>2. (holes \subseteq Holes)'
  BY DEF WriteTask, loop, Holes
<1>3. Scalars'
  BY DEF WriteTask, Scalars, others, aside, loop, SettleInv, Final, PCs,
     Outcomes, Statuses
<1>4. (discarding \in BOOLEAN)'
  BY Zenon DEF WriteTask, others, aside
<1>5. SettleInv'
  BY <1>1 DEF WriteTask, Scalars, SettleInv, Escaped, loop, Final
<1> QED BY <1>1, <1>2, <1>3, <1>4, <1>5

\* fail_task raises.
LEMMA FailTaskRaisesInv == Inv /\ FailTaskRaises => Inv'
<1> SUFFICES ASSUME Inv, FailTaskRaises PROVE Inv'
  OBVIOUS
<1> USE DEF Inv, Good
<1>0. "handled" \in Phases
  BY DEF Phases
<1>1. Good' /\ Top'.phase = "handled"
  BY <1>0, PhaseType DEF FailTaskRaises, Handling, Open, Top
<1>2. (holes \subseteq Holes)'
  BY DEF FailTaskRaises, loop, Holes
<1>3. Scalars'
  BY DEF FailTaskRaises, Scalars, others, aside, loop, Final, PCs, Outcomes,
     Statuses
<1>4. (discarding \in BOOLEAN)'
  BY Zenon DEF FailTaskRaises, others, aside
<1>5. SettleInv'
  BY <1>1 DEF FailTaskRaises, Scalars, SettleInv, Escaped, loop, Final
<1> QED BY <1>1, <1>2, <1>3, <1>4, <1>5

\* The task is settled already.
LEMMA RefusedInv == Inv /\ Refused => Inv'
<1> SUFFICES ASSUME Inv, Refused PROVE Inv'
  OBVIOUS
<1> USE DEF Inv, Good
<1>0. "handled" \in Phases /\ "failing" \in Phases
  BY DEF Phases
<1>1. Good' /\ (Catchers # <<>> => Open(Catchers))
  <2>1. Catchers # <<>> => Open(Catchers)
    BY FrontType DEF Catchers
  <2>2. ASSUME NEW fs, Open(fs), CatchSettled(fs)
        PROVE Good'
    BY <1>0, <2>2, PhaseType DEF CatchSettled, Handling, Open
  <2>3. CASE Top.phase = "failing"
    <3>1. Handling(frames, "handled") /\ steps' = steps
      BY <2>3 DEF Refused
    <3> QED BY <2>1, <3>1, <1>0, PhaseType DEF Handling, Open
  <2>4. CASE Top.phase # "failing" /\ Catchers # <<>>
    BY <2>1, <2>2, <2>4 DEF Refused
  <2>5. CASE Top.phase # "failing" /\ Catchers = <<>>
    BY <2>5 DEF Refused, Open
  <2> QED BY <2>1, <2>3, <2>4, <2>5
<1>2. task \in Final /\ task' = task
  BY RefusedIsFinal DEF Refused, SettleInv
<1>3. (holes \subseteq Holes)'
  BY DEF Refused, CatchSettled, loop, Holes
<1>4. Scalars'
  BY DEF Refused, Scalars, others, aside, loop, CatchSettled, Settle, Final,
     PCs, Outcomes, Statuses
<1>5. (discarding \in BOOLEAN)'
  BY Zenon DEF Refused, others, aside
<1>6. SettleInv'
  BY <1>2 DEF Refused, Scalars, SettleInv, Escaped, loop, CatchSettled, Settle,
     Final
<1> QED BY <1>1, <1>3, <1>4, <1>5, <1>6

\* A statement raises.
LEMMA FaultInv == Inv /\ Fault => Inv'
<1> SUFFICES ASSUME Inv, Fault PROVE Inv'
  OBVIOUS
<1> USE DEF Inv, Good
<1>0. "handled" \in Phases /\ "failing" \in Phases
  BY DEF Phases
<1>1. /\ Good'
      /\ \/ Top'.phase = "handled" /\ Escaped'
         \/ Top'.phase = "failing" /\ pc' = "read"
         \/ Top' = Top /\ Catchers = <<>>
  <2>1. Catchers # <<>> => Open(Catchers)
    BY FrontType DEF Catchers
  <2>2. ASSUME NEW fs, Open(fs), NEW more, CatchError(fs, more)
        PROVE  /\ Good'
               /\ \/ Top'.phase = "handled" /\ Escaped'
                  \/ Top'.phase = "failing" /\ pc' = "read"
    <3>1. CASE UNCHANGED steps /\ Handling(fs, "handled")
               /\ holes' \cap {"late", "failing"} # {}
      BY <1>0, <2>2, <3>1, PhaseType DEF Handling, Open, Top, Escaped
    <3>2. CASE SetRow(Last(fs).step, "failed") /\ Handling(fs, "failing") /\ pc' = "read"
      <4>1. steps' \in Seq(Rows) /\ DOMAIN steps' = DOMAIN steps
        BY <3>2, SetRowType DEF StepStatuses
      <4>2. frames' \in Seq(Calls) /\ frames' # <<>>
            /\ (\A i \in DOMAIN frames' : frames'[i].step \in DOMAIN steps)
            /\ Top'.phase = "failing"
        BY <1>0, <2>2, <3>2, PhaseType DEF Handling, Open, Top
      <4> QED BY <3>2, <4>1, <4>2 DEF Open
    <3> QED BY <2>2, <3>1, <3>2 DEF CatchError, Settle
  <2>3. CASE Catchers # <<>>
    BY <2>1, <2>2, <2>3 DEF Fault
  <2>4. CASE Catchers = <<>>
    BY <2>4 DEF Fault, Open, Top
  <2> QED BY <2>3, <2>4
<1>2. Catchers = <<>> => Top.phase = "outside" \/ Top.phase = "handled"
  <2>1. Top.phase \in Phases
    BY LastType DEF Open, Top, Calls
  <2>2. frames # <<>>
    BY DEF Open
  <2> QED BY <2>1, <2>2 DEF Fault, Catchers, Phases
<1>3. (holes \subseteq Holes)'
  BY DEF Fault, CatchError, loop, Holes
<1>4. Scalars'
  BY DEF Fault, Scalars, others, aside, loop, CatchError, Settle, Final, PCs,
     Outcomes, Statuses
<1>5. (discarding \in BOOLEAN)'
  BY Zenon DEF Fault, others, aside
<1>6. SettleInv'
  BY <1>1, <1>2 DEF Fault, Scalars, SettleInv, Escaped, loop, CatchError,
     Settle, Final
<1> QED BY <1>1, <1>3, <1>4, <1>5, <1>6

\* The coroutine is canceled.
LEMMA InterruptedInv == Inv /\ Interrupted => Inv'
<1> SUFFICES ASSUME Inv, Interrupted PROVE Inv'
  OBVIOUS
<1> USE DEF Inv, Good
<1>1. Good' /\ Top' = Top
  BY DEF Interrupted, Stop, Open, Top, loop
<1>2. (holes \subseteq Holes)'
  BY DEF Interrupted, Holes
<1>3. Scalars'
  BY DEF Interrupted, Stop, Scalars, others, aside, PCs
<1>4. (discarding \in BOOLEAN)'
  BY Zenon DEF Interrupted, aside
<1>5. SettleInv'
  BY DEF Interrupted, Stop, SettleInv, Escaped
<1> QED BY <1>1, <1>2, <1>3, <1>4, <1>5

\* The worker dies.
LEMMA WorkerDiesInv == Inv /\ WorkerDies => Inv'
<1> SUFFICES ASSUME Inv, WorkerDies PROVE Inv'
  OBVIOUS
<1> USE DEF Inv, Good
<1>1. Good' /\ Top' = Top
  BY DEF WorkerDies, Stop, Open, Top, loop
<1>2. (holes \subseteq Holes)'
  BY DEF WorkerDies, Holes
<1>3. Scalars'
  BY DEF WorkerDies, Stop, Scalars, others, PCs
<1>4. (discarding \in BOOLEAN)'
  BY Zenon DEF WorkerDies
<1>5. holes \subseteq holes' /\ task' = task /\ pc' = "over"
      /\ (pc \notin {"cleanup", "over"} => "interrupted" \in holes')
  BY DEF WorkerDies, Stop
<1>6. SettleInv'
  BY <1>1, <1>5 DEF SettleInv, Escaped
<1> QED BY <1>1, <1>2, <1>3, <1>4, <1>6

\* The invariant holds in every state.
THEOREM Invariant == Spec => []Inv
<1>1. Inv /\ [Next]_vars => Inv'
  <2>1. Inv /\ Next => Inv'
    BY EnterInv, RefreshInv, PrepareInv, ActInv, ActedInv, DownloadInv,
     HandleFailedInv, DecidedInv, ContinueInv, VerifyInv, LaunchInv,
     VerifiedInv, ConcludeInv, NotVerifiedInv, TakePlanInv, ExhaustInv,
     ReadTaskInv, RefusedInv, WriteTaskInv, CleanUpInv, FaultInv,
     FailTaskRaisesInv, InterruptedInv, WorkerDiesInv, SpeculateInv, DiscardInv, CancelReadInv,
     CancelWriteInv, RunEndsInv DEF Next, Progress
  <2>2. Inv /\ UNCHANGED vars => Inv'
    <3> SUFFICES ASSUME Inv, UNCHANGED vars PROVE Inv'
      OBVIOUS
    <3>1. Good' /\ Top' = Top
      BY DEF Inv, Good, Open, Top, vars, loop
    <3>2. Scalars'
      BY DEF Inv, Scalars, vars, loop
    <3>3. (discarding \in BOOLEAN)'
      BY Zenon DEF Inv, vars, loop
    <3>5. (holes \subseteq Holes)'
      BY DEF Inv, vars
    <3>4. SettleInv'
      BY <3>1 DEF Inv, SettleInv, Escaped, vars, loop
    <3> QED BY <3>1, <3>2, <3>3, <3>4, <3>5 DEF Inv
  <2> QED BY <2>1, <2>2
<1> QED BY InitInv, <1>1, PTL DEF Spec

(***************************************************************************)
(* What follows.                                                           *)
(***************************************************************************)

\* Every variable keeps its type: rows and open calls are sequences, a call is
\* always open, and each open call has a row of its own.
THEOREM TypeCorrect == Spec => []TypeOK
<1>1. Inv => TypeOK
  <2> SUFFICES ASSUME Inv PROVE TypeOK
    OBVIOUS
  <2>1. discarding \in BOOLEAN
    BY DEF Inv
  <2>2. task \in Statuses
    BY DEF Inv, Scalars, Final, Statuses
  <2> QED BY <2>1, <2>2 DEF Inv, Good, Open, Scalars, Rows, Calls, TypeOK
<1> QED BY Invariant, <1>1, PTL

\* execute_step settles its task: however many steps and retries it takes,
\* whatever is raised or raced by a cancel of the task or of its workflow run,
\* a loop that is over leaves a settled task, unless an exception struck after
\* the step was completed, inside fail_task, or outside every try block, or the
\* coroutine itself was canceled (CancelledError) or died with its worker.
THEOREM LoopSettles == Spec => []SettledUnlessHole
<1>1. Inv => SettledUnlessHole
  BY DEF Inv, SettleInv, Escaped, SettledUnlessHole
<1> QED BY Invariant, <1>1, PTL

===============================================================================
