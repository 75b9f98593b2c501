---------------------------- MODULE QuoteContract ----------------------------
(***************************************************************************)
(* What the procurement service promises about one quote task, without its *)
(* tables, locks, requests and failures: a task waits for approval or is   *)
(* open, is worked on by at most one browser execution, and then settles   *)
(* on one quote, directly or through a human, or is closed without one.    *)
(***************************************************************************)
EXTENDS Naturals

VARIABLES
    phase,      \* where the task is in its life
    runs,       \* browser executions started
    quote       \* who wrote the quote, "none" without one

Phases == {"waiting", "open", "working", "human", "settled", "closed"}

vars == <<phase, runs, quote>>

\* A task from before the snapshots may already have been executed.
Init ==
    /\ phase \in {"waiting", "open"}
    /\ runs \in IF phase = "open" THEN {0, 1} ELSE {0}
    /\ quote = "none"

Release == phase = "waiting" /\ phase' = "open" /\ UNCHANGED <<runs, quote>>

Refuse == phase = "waiting" /\ phase' = "closed" /\ UNCHANGED <<runs, quote>>

\* The service commits itself before it touches the browser.
Begin ==
    /\ phase = "open"
    /\ runs = 0
    /\ phase' = "working"
    /\ UNCHANGED <<runs, quote>>

\* The browser starts only for a task that is being worked on: never after
\* a human took over and never beside a settled quote.
Run ==
    /\ phase = "working"
    /\ runs = 0
    /\ runs' = 1
    /\ UNCHANGED <<phase, quote>>

HandOver ==
    /\ phase \in {"open", "working"}
    /\ phase' = "human"
    /\ UNCHANGED <<runs, quote>>

\* An extracted quote never replaces a human's work; every quote rests on a
\* browser execution, because its evidence does.
Settle(by) ==
    /\ phase \in {"open", "working", "human"}
    /\ by = "extracted" => phase # "human"
    /\ runs = 1
    /\ phase' = "settled"
    /\ quote' = by
    /\ UNCHANGED runs

Close == phase = "human" /\ phase' = "closed" /\ UNCHANGED <<runs, quote>>

Next ==
    \/ Release
    \/ Refuse
    \/ Begin
    \/ Run
    \/ HandOver
    \/ \E by \in {"extracted", "manual"} : Settle(by)
    \/ Close

Spec == Init /\ [][Next]_vars

===============================================================================
