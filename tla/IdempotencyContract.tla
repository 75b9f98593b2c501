------------------------- MODULE IdempotencyContract -------------------------
(***************************************************************************)
(* What an Idempotency-Key promises: every key is bound to one task for    *)
(* good, clients are only ever told of that task, and the browser works    *)
(* only for a task that was bound to its key.                              *)
(***************************************************************************)
CONSTANTS Keys, Tasks, NoTask

VARIABLES
    owner,      \* the task of each key
    worked,     \* the keys the browser has worked for
    told        \* the tasks the clients of each key were told of

vars == <<owner, worked, told>>

Init ==
    /\ owner = [k \in Keys |-> NoTask]
    /\ worked = {}
    /\ told = [k \in Keys |-> {}]

\* The client whose task is bound may learn it at once.
Bind(k, t) ==
    /\ owner[k] = NoTask
    /\ owner' = [owner EXCEPT ![k] = t]
    /\ told' \in {told, [told EXCEPT ![k] = {t}]}
    /\ UNCHANGED worked

Work(k) ==
    /\ owner[k] # NoTask
    /\ worked' = worked \cup {k}
    /\ UNCHANGED <<owner, told>>

Tell(k) ==
    /\ owner[k] # NoTask
    /\ told' = [told EXCEPT ![k] = {owner[k]}]
    /\ UNCHANGED <<owner, worked>>

Next == \E k \in Keys : Work(k) \/ Tell(k) \/ \E t \in Tasks : Bind(k, t)

Spec == Init /\ [][Next]_vars

===============================================================================
