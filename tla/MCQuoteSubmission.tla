-------------------------- MODULE MCQuoteSubmission --------------------------
(***************************************************************************)
(* Instances of QuoteSubmission for TLC: two workers; two clients of one   *)
(* key on different workers, and a third that shares a worker with one of  *)
(* them and has a key of its own.                                          *)
(***************************************************************************)
EXTENDS QuoteSubmission, TLC

CONSTANTS r1, r2, r3, w1, w2, k1, k2

MCTwo == {r1, r2}
MCThree == {r1, r2, r3}
MCWorkers == {w1, w2}
MCOneKey == {k1}
MCTwoKeys == {k1, k2}
MCKeyTwo == [r \in MCTwo |-> k1]
MCWorkerTwo == r1 :> w1 @@ r2 :> w2
MCKeyThree == r1 :> k1 @@ r2 :> k1 @@ r3 :> k2
MCWorkerThree == r1 :> w1 @@ r2 :> w2 @@ r3 :> w1

===============================================================================
