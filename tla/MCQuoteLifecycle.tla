--------------------------- MODULE MCQuoteLifecycle ---------------------------
(***************************************************************************)
(* Instances of QuoteLifecycle for TLC: two recovery requests, a requester *)
(* who is also an approver, one more approver and a bystander.             *)
(***************************************************************************)
EXTENDS QuoteLifecycle, TLC

CONSTANTS p1, p2, alice, bob, eve

MCProcs == {p1, p2}
MCOneProc == {p1}
MCUsers == {alice, bob, eve}
MCApprovers == {alice, bob}

Symmetry == Permutations(MCProcs)

===============================================================================
