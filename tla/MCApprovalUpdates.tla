-------------------------- MODULE MCApprovalUpdates --------------------------
(***************************************************************************)
(* The instance of ApprovalUpdates for TLC: two approvers, two requests to *)
(* continue, one client, and a pool of two connections, so that a          *)
(* continuation that holds the lock can be starved by those that wait.     *)
(***************************************************************************)
EXTENDS ApprovalUpdates, TLC

CONSTANTS approver1, approver2, continue1, continue2, client1

MCDeciders == {approver1, approver2}
MCContinuers == {continue1, continue2}
MCClients == {client1}

===============================================================================
