-------------------------- MODULE MCWorkflowInstance --------------------------
(***************************************************************************)
(* Instances of WorkflowInstance for TLC: two requests that instantiate,   *)
(* dispatch and recover against each other, and a template of two or three *)
(* blocks.                                                                 *)
(***************************************************************************)
EXTENDS WorkflowInstance, TLC

CONSTANTS p1, p2

MCProcs == {p1, p2}
MCOneProc == {p1}

Symmetry == Permutations(MCProcs)

===============================================================================
