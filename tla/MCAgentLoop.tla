----------------------------- MODULE MCAgentLoop -----------------------------
(***************************************************************************)
(* Small instances of AgentLoop: every kind of task, three steps, two      *)
(* attempts at each.                                                       *)
(***************************************************************************)
EXTENDS AgentLoop

MCModes == AllModes

===============================================================================
