---------------------------- MODULE MCCoordinator ----------------------------
(***************************************************************************)
(* The instance of Coordinator for TLC: two calls of the organization that *)
(* owns the task, one of another, and two plans that show every failure    *)
(* strategy.  A planner that raises adds the empty plan.                   *)
(***************************************************************************)
EXTENDS Coordinator, TLC

CONSTANTS c1, c2, other

MCCalls == {c1, c2, other}
MCOrg == [c \in MCCalls |-> IF c = other THEN "org_b" ELSE "org_a"]
MCShapes == {<<"retry", "replan">>, <<"skip", "abort">>}

===============================================================================
