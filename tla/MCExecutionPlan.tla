-------------------------- MODULE MCExecutionPlan --------------------------
(* ExecutionPlan on three routes of different estimates. *)
EXTENDS ExecutionPlan, TLC

CONSTANTS r1, r2, r3

MCRoutes == {r1, r2, r3}
MCRank == r1 :> 1 @@ r2 :> 2 @@ r3 :> 3
MCEstimatedCost == r1 :> 2 @@ r2 :> 1 @@ r3 :> 0
=============================================================================
