---------------------- MODULE MCSettlementNotification ----------------------
(* SettlementNotification on two routes, an orchestrator and two handlers. *)
EXTENDS SettlementNotification, TLC

CONSTANTS r1, r2

MCRoutes == {r1, r2}
MCRank == r1 :> 1 @@ r2 :> 2
MCEstimatedCost == r1 :> 0 @@ r2 :> 0

Symmetry == Permutations(Handlers) \cup Permutations(Couriers)
=============================================================================
