--------------------------- MODULE MCPartnerStart ---------------------------
(***************************************************************************)
(* PartnerStart on the two eligible routes of three candidates: the        *)
(* costlier one, which uses up the budget, ranks first; the telemetry of   *)
(* the third has expired.                                                  *)
(***************************************************************************)
EXTENDS PartnerStart, RouteScoring

\* The default weights of RouteScoreWeights.
MCWeights ==
    [latency |-> 1600, congestion |-> 1200, liquidity |-> 1700, throughput |-> 1200,
     speed |-> 1200, cost |-> 1800, link |-> 1300]

MCCandidate(id, latency, cost, link, expires) ==
    [id |-> id, corridor |-> 1, min |-> 0, max |-> 500, latency |-> latency,
     congestion |-> 1000, capacity |-> 200, throughput |-> 9000, speed |-> 9000,
     cost |-> cost, link |-> link, observed |-> 0, expires |-> expires]

MCCandidates ==
    {MCCandidate(1, 100, 2, "UP", 9), MCCandidate(2, 9000, 1, "DEGRADED", 9),
     MCCandidate(3, 50, 0, "UP", 4)}

MCRequest == [amount |-> 100, budget |-> Budget, corridor |-> 1, at |-> 5]

MCRoutes == {c.id : c \in Ranked(MCCandidates, MCRequest)}
MCRouteOf(r) == CHOOSE c \in MCCandidates : c.id = r
MCRank == [r \in MCRoutes |-> RankIn(MCRouteOf(r), MCCandidates, MCRequest)]
MCEstimatedCost == [r \in MCRoutes |-> MCRouteOf(r).cost]
=============================================================================
