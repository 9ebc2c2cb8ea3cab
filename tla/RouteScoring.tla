---------------------------- MODULE RouteScoring ----------------------------
(***************************************************************************)
(* DeterministicRouteScorer (railone_execution/scoring.py): which routes   *)
(* are eligible for a UTT at an instant, their score in basis points and   *)
(* the order in which a plan tries them.  All arithmetic is on integers.   *)
(* Currencies and institutions are compared for equality only and stand in *)
(* one field, the corridor; route identifiers are ordered like the numbers *)
(* that stand for them.                                                    *)
(***************************************************************************)
EXTENDS Integers, FiniteSets

CONSTANT Weights        \* RouteScoreWeights

Full == 10000           \* basis points

Components == {"latency", "congestion", "liquidity", "throughput", "speed", "cost", "link"}

\* __post_init__ of the weights.
ASSUME WeightsAssumption ==
    /\ Weights \in [Components -> Nat]
    /\ Weights["latency"] + Weights["congestion"] + Weights["liquidity"] + Weights["throughput"]
         + Weights["speed"] + Weights["cost"] + Weights["link"] = Full

\* What normalized() accepts.
Candidates ==
    {c \in [id : Nat, corridor : Nat, min : Nat, max : Nat \ {0}, latency : Nat,
            congestion : 0..Full, capacity : Nat, throughput : 0..Full, speed : 0..Full,
            cost : Nat, link : {"UP", "DEGRADED", "DOWN"}, observed : Nat, expires : Nat] :
        c.min <= c.max /\ c.observed < c.expires}

\* What the scorer is told about the UTT.
Requests == [amount : Nat \ {0}, budget : Nat, corridor : Nat, at : Nat]

Lesser(a, b) == IF a <= b THEN a ELSE b

Eligible(c, q) ==
    /\ c.link # "DOWN"
    /\ c.observed <= q.at /\ q.at < c.expires
    /\ c.corridor = q.corridor
    /\ c.min <= q.amount /\ q.amount <= c.max
    /\ c.capacity >= q.amount
    /\ c.cost <= q.budget

Liquidity(c, q) == Lesser(Full, ((c.capacity - q.amount) * Full) \div q.amount)

CostScore(c, q) ==
    IF q.budget = 0 THEN Full
    ELSE LET share == (c.cost * Full) \div q.budget
         IN  IF share > Full THEN 0 ELSE Full - share

Score(c, q) ==
    ( Weights["latency"] * (Full - Lesser(c.latency, Full))
    + Weights["congestion"] * (Full - c.congestion)
    + Weights["liquidity"] * Liquidity(c, q)
    + Weights["throughput"] * c.throughput
    + Weights["speed"] * c.speed
    + Weights["cost"] * CostScore(c, q)
    + Weights["link"] * (IF c.link = "UP" THEN Full ELSE 4000) ) \div Full

\* The sort key (-score, route_id).
Before(c, d, q) ==
    Score(c, q) > Score(d, q) \/ (Score(c, q) = Score(d, q) /\ c.id < d.id)

\* rank(): the eligible candidates, and the position of each.
Ranked(candidates, q) == {c \in candidates : Eligible(c, q)}

RankIn(c, candidates, q) ==
    Cardinality({d \in Ranked(candidates, q) : Before(d, c, q)}) + 1
=============================================================================
