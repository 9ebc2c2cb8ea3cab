------------------------- MODULE PartnerStartProofs -------------------------
(***************************************************************************)
(* start_next with its endpoint validation, for any number of callers and  *)
(* of status changes.  Each step is one of ExecutionPlan or leaves the     *)
(* plan alone, so all that is proved there holds here.  The inductive      *)
(* invariant follows a call through its two validations: a party that was  *)
(* found ACTIVE is not in "inactive", and no later change puts it there.   *)
(* First come the ranking the plan is built from, and the plan's accounts. *)
(***************************************************************************)
EXTENDS PartnerStart, RouteScoring, FiniteSetTheorems, WellFoundedInduction, ExecutionPlanProofs

-----------------------------------------------------------------------------
(* The ranking the plan is built from: for any weights and candidates the   *)
(* scores are basis points, no two routes share a rank, and a better route  *)
(* has the lower one, which is what ExecutionPlan assumes of Rank.  The     *)
(* score follows the measures through every integer division: a route at    *)
(* least as good as another on each of them never scores below it.          *)

LEMMA FullType == Full \in Nat /\ Full > 0 /\ 0 \in 0..Full /\ Full \in 0..Full
<1>1. Full \in Nat /\ Full > 0
  BY DEF Full
<1> QED
  BY <1>1

LEMMA DegradedLink == 4000 \in 0..Full
BY DEF Full

(* What follows holds on any scale F, and so on the one of basis points.    *)
LEMMA ProductBound ==
    ASSUME NEW F \in Nat, NEW w \in Nat, NEW x \in 0..F
    PROVE  w * x \in Int /\ 0 <= w * x /\ w * x <= w * F
OBVIOUS

LEMMA DivisionBound ==
    ASSUME NEW F \in Nat, F > 0, NEW s \in Int, 0 <= s, s <= F * F PROVE s \div F \in 0..F
OBVIOUS

LEMMA Complement ==
    ASSUME NEW F \in Nat, NEW x \in 0..F PROVE x \in Int /\ F - x \in 0..F
OBVIOUS

LEMMA LesserType ==
    ASSUME NEW F \in Nat, NEW x \in Nat
    PROVE  Lesser(F, x) \in 0..F /\ F - Lesser(x, F) \in 0..F
BY DEF Lesser

LEMMA WeightedSum ==
    ASSUME NEW F \in Nat, NEW w1 \in Nat, NEW w2 \in Nat, NEW w3 \in Nat, NEW w4 \in Nat,
           NEW w5 \in Nat, NEW w6 \in Nat, NEW w7 \in Nat,
           w1 + w2 + w3 + w4 + w5 + w6 + w7 = F
    PROVE  w1 * F + w2 * F + w3 * F + w4 * F + w5 * F + w6 * F + w7 * F = F * F
OBVIOUS

LEMMA CandidateType ==
    ASSUME NEW c \in Candidates
    PROVE  /\ c.id \in Nat /\ c.latency \in Nat /\ c.capacity \in Nat /\ c.cost \in Nat
           /\ c.congestion \in 0..Full /\ c.throughput \in 0..Full /\ c.speed \in 0..Full
BY DEF Candidates

LEMMA LiquidityType ==
    ASSUME NEW c \in Candidates, NEW q \in Requests, Eligible(c, q)
    PROVE  Liquidity(c, q) \in 0..Full
<1>1. c.capacity \in Nat /\ q.amount \in Nat /\ q.amount > 0 /\ c.capacity >= q.amount
  BY CandidateType DEF Requests, Eligible
<1> DEFINE surplus == (c.capacity - q.amount) * Full
<1>2. surplus \in Nat
  BY <1>1, FullType
<1> HIDE DEF surplus
<1>3. surplus \div q.amount \in Nat
  BY <1>1, <1>2
<1> QED
  <2>1. Liquidity(c, q) = Lesser(Full, surplus \div q.amount)
    BY DEF Liquidity, surplus
  <2> QED
    BY <1>3, <2>1, LesserType, FullType

LEMMA CostScoreType ==
    ASSUME NEW c \in Candidates, NEW q \in Requests PROVE CostScore(c, q) \in 0..Full
<1>1. c.cost \in Nat /\ q.budget \in Nat
  BY CandidateType DEF Requests
<1> DEFINE share == (c.cost * Full) \div q.budget
<1>2. CASE q.budget = 0
  BY <1>2, FullType DEF CostScore
<1>3. CASE q.budget # 0
  <2>1. c.cost * Full \in Nat
    BY <1>1, FullType
  <2>2. share \in Nat
    BY <1>1, <1>3, <2>1
  <2>3. CostScore(c, q) = IF share > Full THEN 0 ELSE Full - share
    BY <1>3 DEF CostScore
  <2> HIDE DEF share
  <2>4. CASE share > Full
    BY <2>3, <2>4, FullType
  <2>5. CASE ~(share > Full)
    <3>1. share \in 0..Full
      BY <2>2, <2>5, FullType
    <3> QED
      BY <2>3, <2>5, <3>1, Complement, FullType
  <2> QED
    BY <2>4, <2>5
<1> QED
  BY <1>2, <1>3

\* The score of an eligible route is a number of basis points, whatever weights
\* that sum to 10000 are configured and however large the amounts are.
THEOREM ScoreIsBasisPoints ==
    ASSUME NEW c \in Candidates, NEW q \in Requests, Eligible(c, q)
    PROVE  Score(c, q) \in 0..Full
<1> DEFINE x1 == Full - Lesser(c.latency, Full)
           x2 == Full - c.congestion
           x3 == Liquidity(c, q)
           x4 == c.throughput
           x5 == c.speed
           x6 == CostScore(c, q)
           x7 == IF c.link = "UP" THEN Full ELSE 4000
<1>0. x1 \in 0..Full /\ x4 \in 0..Full /\ x5 \in 0..Full
  <2>1. c.latency \in Nat /\ c.throughput \in 0..Full /\ c.speed \in 0..Full
    BY CandidateType
  <2>2. \A x \in Nat : Full - Lesser(x, Full) \in 0..Full
    BY Zenon, LesserType, FullType
  <2> QED
    BY <2>1, <2>2
<1>0a. x2 \in 0..Full
  <2>1. c.congestion \in 0..Full
    BY CandidateType
  <2> QED
    BY <2>1, Complement, FullType
<1>0b. x7 \in 0..Full
  BY FullType, DegradedLink
<1>1. x1 \in 0..Full /\ x2 \in 0..Full /\ x4 \in 0..Full /\ x5 \in 0..Full /\ x7 \in 0..Full
  BY <1>0, <1>0a, <1>0b
<1>2. x3 \in 0..Full /\ x6 \in 0..Full
  BY LiquidityType, CostScoreType
<1>3. \A k \in Components : Weights[k] \in Nat
  BY WeightsAssumption
<1> DEFINE w1 == Weights["latency"]
           w2 == Weights["congestion"]
           w3 == Weights["liquidity"]
           w4 == Weights["throughput"]
           w5 == Weights["speed"]
           w6 == Weights["cost"]
           w7 == Weights["link"]
           s == w1 * x1 + w2 * x2 + w3 * x3 + w4 * x4 + w5 * x5 + w6 * x6 + w7 * x7
<1>4. /\ w1 \in Nat /\ w2 \in Nat /\ w3 \in Nat /\ w4 \in Nat /\ w5 \in Nat /\ w6 \in Nat /\ w7 \in Nat
      /\ w1 + w2 + w3 + w4 + w5 + w6 + w7 = Full
  BY <1>3, WeightsAssumption DEF Components
<1>5. Score(c, q) = s \div Full
  BY DEF Score
<1> HIDE DEF x1, x2, x3, x4, x5, x6, x7, w1, w2, w3, w4, w5, w6, w7
<1>6. /\ w1 * x1 \in Int /\ 0 <= w1 * x1 /\ w1 * x1 <= w1 * Full
      /\ w2 * x2 \in Int /\ 0 <= w2 * x2 /\ w2 * x2 <= w2 * Full
      /\ w3 * x3 \in Int /\ 0 <= w3 * x3 /\ w3 * x3 <= w3 * Full
      /\ w4 * x4 \in Int /\ 0 <= w4 * x4 /\ w4 * x4 <= w4 * Full
  BY <1>1, <1>2, <1>4, ProductBound, FullType
<1>7. /\ w5 * x5 \in Int /\ 0 <= w5 * x5 /\ w5 * x5 <= w5 * Full
      /\ w6 * x6 \in Int /\ 0 <= w6 * x6 /\ w6 * x6 <= w6 * Full
      /\ w7 * x7 \in Int /\ 0 <= w7 * x7 /\ w7 * x7 <= w7 * Full
  BY <1>1, <1>2, <1>4, ProductBound, FullType
<1>8. s \in Int /\ 0 <= s /\ s <= Full * Full
  <2>1. w1 * Full + w2 * Full + w3 * Full + w4 * Full + w5 * Full + w6 * Full + w7 * Full
          = Full * Full
    BY <1>4, WeightedSum, FullType
  <2> QED
    BY <1>4, <1>6, <1>7, <2>1, FullType
<1> HIDE DEF s
<1> QED
  BY <1>5, <1>8, DivisionBound, FullType

\* The ranks of the eligible routes of one planning request are distinct, and a
\* route that scores better, or as well with a smaller identifier, comes first.
THEOREM RankIsTotal ==
    ASSUME NEW candidates \in SUBSET Candidates, IsFiniteSet(candidates), NEW q \in Requests,
           \A c, d \in candidates : c.id = d.id => c = d,
           NEW c \in Ranked(candidates, q), NEW d \in Ranked(candidates, q), c # d
    PROVE  /\ RankIn(c, candidates, q) # RankIn(d, candidates, q)
           /\ Before(c, d, q) => RankIn(c, candidates, q) < RankIn(d, candidates, q)
<1> DEFINE R == Ranked(candidates, q)
           B(x) == {e \in R : Before(e, x, q)}
<1>1. \A x \in R : Score(x, q) \in Int /\ x.id \in Nat
  <2> SUFFICES ASSUME NEW x \in R PROVE Score(x, q) \in Int /\ x.id \in Nat
    OBVIOUS
  <2>1. x \in Candidates /\ Eligible(x, q)
    BY DEF Ranked
  <2>2. Score(x, q) \in 0..Full
    BY <2>1, ScoreIsBasisPoints
  <2>3. x.id \in Nat
    BY <2>1, CandidateType
  <2> QED
    BY <2>2, <2>3, Complement
<1>2. IsFiniteSet(R) /\ \A x \in R : IsFiniteSet(B(x))
  BY FS_Subset DEF Ranked
<1>3. ASSUME NEW x \in R, NEW y \in R, Before(x, y, q)
      PROVE  Cardinality(B(x)) < Cardinality(B(y))
  <2>1. B(x) \subseteq B(y)
    BY <1>1, <1>3 DEF Before
  <2>2. x \in B(y) /\ x \notin B(x)
    BY <1>1, <1>3 DEF Before
  <2>3. IsFiniteSet(B(y)) /\ Cardinality(B(x)) \in Nat /\ Cardinality(B(y)) \in Nat
    BY <1>2, FS_CardinalityType
  <2>4. B(x) # B(y)
    BY <2>2
  <2> HIDE DEF B
  <2>5. /\ Cardinality(B(x)) <= Cardinality(B(y))
        /\ Cardinality(B(y)) = Cardinality(B(x)) => B(y) = B(x)
    BY <2>1, <2>3, FS_Subset
  <2> QED
    BY <2>3, <2>4, <2>5
<1>4. Before(c, d, q) \/ Before(d, c, q)
  BY <1>1 DEF Before, Ranked
<1>5. Cardinality(B(c)) \in Nat /\ Cardinality(B(d)) \in Nat
  BY <1>2, FS_CardinalityType
<1>6. RankIn(c, candidates, q) = Cardinality(B(c)) + 1 /\ RankIn(d, candidates, q) = Cardinality(B(d)) + 1
  BY DEF RankIn
<1> HIDE DEF B, R
<1> QED
  BY <1>3, <1>4, <1>5, <1>6 DEF R

(* Monotonicity on any scale. *)
LEMMA ProductGrows ==
    ASSUME NEW w \in Nat, NEW x \in Int, NEW y \in Int, x <= y
    PROVE  w * x \in Int /\ w * y \in Int /\ w * x <= w * y
OBVIOUS

LEMMA DivisionGrows ==
    ASSUME NEW n \in Nat, n > 0, NEW x \in Int, NEW y \in Int, x <= y
    PROVE  x \div n \in Int /\ y \div n \in Int /\ x \div n <= y \div n
OBVIOUS

LEMMA LesserGrows ==
    ASSUME NEW F \in Int, NEW x \in Int, NEW y \in Int, x <= y
    PROVE  /\ Lesser(F, x) <= Lesser(F, y)
           /\ F - Lesser(y, F) <= F - Lesser(x, F)
BY DEF Lesser

\* c is no worse than d on anything the scorer weighs.
AtLeastAsGood(c, d) ==
    /\ c.latency <= d.latency /\ c.congestion <= d.congestion /\ c.capacity >= d.capacity
    /\ c.throughput >= d.throughput /\ c.speed >= d.speed /\ c.cost <= d.cost
    /\ d.link = "UP" => c.link = "UP"

LEMMA LiquidityGrows ==
    ASSUME NEW c \in Candidates, NEW d \in Candidates, NEW q \in Requests, Eligible(d, q),
           c.capacity >= d.capacity
    PROVE  Liquidity(d, q) <= Liquidity(c, q)
<1>1. c.capacity \in Nat /\ d.capacity \in Nat /\ q.amount \in Nat /\ q.amount > 0 /\ Full \in Nat
  BY CandidateType, FullType DEF Requests
<1>2. PICK x \in Int : x = (c.capacity - q.amount) * Full
  BY <1>1
<1>3. PICK y \in Int : y = (d.capacity - q.amount) * Full
  BY <1>1
<1>4. y <= x
  <2>1. PICK u \in Int : u = c.capacity - q.amount
    BY <1>1
  <2>2. PICK v \in Int : v = d.capacity - q.amount
    BY <1>1
  <2>3. v <= u
    BY <1>1, <2>1, <2>2
  <2>4. x = Full * u /\ y = Full * v
    BY <1>1, <1>2, <1>3, <2>1, <2>2
  <2> QED
    BY <1>1, <2>3, <2>4, ProductGrows
<1>5. PICK m \in Int : m = x \div q.amount
  BY <1>1
<1>6. PICK n \in Int : n = y \div q.amount
  BY <1>1
<1>7. n <= m
  BY <1>1, <1>4, <1>5, <1>6, DivisionGrows
<1>8. Lesser(Full, n) <= Lesser(Full, m)
  BY <1>1, <1>7, LesserGrows
<1> QED
  BY Zenon, <1>2, <1>3, <1>5, <1>6, <1>8 DEF Liquidity

LEMMA CostScoreGrows ==
    ASSUME NEW c \in Candidates, NEW d \in Candidates, NEW q \in Requests, c.cost <= d.cost
    PROVE  CostScore(d, q) <= CostScore(c, q)
<1>1. c.cost \in Nat /\ d.cost \in Nat /\ q.budget \in Nat /\ Full \in Nat
  BY CandidateType, FullType DEF Requests
<1>2. CASE q.budget = 0
  BY <1>1, <1>2 DEF CostScore
<1>3. CASE q.budget # 0
  <2>1. PICK x \in Int : x = c.cost * Full
    BY <1>1
  <2>2. PICK y \in Int : y = d.cost * Full
    BY <1>1
  <2>3. x = Full * c.cost /\ y = Full * d.cost
    BY <1>1, <2>1, <2>2
  <2>4. x <= y
    BY <1>1, <2>3, ProductGrows
  <2>5. PICK m \in Int : m = x \div q.budget
    BY <1>1, <1>3
  <2>6. PICK n \in Int : n = y \div q.budget
    BY <1>1, <1>3
  <2>7. m <= n
    BY <1>1, <1>3, <2>4, <2>5, <2>6, DivisionGrows
  <2>8. /\ CostScore(c, q) = IF m > Full THEN 0 ELSE Full - m
        /\ CostScore(d, q) = IF n > Full THEN 0 ELSE Full - n
    BY Zenon, <1>3, <2>1, <2>2, <2>5, <2>6 DEF CostScore
  <2> QED
    BY <1>1, <2>7, <2>8
<1> QED
  BY <1>2, <1>3

\* One term of the weighted sum.
LEMMA TermGrows ==
    ASSUME NEW w \in Nat, NEW x \in Int, NEW y \in Int, y <= x
    PROVE  \E a, b \in Int : a = w * x /\ b = w * y /\ b <= a
BY ProductGrows

\* A route that is no worse on any measure never scores lower, whatever the
\* weights and however the divisions of _components and rank round.
THEOREM ScoreIsMonotone ==
    ASSUME NEW c \in Candidates, NEW d \in Candidates, NEW q \in Requests,
           Eligible(c, q), Eligible(d, q), AtLeastAsGood(c, d)
    PROVE  Score(d, q) <= Score(c, q)
<1> DEFINE x1(e) == Full - Lesser(e.latency, Full)
           x2(e) == Full - e.congestion
           x3(e) == Liquidity(e, q)
           x4(e) == e.throughput
           x5(e) == e.speed
           x6(e) == CostScore(e, q)
           x7(e) == IF e.link = "UP" THEN Full ELSE 4000
           w1 == Weights["latency"]
           w2 == Weights["congestion"]
           w3 == Weights["liquidity"]
           w4 == Weights["throughput"]
           w5 == Weights["speed"]
           w6 == Weights["cost"]
           w7 == Weights["link"]
           s(e) == w1 * x1(e) + w2 * x2(e) + w3 * x3(e) + w4 * x4(e) + w5 * x5(e) + w6 * x6(e)
                     + w7 * x7(e)
<1>0. Full \in Nat /\ Full > 0 /\ 4000 \in 0..Full
  BY FullType, DegradedLink
<1>1. /\ c.latency \in Nat /\ d.latency \in Nat
      /\ c.congestion \in 0..Full /\ d.congestion \in 0..Full
      /\ c.throughput \in 0..Full /\ d.throughput \in 0..Full
      /\ c.speed \in 0..Full /\ d.speed \in 0..Full
  BY Zenon, CandidateType
<1>2. x1(c) \in Int /\ x1(d) \in Int /\ x1(d) <= x1(c)
  BY <1>0, <1>1 DEF Lesser, AtLeastAsGood
<1>3. x2(c) \in Int /\ x2(d) \in Int /\ x2(d) <= x2(c)
  BY <1>0, <1>1 DEF AtLeastAsGood
<1>4. x3(c) \in Int /\ x3(d) \in Int /\ x3(d) <= x3(c)
  <2>1. Liquidity(c, q) \in 0..Full /\ Liquidity(d, q) \in 0..Full
    BY Zenon, LiquidityType
  <2>2. Liquidity(d, q) <= Liquidity(c, q)
    BY Zenon, LiquidityGrows DEF AtLeastAsGood
  <2> QED
    BY <1>0, <2>1, <2>2
<1>5. /\ x4(c) \in Int /\ x4(d) \in Int /\ x4(d) <= x4(c)
      /\ x5(c) \in Int /\ x5(d) \in Int /\ x5(d) <= x5(c)
  BY <1>0, <1>1 DEF AtLeastAsGood
<1>6. x6(c) \in Int /\ x6(d) \in Int /\ x6(d) <= x6(c)
  <2>1. CostScore(c, q) \in 0..Full /\ CostScore(d, q) \in 0..Full
    BY Zenon, CostScoreType
  <2>2. CostScore(d, q) <= CostScore(c, q)
    BY Zenon, CostScoreGrows DEF AtLeastAsGood
  <2> QED
    BY <1>0, <2>1, <2>2
<1>7. x7(c) \in Int /\ x7(d) \in Int /\ x7(d) <= x7(c)
  BY <1>0 DEF AtLeastAsGood
<1>8. \A k \in Components : Weights[k] \in Nat
  BY WeightsAssumption
<1>9. /\ w1 \in Nat /\ w2 \in Nat /\ w3 \in Nat /\ w4 \in Nat /\ w5 \in Nat /\ w6 \in Nat
      /\ w7 \in Nat
  BY <1>8 DEF Components
<1>10. Score(c, q) = s(c) \div Full /\ Score(d, q) = s(d) \div Full
  BY DEF Score
<1> HIDE DEF x1, x2, x3, x4, x5, x6, x7, w1, w2, w3, w4, w5, w6, w7
<1>11. PICK a1, b1 \in Int : a1 = w1 * x1(c) /\ b1 = w1 * x1(d) /\ b1 <= a1
  BY <1>2, <1>9, TermGrows
<1>12. PICK a2, b2 \in Int : a2 = w2 * x2(c) /\ b2 = w2 * x2(d) /\ b2 <= a2
  BY <1>3, <1>9, TermGrows
<1>13. PICK a3, b3 \in Int : a3 = w3 * x3(c) /\ b3 = w3 * x3(d) /\ b3 <= a3
  BY <1>4, <1>9, TermGrows
<1>14. PICK a4, b4 \in Int : a4 = w4 * x4(c) /\ b4 = w4 * x4(d) /\ b4 <= a4
  BY <1>5, <1>9, TermGrows
<1>15. PICK a5, b5 \in Int : a5 = w5 * x5(c) /\ b5 = w5 * x5(d) /\ b5 <= a5
  BY <1>5, <1>9, TermGrows
<1>16. PICK a6, b6 \in Int : a6 = w6 * x6(c) /\ b6 = w6 * x6(d) /\ b6 <= a6
  BY <1>6, <1>9, TermGrows
<1>17. PICK a7, b7 \in Int : a7 = w7 * x7(c) /\ b7 = w7 * x7(d) /\ b7 <= a7
  BY <1>7, <1>9, TermGrows
<1>18. s(c) = a1 + a2 + a3 + a4 + a5 + a6 + a7 /\ s(d) = b1 + b2 + b3 + b4 + b5 + b6 + b7
  BY Zenon, <1>11, <1>12, <1>13, <1>14, <1>15, <1>16, <1>17 DEF s
<1> HIDE DEF s
<1>19. s(c) \in Int /\ s(d) \in Int /\ s(d) <= s(c)
  BY <1>11, <1>12, <1>13, <1>14, <1>15, <1>16, <1>17, <1>18
<1>20. s(d) \div Full <= s(c) \div Full
  BY <1>0, <1>19, DivisionGrows
<1> QED
  BY Zenon, <1>10, <1>20

\* A plan tries no route before one that is at least as good on every measure,
\* unless the two score the same and the worse one has the smaller identifier.
THEOREM DominantRoutesComeFirst ==
    ASSUME NEW candidates \in SUBSET Candidates, IsFiniteSet(candidates), NEW q \in Requests,
           \A x, y \in candidates : x.id = y.id => x = y,
           NEW c \in Ranked(candidates, q), NEW d \in Ranked(candidates, q), c # d,
           AtLeastAsGood(c, d),
           RankIn(d, candidates, q) < RankIn(c, candidates, q)
    PROVE  Score(c, q) = Score(d, q) /\ d.id < c.id
<1>1. c \in Candidates /\ d \in Candidates /\ Eligible(c, q) /\ Eligible(d, q)
      /\ c \in candidates /\ d \in candidates
  BY DEF Ranked
<1>2. Score(d, q) <= Score(c, q) /\ Score(c, q) \in 0..Full /\ Score(d, q) \in 0..Full
  BY Zenon, <1>1, ScoreIsMonotone, ScoreIsBasisPoints
<1>3. ~Before(c, d, q)
  <2> SUFFICES ASSUME Before(c, d, q) PROVE FALSE
    OBVIOUS
  <2>1. RankIn(c, candidates, q) < RankIn(d, candidates, q)
    BY Zenon, RankIsTotal
  <2>2. RankIn(c, candidates, q) \in Nat /\ RankIn(d, candidates, q) \in Nat
    <3> SUFFICES ASSUME NEW x PROVE RankIn(x, candidates, q) \in Nat
      OBVIOUS
    <3> DEFINE B == {e \in Ranked(candidates, q) : Before(e, x, q)}
    <3>1. B \subseteq candidates
      BY DEF Ranked
    <3>2. RankIn(x, candidates, q) = Cardinality(B) + 1
      BY DEF RankIn
    <3> HIDE DEF B
    <3>3. Cardinality(B) \in Nat
      BY <3>1, FS_Subset, FS_CardinalityType
    <3> QED
      BY <3>2, <3>3
  <2> QED
    BY <2>1, <2>2
<1>4. c.id \in Nat /\ d.id \in Nat /\ c.id # d.id
  BY <1>1, CandidateType
<1>5. Full \in Nat
  BY FullType
<1> QED
  BY <1>2, <1>3, <1>4, <1>5 DEF Before

-----------------------------------------------------------------------------
(* Costs.  What holds of a sum over the attempts is shown for the sum over  *)
(* the first k of them: a least k for which it fails cannot exist.          *)

USE LimitsAssumption

LEMMA LeastNumber ==
    ASSUME NEW T \in SUBSET Nat, T # {}
    PROVE  \E n \in T : \A m \in T : n <= m
<1> DEFINE R == OpToRel(<, Nat)
<1>1. IsWellFoundedOn(R, Nat)
  BY NatLessThanWellFounded, Zenon
<1>2. PICK n \in T : \A m \in T : ~(<<m, n>> \in R)
  <2> HIDE DEF R
  <2> QED
    BY <1>1, WFMin, Zenon
<1>3. \A m \in T : ~(m < n)
  BY <1>2, Zenon DEF OpToRel
<1> QED
  BY <1>3

\* s[n] is the cost of the first n attempts, for n up to k.
Sums(cost, s, k) ==
    /\ s \in [0..k -> Nat]
    /\ s[0] = 0
    /\ \A n \in 1..k : s[n] = s[n - 1] + cost[n]

(* The costs can be summed up.                                              *)
LEMMA SumsExist ==
    ASSUME NEW cost \in [Rtts -> Nat]
    PROVE  \E s : Sums(cost, s, MaxAttempts)
<1> DEFINE Has(k) == \E s : Sums(cost, s, k)
           T == {k \in 0..MaxAttempts : ~Has(k)}
<1>0. SUFFICES Has(MaxAttempts)
  BY Zenon
<1> HIDE DEF Has
<1>1. SUFFICES ASSUME T # {} PROVE FALSE
  BY MaxAttempts \in 0..MaxAttempts
<1>2. T \in SUBSET Nat
  OBVIOUS
<1>3. PICK n \in T : \A m \in T : n <= m
  <2> HIDE DEF T
  <2> QED
    BY <1>1, <1>2, LeastNumber
<1>4. n # 0
  <2>1. Sums(cost, [i \in 0..0 |-> 0], 0)
    BY DEF Sums
  <2>2. Has(0)
    BY <2>1 DEF Has
  <2> QED
    BY <1>3, <2>2
<1>5. n \in Nat /\ n - 1 \in 0..MaxAttempts /\ n \in Rtts /\ n - 1 \notin T
  BY <1>3, <1>4 DEF Rtts
<1>6. PICK s : Sums(cost, s, n - 1)
  <2>1. Has(n - 1)
    BY <1>5
  <2> QED
    BY <2>1 DEF Has
<1> DEFINE t == [i \in 0..n |-> IF i = n THEN s[n - 1] + cost[n] ELSE s[i]]
<1>7. cost[n] \in Nat /\ s \in [0..(n - 1) -> Nat] /\ s[0] = 0
  BY <1>5, <1>6 DEF Sums
<1>8. t \in [0..n -> Nat] /\ t[0] = 0
  BY <1>4, <1>5, <1>7
<1>9. ASSUME NEW i \in 1..n PROVE t[i] = t[i - 1] + cost[i]
  <2>1. CASE i = n
    BY <1>4, <1>5, <1>7, <2>1
  <2>2. CASE i # n
    <3>1. i \in 1..(n - 1) /\ i \in 0..n /\ i - 1 \in 0..n /\ i - 1 # n
      BY <1>5, <1>9, <2>2
    <3>2. s[i] = s[i - 1] + cost[i]
      BY <1>6, <3>1 DEF Sums
    <3> QED
      BY <2>2, <3>1, <3>2
  <2> QED
    BY <2>1, <2>2
<1>10. Sums(cost, t, n)
  <2> HIDE DEF t
  <2> QED
    BY <1>8, <1>9 DEF Sums
<1>11. Has(n)
  BY <1>10 DEF Has
<1> QED
  BY <1>3, <1>11

(* Total is the last of these sums.                                         *)
LEMMA TotalIsSum ==
    ASSUME NEW cost \in [Rtts -> Nat]
    PROVE  \E s : Sums(cost, s, MaxAttempts) /\ Total(cost) = s[MaxAttempts]
<1> DEFINE Adds(f) == f = [n \in 0..MaxAttempts |-> IF n = 0 THEN 0 ELSE f[n - 1] + cost[n]]
           sum == CHOOSE f : Adds(f)
<1>1. Total(cost) = sum[MaxAttempts]
  BY DEF Total
<1>2. PICK s : Sums(cost, s, MaxAttempts)
  BY SumsExist
<1>3. Adds(s)
  <2>1. s \in [0..MaxAttempts -> Nat] /\ s[0] = 0
    BY <1>2 DEF Sums
  <2>2. ASSUME NEW n \in 0..MaxAttempts
        PROVE  s[n] = IF n = 0 THEN 0 ELSE s[n - 1] + cost[n]
    BY <1>2 DEF Sums
  <2> QED
    BY <2>1, <2>2
<1>4. Adds(sum)
  <2> HIDE DEF Adds
  <2> QED
    BY <1>3, Zenon
<1>5. ASSUME NEW n \in 0..MaxAttempts
      PROVE  sum[n] = IF n = 0 THEN 0 ELSE sum[n - 1] + cost[n]
  <2> HIDE DEF sum
  <2> QED
    BY <1>4
<1> HIDE DEF Adds, sum
<1> DEFINE T == {k \in 0..MaxAttempts : sum[k] # s[k]}
<1>6. ASSUME T # {} PROVE FALSE
  <2>1. PICK n \in T : \A m \in T : n <= m
    <3>1. T \in SUBSET Nat
      OBVIOUS
    <3> HIDE DEF T
    <3> QED
      BY <1>6, <3>1, LeastNumber
  <2>2. n # 0
    BY <1>2, <1>5, <2>1 DEF Sums
  <2>3. n - 1 \in 0..MaxAttempts /\ n - 1 \notin T /\ n \in 1..MaxAttempts
    BY <2>1, <2>2
  <2>4. sum[n] = sum[n - 1] + cost[n] /\ s[n] = s[n - 1] + cost[n] /\ sum[n - 1] = s[n - 1]
    BY <1>2, <1>5, <2>2, <2>3 DEF Sums
  <2> QED
    BY <2>1, <2>4
<1>7. MaxAttempts \in 0..MaxAttempts
  OBVIOUS
<1> QED
  BY <1>1, <1>2, <1>6, <1>7

(* Charging one attempt at most d more raises the total by at most d.       *)
LEMMA TotalGrows ==
    ASSUME NEW cost \in [Rtts -> Nat], NEW next \in [Rtts -> Nat],
           NEW n \in Rtts, NEW d \in Nat, next[n] <= cost[n] + d,
           \A m \in Rtts : m # n => next[m] = cost[m]
    PROVE  Total(next) <= Total(cost) + d /\ Total(cost) \in Nat /\ Total(next) \in Nat
<1>1. PICK s : Sums(cost, s, MaxAttempts) /\ Total(cost) = s[MaxAttempts]
  BY TotalIsSum
<1>2. PICK t : Sums(next, t, MaxAttempts) /\ Total(next) = t[MaxAttempts]
  BY TotalIsSum
<1> DEFINE more(k) == IF k < n THEN 0 ELSE d
           T == {k \in 0..MaxAttempts : ~(t[k] <= s[k] + more(k))}
<1>3. \A k \in 0..MaxAttempts : s[k] \in Nat /\ t[k] \in Nat
  BY <1>1, <1>2 DEF Sums
<1>4. ASSUME T # {} PROVE FALSE
  <2>1. PICK k \in T : \A m \in T : k <= m
    <3>1. T \in SUBSET Nat
      OBVIOUS
    <3> HIDE DEF T
    <3> QED
      BY <1>4, <3>1, LeastNumber
  <2>2. k # 0
    BY <1>1, <1>2, <2>1 DEF Sums, Rtts
  <2>3. k - 1 \in 0..MaxAttempts /\ k - 1 \notin T /\ k \in Rtts
    BY <2>1, <2>2 DEF Rtts
  <2>4. s[k] = s[k - 1] + cost[k] /\ t[k] = t[k - 1] + next[k]
    BY Zenon, <1>1, <1>2, <2>3 DEF Sums, Rtts
  <2>5. s[k - 1] \in Nat /\ t[k - 1] \in Nat /\ cost[k] \in Nat /\ next[k] \in Nat
    BY <1>3, <2>3
  <2>6. more(k - 1) \in Nat /\ more(k) \in Nat /\ next[k] + more(k - 1) <= cost[k] + more(k)
    <3>1. CASE k < n
      BY <2>3, <2>5, <3>1 DEF Rtts
    <3>2. CASE k = n
      BY <2>3, <2>5, <3>2 DEF Rtts
    <3>3. CASE k > n
      BY <2>3, <2>5, <3>3 DEF Rtts
    <3> QED
      BY <2>3, <3>1, <3>2, <3>3 DEF Rtts
  <2> HIDE DEF more
  <2>7. t[k - 1] <= s[k - 1] + more(k - 1) /\ ~(t[k] <= s[k] + more(k))
    BY <2>1, <2>3
  <2> HIDE DEF T
  <2> QED
    BY <2>4, <2>5, <2>6, <2>7
<1>5. MaxAttempts \in 0..MaxAttempts /\ n <= MaxAttempts
  BY DEF Rtts
<1>6. t[MaxAttempts] <= s[MaxAttempts] + d
  <2>1. more(MaxAttempts) = d
    BY <1>5 DEF Rtts
  <2> HIDE DEF more
  <2> QED
    BY <1>4, <1>5, <2>1
<1> QED
  BY <1>1, <1>2, <1>3, <1>5, <1>6

(* With nothing charged the total is zero.                                  *)
LEMMA TotalOfNothing ==
    ASSUME NEW cost \in [Rtts -> Nat], \A n \in Rtts : cost[n] = 0
    PROVE  Total(cost) = 0
<1>1. PICK s : Sums(cost, s, MaxAttempts) /\ Total(cost) = s[MaxAttempts]
  BY TotalIsSum
<1> DEFINE T == {k \in 0..MaxAttempts : s[k] # 0}
<1>2. ASSUME T # {} PROVE FALSE
  <2>1. PICK k \in T : \A m \in T : k <= m
    <3>1. T \in SUBSET Nat
      OBVIOUS
    <3> HIDE DEF T
    <3> QED
      BY <1>2, <3>1, LeastNumber
  <2>2. k # 0
    BY <1>1, <2>1 DEF Sums
  <2>3. k - 1 \in 0..MaxAttempts /\ k - 1 \notin T /\ k \in Rtts
    BY <2>1, <2>2 DEF Rtts
  <2>4. s[k] = s[k - 1] + cost[k] /\ s[k - 1] = 0
    BY <1>1, <2>3 DEF Sums, Rtts
  <2> QED
    BY <2>1, <2>3, <2>4
<1> QED
  BY <1>1, <1>2

AttemptCosts == [n \in Rtts |-> attempt[n].cost]

(* A step that charges attempt n at most what it adds to the plan.          *)
LEMMA ChargedStep ==
    ASSUME CostsAreCounted, attempt \in [Rtts -> Attempts], attempt' \in [Rtts -> Attempts],
           NEW n \in Rtts, NEW d \in Nat, plan.spent \in Nat,
           attempt'[n].cost <= attempt[n].cost + d, plan'.spent = plan.spent + d,
           \A m \in Rtts : m # n => attempt'[m] = attempt[m]
    PROVE  CostsAreCounted'
<1> DEFINE cost == AttemptCosts
           next == [m \in Rtts |-> attempt'[m].cost]
<1>1. cost \in [Rtts -> Nat] /\ next \in [Rtts -> Nat]
  BY DEF Attempts, AttemptCosts
<1>2. next[n] <= cost[n] + d /\ \A m \in Rtts : m # n => next[m] = cost[m]
  BY DEF AttemptCosts
<1>3. Total(cost) <= plan.spent
  BY DEF CostsAreCounted, AttemptCosts
<1>4. CostsAreCounted' <=> Total(next) <= plan'.spent
  BY DEF CostsAreCounted
<1> HIDE DEF cost, next
<1>5. Total(next) <= Total(cost) + d /\ Total(cost) \in Nat /\ Total(next) \in Nat
  BY Zenon, <1>1, <1>2, TotalGrows
<1> QED
  BY <1>3, <1>4, <1>5

\* Every cost that was reported is in the plan's routing_cost_spent_minor, for
\* any number of attempts and of concurrent, late or repeated reports.
THEOREM NoCostIsLost == Spec => []CostsAreCounted
<1>1. Init => CostsAreCounted
  <2> SUFFICES ASSUME Init PROVE CostsAreCounted
    OBVIOUS
  <2>1. AttemptCosts \in [Rtts -> Nat] /\ \A n \in Rtts : AttemptCosts[n] = 0
    BY DEF Init, AbsentAttempt, AttemptCosts
  <2>2. Total(AttemptCosts) = 0
    BY <2>1, TotalOfNothing
  <2>3. plan.spent = 0
    BY DEF Init, AbsentPlan
  <2> QED
    BY <2>2, <2>3 DEF CostsAreCounted, AttemptCosts
<1>2. IInv /\ CostsAreCounted /\ [Next]_vars => CostsAreCounted'
  <2> SUFFICES ASSUME IInv, CostsAreCounted, [Next]_vars PROVE CostsAreCounted'
    OBVIOUS
  <2>0. attempt \in [Rtts -> Attempts] /\ plan \in Plans /\ plan.spent \in Nat
    BY DEF IInv, TypeOK, Plans
  <2>1. CASE UNCHANGED <<plan, attempt>>
    BY <2>1 DEF CostsAreCounted
  <2>2. CASE BuildPlan
    <3>1. plan.spent = 0 /\ plan'.spent = 0 /\ UNCHANGED attempt
      BY <2>2 DEF BuildPlan, IInv, BlankUntilWritten, AbsentPlan
    <3> QED
      BY <3>1 DEF CostsAreCounted
  <2>3. ASSUME NEW c \in Callers, CommitStart(c) PROVE CostsAreCounted'
    <3> DEFINE n == plan.used + 1
    <3>1. /\ n \in Rtts /\ attempt' \in [Rtts -> Attempts]
          /\ \A m \in Rtts : m # n => attempt'[m] = attempt[m]
      BY <2>3, CommitStartEffect
    <3>2. call[c].plan = plan
      BY <2>3 DEF CommitStart, IInv, ReadsAreVersioned
    <3>3. PICK r \in Routes :
            /\ plan' = PlanAfterStart(plan, r)
            /\ attempt' = [attempt EXCEPT ![n] = [state |-> "CREATED", route |-> r, cost |-> 0]]
      BY Zenon, <2>3, <3>2 DEF CommitStart
    <3>4. plan'.spent = plan.spent + 0
      BY <2>0, <3>3, StartFields
    <3>5. attempt'[n].cost = 0 /\ attempt[n].cost \in Nat
      BY <2>0, <3>1, <3>3 DEF Attempts
    <3> HIDE DEF n
    <3>6. attempt'[n].cost <= attempt[n].cost + 0
      BY <3>5
    <3> QED
      BY <2>0, <3>1, <3>4, <3>6, ChargedStep
  <2>4. ASSUME NEW c \in Callers, CommitTransition(c) PROVE CostsAreCounted'
    <3> DEFINE n == call[c].rtt
               d == call[c].cost
    <3>1. /\ n \in Rtts /\ attempt' \in [Rtts -> Attempts] /\ plan'.spent = plan.spent + d
          /\ \A m \in Rtts : m # n => attempt'[m] = attempt[m]
      BY <2>4, CommitTransitionEffect
    <3>2. d \in Nat
      BY DEF IInv, TypeOK, Calls
    <3>3. attempt'[n].cost = d /\ attempt[n].cost \in Nat
      BY <2>0, <2>4, <3>1 DEF CommitTransition, Attempts
    <3> HIDE DEF n, d
    <3>4. attempt'[n].cost <= attempt[n].cost + d
      BY <3>2, <3>3
    <3> QED
      BY <2>0, <3>1, <3>2, <3>4, ChargedStep
  <2> QED
    BY <2>1, <2>2, <2>3, <2>4, OtherStepsRead DEF TableStep
<1> QED
  BY <1>1, <1>2, InvariantHolds, PTL DEF Spec

HIDE LimitsAssumption

-----------------------------------------------------------------------------
\* What the progress of a call says of the bindings since it began.
Vouched(c) ==
    /\ inactive[c] \cap active = {}
    /\ checking[c] = "beneficiary" => "payer" \notin inactive[c]
    /\ checking[c] = "both valid" => inactive[c] = {}
    /\ call[c].at = "start" => inactive[c] = {}
    /\ checking[c] # "none" => call[c].at = "idle"

PartnerInv == PartnerTypeOK /\ \A c \in Callers : Vouched(c)

-----------------------------------------------------------------------------
(* Implementation of ExecutionPlan *)

LEMMA StepImplements == [PartnerNext]_allVars => [Next]_vars
<1> SUFFICES ASSUME [PartnerNext]_allVars PROVE [Next]_vars
  OBVIOUS
<1>1. CASE Plan
  BY <1>1 DEF Plan, Next
<1>2. CASE \E p \in Parties : SetBindingStatus(p)
  BY <1>2 DEF SetBindingStatus
<1>3. ASSUME NEW c \in Callers, EnterStart(c) \/ ValidateEndpoint(c)
      PROVE  UNCHANGED vars
  BY <1>3 DEF EnterStart, ValidateEndpoint, Raise
<1>4. ASSUME NEW c \in Callers, ReadPlanToStart(c) PROVE [Next]_vars
  BY Zenon, <1>4 DEF ReadPlanToStart, Raise, Next, Begin
<1>5. ASSUME NEW c \in Callers, Continue(c) \/ Record(c) \/ Resolve(c) PROVE Next
  BY <1>5 DEF Continue, Record, Resolve, Next, Begin
<1>6. CASE UNCHANGED allVars
  BY <1>6 DEF allVars
<1> QED
  BY <1>1, <1>2, <1>3, <1>4, <1>5, <1>6 DEF PartnerNext, Steps

\* With its validations start_next still implements the plan's specification, so
\* every theorem about ExecutionPlan holds of it.
THEOREM PartnerImplementsPlan == PartnerSpec => Spec
<1>1. PartnerInit => Init
  BY DEF PartnerInit
<1> QED
  BY <1>1, StepImplements, PTL DEF PartnerSpec, Spec

\* So the tables support each other whatever happens to the bindings.
THEOREM PartnerInvariant == PartnerSpec => []IInv
BY PartnerImplementsPlan, InvariantHolds, PTL

\* And no cost is lost.
THEOREM PartnerCosts == PartnerSpec => []CostsAreCounted
BY PartnerImplementsPlan, NoCostIsLost, PTL

\* And decided plans, succeeded and failed attempts never change.
THEOREM PartnerFinality == PartnerSpec => OutcomesAreFinal
BY PartnerImplementsPlan, Finality, PTL

\* And the plan keeps to one route at a time.
THEOREM PartnerRefinement == PartnerSpec => ImplementsRouteByRoute
BY PartnerImplementsPlan, Refinement, PTL

-----------------------------------------------------------------------------
(* Starts see active bindings *)

(* Only start_next brings a call to the point where it opens an attempt.    *)
LEMMA ProceedMoves ==
    ASSUME TypeOK, NEW c \in Callers, Proceed(c)
    PROVE  /\ call[c].at # "idle" /\ call'[c].at # "start"
           /\ \A e \in Callers : e # c => call'[e] = call[e]
<1>1. call \in [Callers -> Calls]
  BY DEF TypeOK
<1>2. CASE CommitStart(c) \/ StartConflict(c) \/ CommitTransition(c) \/ TransitionConflict(c)
  <2>1. call[c].at # "idle" /\ call' = [call EXCEPT ![c] = Idle]
    BY <1>2 DEF CommitStart, StartConflict, CommitTransition, TransitionConflict
  <2> QED
    BY <1>1, <2>1 DEF Idle
<1>3. CASE ReadPlan(c)
  BY <1>1, <1>3 DEF ReadPlan, Idle, Calls
<1> QED
  BY <1>2, <1>3 DEF Proceed

LEMMA ReadMoves ==
    ASSUME TypeOK, NEW c \in Callers,
           RecordFailure(c) \/ RecordSuccess(c) \/ ResolveReconciliation(c)
    PROVE  /\ call'[c].at = "attempt_read"
           /\ \A e \in Callers : e # c => call'[e] = call[e]
<1>1. ASSUME NEW op, NEW n, NEW verdict, NEW cost, NEW state,
             ReadAttempt(c, op, n, verdict, cost, state)
      PROVE  /\ call'[c].at = "attempt_read"
             /\ \A e \in Callers : e # c => call'[e] = call[e]
  <2> DEFINE k == [Idle EXCEPT !.at = "attempt_read", !.op = op, !.rtt = n,
                               !.verdict = verdict, !.cost = cost]
  <2>1. k.at = "attempt_read"
    BY DEF Idle
  <2>2. call \in [Callers -> Calls] /\ call' = [call EXCEPT ![c] = k]
    BY <1>1 DEF TypeOK, ReadAttempt
  <2> HIDE DEF k
  <2> QED
    BY <2>1, <2>2
<1> QED
  BY <1>1, Zenon DEF RecordFailure, RecordSuccess, ResolveReconciliation

LEMMA StartMoves ==
    ASSUME TypeOK, NEW c \in Callers, StartNext(c)
    PROVE  \A e \in Callers : e # c => call'[e] = call[e]
BY DEF TypeOK, StartNext

LEMMA RaiseKeeps ==
    ASSUME PartnerInv, NEW c \in Callers, Raise(c) PROVE PartnerInv'
<1>1. /\ checking' = [checking EXCEPT ![c] = "none"]
      /\ inactive' = [inactive EXCEPT ![c] = {}]
      /\ UNCHANGED <<call, active, changes>>
  BY DEF Raise, vars
<1>2. PartnerTypeOK'
  BY Zenon, <1>1 DEF PartnerInv, PartnerTypeOK
<1>3. ASSUME NEW e \in Callers PROVE Vouched(e)'
  BY Zenon, <1>1, <1>3 DEF PartnerInv, PartnerTypeOK, Vouched
<1> QED
  BY <1>2, <1>3 DEF PartnerInv

LEMMA PartnerStep == TypeOK /\ PartnerInv /\ [PartnerNext]_allVars => PartnerInv'
<1> SUFFICES ASSUME TypeOK, PartnerInv, [PartnerNext]_allVars PROVE PartnerInv'
  OBVIOUS
<1>0. /\ active \subseteq Parties /\ changes \in 0..MaxChanges
      /\ checking \in [Callers -> Parties \cup {"none", "both valid"}]
      /\ inactive \in [Callers -> SUBSET Parties]
      /\ \A e \in Callers : Vouched(e)
  BY Zenon DEF PartnerInv, PartnerTypeOK
<1>1. CASE Plan \/ UNCHANGED allVars
  <2>1. UNCHANGED <<call, active, checking, inactive, changes>>
    BY Zenon, <1>1 DEF Plan, BuildPlan, allVars, vars, partnerVars
  <2> QED
    <3>1. PartnerTypeOK'
      BY Zenon, <1>0, <2>1 DEF PartnerTypeOK
    <3>2. ASSUME NEW e \in Callers PROVE Vouched(e)'
      BY Zenon, <1>0, <2>1 DEF Vouched
    <3> QED
      BY <3>1, <3>2 DEF PartnerInv
<1>2. ASSUME NEW p \in Parties, SetBindingStatus(p) PROVE PartnerInv'
  <2>1. /\ changes' \in 0..MaxChanges /\ UNCHANGED <<call, checking>>
    <3>1. changes < MaxChanges /\ changes' = changes + 1
      BY <1>2 DEF SetBindingStatus
    <3>2. UNCHANGED <<call, checking>>
      BY <1>2 DEF SetBindingStatus, vars
    <3>3. changes \in 0..MaxChanges
      BY Zenon, <1>0
    <3>4. changes' \in 0..MaxChanges
      BY <3>1, <3>3, ChangesAssumption
    <3> QED
      BY <3>2, <3>4
  <2>2. CASE active' = active \ {p} /\ UNCHANGED inactive
    BY Zenon, <1>0, <2>1, <2>2 DEF PartnerInv, PartnerTypeOK, Vouched
  <2>3. CASE /\ active' = active \cup {p}
             /\ inactive' = [c \in Callers |-> inactive[c] \ {p}]
    <3>1. PartnerTypeOK'
      BY Zenon, <1>0, <2>1, <2>3 DEF PartnerTypeOK
    <3>2. ASSUME NEW e \in Callers PROVE Vouched(e)'
      <4>1. inactive'[e] = inactive[e] \ {p} /\ Vouched(e)
        BY Zenon, <1>0, <2>3
      <4> QED
        BY Zenon, <2>1, <2>3, <4>1 DEF Vouched
    <3> QED
      BY <3>1, <3>2 DEF PartnerInv
  <2> QED
    BY <1>2, <2>2, <2>3 DEF SetBindingStatus
<1>3. ASSUME NEW c \in Callers, EnterStart(c) PROVE PartnerInv'
  <2>1. /\ checking' = [checking EXCEPT ![c] = "payer"]
        /\ inactive' = [inactive EXCEPT ![c] = Parties \ active]
        /\ UNCHANGED <<call, active, changes>> /\ call[c].at = "idle"
    BY <1>3 DEF EnterStart, Outside, vars
  <2>2. PartnerTypeOK'
    BY Zenon, <1>0, <2>1 DEF PartnerTypeOK, Parties
  <2>3. ASSUME NEW e \in Callers PROVE Vouched(e)'
    BY Zenon, <1>0, <2>1, <2>3 DEF Vouched
  <2> QED
    BY <2>2, <2>3 DEF PartnerInv
<1>4. ASSUME NEW c \in Callers, ValidateEndpoint(c) PROVE PartnerInv'
  <2>1. CASE Raise(c)
    BY <2>1, RaiseKeeps
  <2>2. CASE ~Raise(c)
    <3>1. /\ checking[c] \in Parties /\ checking[c] \in active
          /\ checking' = [checking EXCEPT ![c] = After(checking[c])]
          /\ UNCHANGED <<call, active, inactive, changes>>
      BY <1>4, <2>2 DEF ValidateEndpoint, vars
    <3>2. PartnerTypeOK'
      BY Zenon, <1>0, <3>1 DEF PartnerTypeOK, After, Parties
    <3>3. ASSUME NEW e \in Callers PROVE Vouched(e)'
      <4>1. CASE e # c
        BY Zenon, <1>0, <3>1, <4>1 DEF Vouched
      <4>2. CASE e = c
        <5>1. Vouched(c) /\ checking'[c] = After(checking[c]) /\ inactive[c] \subseteq Parties
          BY Zenon, <1>0, <3>1
        <5> QED
          BY Zenon, <3>1, <4>2, <5>1 DEF Vouched, After, Parties
      <4> QED
        BY <4>1, <4>2
    <3> QED
      BY <3>2, <3>3 DEF PartnerInv
  <2> QED
    BY <2>1, <2>2
<1>5. ASSUME NEW c \in Callers, ReadPlanToStart(c) PROVE PartnerInv'
  <2>1. CASE Raise(c)
    BY <2>1, RaiseKeeps
  <2>2. CASE ~Raise(c)
    <3>1. /\ checking[c] = "both valid" /\ StartNext(c)
          /\ checking' = [checking EXCEPT ![c] = "none"]
          /\ UNCHANGED <<active, inactive, changes>>
      BY Zenon, <1>5, <2>2 DEF ReadPlanToStart
    <3>2. PartnerTypeOK'
      BY Zenon, <1>0, <3>1 DEF PartnerTypeOK
    <3>3. ASSUME NEW e \in Callers PROVE Vouched(e)'
      BY Zenon, <1>0, <3>1, StartMoves DEF Vouched
    <3> QED
      BY <3>2, <3>3 DEF PartnerInv
  <2> QED
    BY <2>1, <2>2
<1>6. ASSUME NEW c \in Callers, Continue(c) PROVE PartnerInv'
  <2>1. /\ Proceed(c) /\ inactive' = [inactive EXCEPT ![c] = {}]
        /\ UNCHANGED <<active, checking, changes>>
    BY <1>6 DEF Continue
  <2>2. PartnerTypeOK'
    BY Zenon, <1>0, <2>1 DEF PartnerTypeOK
  <2>3. ASSUME NEW e \in Callers PROVE Vouched(e)'
    BY Zenon, <1>0, <2>1, ProceedMoves DEF Vouched
  <2> QED
    BY <2>2, <2>3 DEF PartnerInv
<1>7. ASSUME NEW c \in Callers, Record(c) \/ Resolve(c) PROVE PartnerInv'
  <2>1. /\ checking[c] = "none" /\ UNCHANGED partnerVars
        /\ call'[c].at = "attempt_read" /\ \A e \in Callers : e # c => call'[e] = call[e]
    BY <1>7, ReadMoves DEF Record, Resolve, Outside
  <2>2. PartnerTypeOK'
    BY Zenon, <1>0, <2>1 DEF PartnerTypeOK, partnerVars
  <2>3. ASSUME NEW e \in Callers PROVE Vouched(e)'
    BY Zenon, <1>0, <2>1 DEF Vouched, partnerVars
  <2> QED
    BY <2>2, <2>3 DEF PartnerInv
<1> QED
  BY <1>1, <1>2, <1>3, <1>4, <1>5, <1>6, <1>7 DEF PartnerNext, Steps

\* No call of start_next opens an attempt on a binding that was inactive ever
\* since the call began.
THEOREM StartsAreVouched == PartnerSpec => []StartsSawActiveBindings
<1>1. PartnerInit => PartnerInv
  BY ChangesAssumption DEF PartnerInit, Init, Idle, PartnerInv, PartnerTypeOK, Vouched
<1>2. PartnerInv => StartsSawActiveBindings
  BY Zenon DEF PartnerInv, Vouched, StartsSawActiveBindings
<1>3. IInv => TypeOK
  BY DEF IInv
<1> QED
  BY <1>1, <1>2, <1>3, PartnerStep, PartnerInvariant, PTL DEF PartnerSpec
=============================================================================
