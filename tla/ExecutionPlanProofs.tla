------------------------ MODULE ExecutionPlanProofs ------------------------
(* Proofs that ExecutionPlan keeps its safety properties and implements    *)
(* RouteByRoute, for any number of routes, attempts and concurrent calls.  *)
EXTENDS ExecutionPlan, TLAPS

USE RoutesAssumption, LimitsAssumption

-----------------------------------------------------------------------------
(* Facts about the operators *)

\* A plan with fields replaced by values of their types is a plan.
LEMMA ReplaceStart ==
    ASSUME NEW p \in Plans, NEW rem \in SUBSET Routes,
           NEW u \in 0..MaxAttempts, NEW v \in Nat
    PROVE  [p EXCEPT !.remaining = rem, !.used = u, !.current = u,
                     !.version = v] \in Plans
BY Zenon DEF Plans

\* The plan start_next writes is a plan.
LEMMA StartWritesAPlan ==
    ASSUME NEW p \in Plans, MayStart(p), NEW r \in Routes
    PROVE  PlanAfterStart(p, r) \in Plans
<1>1. p.remaining \ {r} \in SUBSET Routes
  BY DEF Plans
<1>2. p.used + 1 \in 0..MaxAttempts /\ p.version + 1 \in Nat
  BY DEF Plans, MayStart
<1> QED
  BY Zenon, <1>1, <1>2, ReplaceStart DEF PlanAfterStart

\* The status an outcome leads to is a status other than "ABSENT".
LEMMA OutcomeStatus ==
    ASSUME NEW p \in Plans, NEW v \in Verdicts, NEW spent \in Nat
    PROVE  StatusAfter(p, v, spent) \in PlanStatus \ {"ABSENT"}
BY DEF StatusAfter, Verdicts, Dispositions, PlanStatus

\* The plan an outcome writes is a plan.
LEMMA OutcomeWritesAPlan ==
    ASSUME NEW k \in Calls, k.rtt \in Rtts, NEW r \in Routes \cup {NoRoute}
    PROVE  PlanAfterOutcome(k, r) \in Plans
<1> DEFINE p == k.plan
           spent == p.spent + k.cost
           status == StatusAfter(p, k.verdict, spent)
           failures == IF k.verdict = "SUCCESS" THEN p.failures
                       ELSE p.failures \cup {<<k.rtt, k.verdict>>}
           current == CurrentAfter(k.rtt, k.verdict)
           successful == IF k.verdict = "SUCCESS" THEN r ELSE p.successful
           version == p.version + 1
<1>1. p \in Plans /\ k.verdict \in Verdicts
  BY DEF Calls
<1>2. spent \in Nat /\ version \in Nat
  BY DEF Calls, Plans
<1>3. status \in PlanStatus
  BY <1>1, <1>2, OutcomeStatus
<1>4. failures \in SUBSET (Rtts \X Dispositions)
  BY <1>1 DEF Verdicts, Plans
<1>5. current \in 0..MaxAttempts /\ k.rtt \in 0..MaxAttempts
  BY DEF CurrentAfter, Rtts, None
<1>6. successful \in Routes \cup {NoRoute}
  BY <1>1 DEF Plans
<1>7. PlanAfterOutcome(k, r) =
        [p EXCEPT !.status = status, !.failures = failures, !.spent = spent,
                  !.current = current, !.previous = k.rtt,
                  !.successful = successful, !.version = version]
  BY DEF PlanAfterOutcome
<1> HIDE DEF p, spent, status, failures, current, successful, version
<1>8. [p EXCEPT !.status = status, !.failures = failures, !.spent = spent,
                !.current = current, !.previous = k.rtt,
                !.successful = successful, !.version = version] \in Plans
  BY Zenon, <1>1, <1>2, <1>3, <1>4, <1>5, <1>6 DEF Plans
<1> QED
  BY <1>7, <1>8

\* The fields of the plan start_next writes.
LEMMA StartFields ==
    ASSUME NEW p \in Plans, NEW r \in Routes
    PROVE  LET q == PlanAfterStart(p, r) IN
             /\ q.status = p.status /\ q.remaining = p.remaining \ {r}
             /\ q.used = p.used + 1 /\ q.spent = p.spent
             /\ q.current = p.used + 1 /\ q.previous = p.previous
             /\ q.successful = p.successful /\ q.version = p.version + 1
BY DEF PlanAfterStart, Plans

\* The fields of the plan an outcome writes.
LEMMA OutcomeFields ==
    ASSUME NEW k \in Calls, NEW r \in Routes \cup {NoRoute}
    PROVE  LET q == PlanAfterOutcome(k, r) IN
             /\ q.status = StatusAfter(k.plan, k.verdict, k.plan.spent + k.cost)
             /\ q.remaining = k.plan.remaining /\ q.used = k.plan.used
             /\ q.spent = k.plan.spent + k.cost
             /\ q.current = CurrentAfter(k.rtt, k.verdict)
             /\ q.previous = k.rtt
             /\ q.successful = IF k.verdict = "SUCCESS" THEN r
                               ELSE k.plan.successful
             /\ q.version = k.plan.version + 1
<1>1. k.plan \in Plans
  BY DEF Calls
<1> QED
  BY <1>1 DEF PlanAfterOutcome, Plans

\* The null records have their types.
LEMMA NullRecords == AbsentPlan \in Plans /\ AbsentAttempt \in Attempts /\ Idle \in Calls
<1>1. AbsentPlan \in Plans
  BY DEF AbsentPlan, Plans, PlanStatus, None
<1>2. AbsentAttempt \in Attempts
  BY DEF AbsentAttempt, Attempts, AttemptState
<1>3. Idle \in Calls
  BY <1>1 DEF Idle, Calls, Verdicts, None
<1> QED
  BY <1>1, <1>2, <1>3

-----------------------------------------------------------------------------
(* IInv is an inductive invariant *)

\* The empty store satisfies the invariant.
LEMMA InitInv == Init => IInv
<1> SUFFICES ASSUME Init PROVE IInv
  OBVIOUS
<1>1. TypeOK
  BY NullRecords DEF Init, TypeOK
<1>2. /\ OneOpenAttempt /\ RetryOnlyAfterFailure /\ FinalizedBySuccess
      /\ RouteTriedOnce /\ ActiveCanStart /\ PlanAgreesWithAttempt
  BY DEF Init, OneOpenAttempt, RetryOnlyAfterFailure, FinalizedBySuccess,
         RouteTriedOnce, ActiveCanStart, PlanAgreesWithAttempt, AbsentPlan,
         AbsentAttempt, OpenStates, Rtts, None
<1>3. ReadsAreVersioned /\ BlankUntilWritten
  BY DEF Init, ReadsAreVersioned, BlankUntilWritten, Idle, AbsentAttempt
<1> QED
  BY <1>1, <1>2, <1>3 DEF IInv

\* A step that only moves a caller keeps the invariant if the caller's new
\* record is well typed and still describes what was read.
LEMMA ReadOnlyStep ==
    ASSUME IInv, UNCHANGED <<plan, attempt>>, call' \in [Callers -> Calls],
           ReadsAreVersioned'
    PROVE  IInv'
BY DEF IInv, TypeOK, OneOpenAttempt, RetryOnlyAfterFailure,
       FinalizedBySuccess, RouteTriedOnce, ActiveCanStart, MayStart,
       PlanAgreesWithAttempt, BlankUntilWritten

\* A caller that returns or raises is idle; the others keep what they read.
LEMMA BackToIdle ==
    ASSUME IInv, NEW c \in Callers, UNCHANGED <<plan, attempt>>,
           call' = [call EXCEPT ![c] = Idle]
    PROVE  IInv'
<1>1. call' \in [Callers -> Calls]
  BY NullRecords DEF IInv, TypeOK
<1>2. ReadsAreVersioned'
  BY DEF IInv, TypeOK, ReadsAreVersioned, Idle, MayStart
<1> QED
  BY <1>1, <1>2, ReadOnlyStep

\* start_next reads the plan.
LEMMA StartNextInv ==
    ASSUME IInv, NEW c \in Callers, StartNext(c)
    PROVE  IInv'
<1> DEFINE k == [Idle EXCEPT !.at = "start", !.plan = plan]
<1>1. k \in Calls /\ k.at = "start" /\ k.plan = plan
  BY Zenon, NullRecords DEF Calls, IInv, TypeOK
<1>2. call' = [call EXCEPT ![c] = k]
  BY DEF StartNext
<1> HIDE DEF k
<1>3. call' \in [Callers -> Calls]
  BY <1>1, <1>2 DEF IInv, TypeOK
<1>4. ReadsAreVersioned'
  BY <1>1, <1>2 DEF StartNext, IInv, TypeOK, ReadsAreVersioned, Plans, MayStart
<1> QED
  BY <1>3, <1>4, ReadOnlyStep DEF StartNext

\* record_failure, record_success and resolve_reconciliation read the attempt.
LEMMA ReadAttemptInv ==
    ASSUME IInv, NEW c \in Callers, NEW op \in {"record", "resolve"},
           NEW n \in Rtts, NEW v \in Verdicts, NEW cost \in Nat,
           NEW state, ReadAttempt(c, op, n, v, cost, state)
    PROVE  IInv'
<1> DEFINE k == [Idle EXCEPT !.at = "attempt_read", !.op = op, !.rtt = n,
                             !.verdict = v, !.cost = cost]
<1>0. n \in 0..MaxAttempts
  BY DEF Rtts
<1>1. k \in Calls /\ k.at = "attempt_read" /\ k.rtt = n
  BY Zenon, <1>0, NullRecords DEF Calls
<1>2. call' = [call EXCEPT ![c] = k]
  BY DEF ReadAttempt
<1> HIDE DEF k
<1>3. call' \in [Callers -> Calls]
  BY <1>1, <1>2 DEF IInv, TypeOK
<1>4. ReadsAreVersioned'
  BY <1>1, <1>2 DEF ReadAttempt, IInv, TypeOK, ReadsAreVersioned, MayStart
<1> QED
  BY <1>3, <1>4, ReadOnlyStep DEF ReadAttempt

\* The same methods read the plan.
LEMMA ReadPlanInv ==
    ASSUME IInv, NEW c \in Callers, ReadPlan(c)
    PROVE  IInv'
<1>1. CASE call' = [call EXCEPT ![c] = Idle]
  BY Zenon, <1>1, BackToIdle DEF ReadPlan
<1>2. CASE call' = [call EXCEPT ![c] = [@ EXCEPT !.at = "plan_read", !.plan = plan]]
  <2> DEFINE k == [call[c] EXCEPT !.at = "plan_read", !.plan = plan]
  <2>0. call[c] \in Calls /\ plan \in Plans
    BY DEF IInv, TypeOK
  <2>1. k \in Calls /\ k.at = "plan_read" /\ k.plan = plan /\ k.rtt = call[c].rtt
    BY Zenon, <2>0 DEF Calls
  <2>2. call' = [call EXCEPT ![c] = k]
    BY <1>2
  <2>3. call[c].rtt \in Rtts
    BY DEF ReadPlan, IInv, ReadsAreVersioned
  <2> HIDE DEF k
  <2>4. call' \in [Callers -> Calls]
    BY <2>1, <2>2 DEF IInv, TypeOK
  <2>5. plan.version \in Nat /\ UNCHANGED <<plan, attempt>>
    BY <2>0 DEF Plans, ReadPlan
  <2>6. call'[c] = k /\ \A d \in Callers : d # c => call'[d] = call[d]
    BY <2>2 DEF IInv, TypeOK
  <2>7. ReadsAreVersioned'
    BY <2>1, <2>3, <2>5, <2>6 DEF IInv, ReadsAreVersioned, MayStart
  <2> QED
    BY <2>4, <2>5, <2>7, ReadOnlyStep
<1> QED
  BY Zenon, <1>1, <1>2 DEF ReadPlan

\* build_plan writes a plan that can start.
LEMMA BuildPlanInv ==
    ASSUME IInv, BuildPlan
    PROVE  IInv'
<1>1. PICK eligible \in SUBSET {r \in Routes : EstimatedCost[r] <= Budget} :
        /\ eligible # {}
        /\ plan' = [AbsentPlan EXCEPT !.status = "ACTIVE",
                                      !.remaining = eligible, !.version = 1]
  BY Zenon DEF BuildPlan
<1>2. plan = AbsentPlan /\ UNCHANGED <<attempt, call>>
  BY DEF BuildPlan, IInv, BlankUntilWritten
<1>3. /\ plan' \in Plans
      /\ plan'.status = "ACTIVE" /\ plan'.remaining = eligible
      /\ plan'.used = 0 /\ plan'.spent = 0 /\ plan'.current = None
      /\ plan'.version = 1
  <2>1. eligible \in SUBSET Routes /\ "ACTIVE" \in PlanStatus
    BY <1>1 DEF PlanStatus
  <2>2. plan' \in Plans
    BY Zenon, <1>1, <2>1, NullRecords DEF Plans
  <2> QED
    BY <1>1, <2>2 DEF AbsentPlan, None
<1>4. TypeOK'
  BY <1>2, <1>3 DEF IInv, TypeOK
<1>5. \A n \in Rtts : attempt'[n] = attempt[n] /\ attempt[n].state = "ABSENT"
  BY <1>2 DEF IInv, RetryOnlyAfterFailure, AbsentPlan, Rtts
<1>6. MayStart(plan')
  BY <1>1, <1>3 DEF MayStart, Affordable, BudgetLeft
<1>7. ReadsAreVersioned'
  <2>1. AbsentPlan.version = 0 /\ AbsentPlan.status = "ABSENT"
    BY DEF AbsentPlan
  <2>2. \A d \in Callers : call'[d] = call[d] /\ call[d].plan.version \in Nat
    BY <1>2 DEF IInv, TypeOK, Calls, Plans
  <2> QED
    BY <1>2, <1>3, <2>1, <2>2 DEF IInv, ReadsAreVersioned, MayStart
<1>8. /\ OneOpenAttempt' /\ RetryOnlyAfterFailure' /\ FinalizedBySuccess'
      /\ RouteTriedOnce' /\ PlanAgreesWithAttempt'
  BY <1>3, <1>5 DEF OneOpenAttempt, RetryOnlyAfterFailure, FinalizedBySuccess,
     RouteTriedOnce, PlanAgreesWithAttempt, OpenStates, None, Rtts
<1>9. ActiveCanStart' /\ BlankUntilWritten'
  BY <1>2, <1>3, <1>5, <1>6
  DEF IInv, ActiveCanStart, BlankUntilWritten, MayStart
<1> QED
  BY <1>4, <1>7, <1>8, <1>9 DEF IInv

\* What commit_start does: it opens attempt used + 1 on a route that was left,
\* and every attempt before is FAILED.
LEMMA CommitStartEffect ==
    ASSUME IInv, NEW c \in Callers, CommitStart(c)
    PROVE  LET n == plan.used + 1 IN
           /\ MayStart(plan) /\ plan \in Plans /\ plan' \in Plans
           /\ n \in Rtts /\ plan.used \in 0..MaxAttempts /\ plan.version \in Nat
           /\ attempt[n].state = "ABSENT"
           /\ \A m \in Rtts : m <= plan.used => attempt[m].state = "FAILED"
           /\ plan'.status = "ACTIVE" /\ plan'.used = n /\ plan'.current = n
           /\ plan'.successful = plan.successful
           /\ plan'.version = plan.version + 1
           /\ attempt' \in [Rtts -> Attempts]
           /\ attempt'[n].state = "CREATED"
           /\ \A m \in Rtts : m # n => attempt'[m] = attempt[m]
           /\ attempt'[n].route \in Routes \cap plan.remaining
           /\ plan'.remaining = plan.remaining \ {attempt'[n].route}
           /\ call' = [call EXCEPT ![c] = Idle]
<1> DEFINE n == plan.used + 1
           a(r) == [state |-> "CREATED", route |-> r, cost |-> 0]
<1>1. call[c].plan = plan /\ MayStart(plan) /\ plan \in Plans
  BY DEF CommitStart, IInv, TypeOK, ReadsAreVersioned
<1>2. n \in Rtts /\ plan.used \in 0..MaxAttempts /\ plan.version \in Nat
  BY <1>1 DEF MayStart, Plans, Rtts
<1>3. PICK r \in Routes :
        /\ Selected(plan, r)
        /\ plan' = PlanAfterStart(plan, r)
        /\ attempt' = [attempt EXCEPT ![n] = a(r)]
  BY Zenon, <1>1 DEF CommitStart
<1>4. call' = [call EXCEPT ![c] = Idle] /\ attempt[n].state = "ABSENT"
  BY <1>1 DEF CommitStart
<1>5. plan' \in Plans
  BY <1>1, <1>3, StartWritesAPlan
<1>6. /\ plan'.status = "ACTIVE" /\ plan'.remaining = plan.remaining \ {r}
      /\ plan'.used = n /\ plan'.current = n
      /\ plan'.successful = plan.successful
      /\ plan'.version = plan.version + 1
  BY <1>1, <1>3, StartFields DEF MayStart
<1>7. /\ attempt' \in [Rtts -> Attempts]
      /\ attempt'[n].state = "CREATED" /\ attempt'[n].route = r
      /\ \A m \in Rtts : m # n => attempt'[m] = attempt[m]
  BY <1>2, <1>3 DEF IInv, TypeOK, Attempts, AttemptState
<1>8. r \in plan.remaining
  BY <1>3 DEF Selected, Affordable
<1>9. \A m \in Rtts : m <= plan.used => attempt[m].state = "FAILED"
  <2> SUFFICES ASSUME NEW m \in Rtts, m <= plan.used
               PROVE  attempt[m].state = "FAILED"
    OBVIOUS
  <2>1. plan.status = "ACTIVE" /\ plan.current # m
    BY <1>1 DEF MayStart, None, Rtts
  <2>2. attempt[m].state \notin OpenStates /\ attempt[m].state # "SUCCEEDED"
    BY <2>1 DEF IInv, OneOpenAttempt, FinalizedBySuccess
  <2>3. attempt[m].state # "ABSENT"
    BY <1>2 DEF IInv, RetryOnlyAfterFailure, Rtts
  <2>4. attempt[m].state \in AttemptState
    BY DEF IInv, TypeOK, Attempts
  <2> QED
    BY <2>2, <2>3, <2>4 DEF AttemptState, OpenStates
<1> HIDE DEF n, a
<1> QED
  BY <1>1, <1>2, <1>4, <1>5, <1>6, <1>7, <1>8, <1>9 DEF n

\* commit_start keeps the invariant.
LEMMA CommitStartInv ==
    ASSUME IInv, NEW c \in Callers, CommitStart(c)
    PROVE  IInv'
<1> DEFINE n == plan.used + 1
           r == attempt'[n].route
<1>1. MayStart(plan) /\ plan \in Plans /\ attempt[n].state = "ABSENT"
  BY CommitStartEffect
<1>2. n \in Rtts /\ plan.used \in 0..MaxAttempts /\ plan.version \in Nat
  BY CommitStartEffect
<1>4. call' = [call EXCEPT ![c] = Idle]
  BY CommitStartEffect
<1>5. plan' \in Plans
  BY CommitStartEffect
<1>6. /\ plan'.status = "ACTIVE" /\ plan'.remaining = plan.remaining \ {r}
      /\ plan'.used = n /\ plan'.current = n
      /\ plan'.version = plan.version + 1
  BY CommitStartEffect
<1>7. /\ attempt' \in [Rtts -> Attempts]
      /\ attempt'[n].state = "CREATED" /\ attempt'[n].route = r
      /\ \A m \in Rtts : m # n => attempt'[m] = attempt[m]
  BY CommitStartEffect
<1>8. r \in plan.remaining /\ r \in Routes
  BY CommitStartEffect
<1>9. \A m \in Rtts : m <= plan.used => attempt[m].state = "FAILED"
  BY CommitStartEffect
<1> HIDE DEF r
<1>10. TypeOK'
  BY <1>4, <1>5, <1>7, NullRecords DEF IInv, TypeOK
<1>16. ASSUME NEW m \in Rtts
       PROVE  \/ m = n /\ attempt'[m].state = "CREATED" /\ ~(m < n) /\ ~(m > n)
              \/ m # n /\ m < n /\ ~(m > n) /\ attempt'[m].state = "FAILED"
              \/ m # n /\ m > n /\ ~(m < n) /\ attempt'[m].state = "ABSENT"
  <2>1. m > plan.used => attempt[m].state = "ABSENT"
    BY DEF IInv, RetryOnlyAfterFailure
  <2>2. CASE m = n
    BY <1>2, <1>7, <2>2 DEF Rtts
  <2>3. CASE m < n
    <3>1. m # n /\ ~(m > n) /\ m <= plan.used
      BY <1>2, <2>3 DEF Rtts
    <3> QED
      BY <1>7, <1>9, <2>3, <3>1
  <2>4. CASE m > n
    <3>1. m # n /\ ~(m < n) /\ m > plan.used
      BY <1>2, <2>4 DEF Rtts
    <3> QED
      BY <1>7, <2>1, <2>4, <3>1
  <2> QED
    BY <1>2, <2>2, <2>3, <2>4 DEF Rtts
<1>11. OneOpenAttempt' /\ RetryOnlyAfterFailure'
  <2> HIDE DEF n
  <2> QED
    BY Zenon, <1>6, <1>16 DEF OneOpenAttempt, RetryOnlyAfterFailure, OpenStates
<1>12. FinalizedBySuccess' /\ PlanAgreesWithAttempt'
  <2>1. \A m \in Rtts : attempt'[m].state \in {"CREATED", "FAILED", "ABSENT"}
    BY <1>16
  <2> QED
    BY <1>6, <2>1 DEF FinalizedBySuccess, PlanAgreesWithAttempt
<1>13. RouteTriedOnce'
  <2>2. \A m \in Rtts : m # n => attempt[m].route # r
    BY <1>8, RoutesAssumption DEF IInv, RouteTriedOnce, BlankUntilWritten
  <2>3. \A m \in Rtts : m # n /\ attempt[m].state # "ABSENT" =>
          attempt[m].route \notin plan'.remaining
    BY <1>6 DEF IInv, RouteTriedOnce
  <2>4. r \notin plan'.remaining
    BY <1>6
  <2>5. \A m, k \in Rtts : m # n /\ k # n /\ attempt[m].state # "ABSENT"
                               /\ attempt[k].route = attempt[m].route => m = k
    BY DEF IInv, RouteTriedOnce
  <2> HIDE DEF n
  <2> QED
    BY Zenon, <1>2, <1>7, <2>2, <2>3, <2>4, <2>5 DEF RouteTriedOnce
<1>14. ActiveCanStart' /\ BlankUntilWritten'
  <2>1. n # None
    BY <1>2 DEF Rtts, None
  <2>2. ActiveCanStart'
    BY <1>6, <2>1 DEF ActiveCanStart
  <2>3. r # NoRoute
    BY <1>8, RoutesAssumption
  <2>4. \A m \in Rtts : attempt[m].state = "ABSENT" <=> attempt[m].route = NoRoute
    BY DEF IInv, BlankUntilWritten
  <2> HIDE DEF n
  <2>5. ASSUME NEW m \in Rtts
        PROVE  attempt'[m].state = "ABSENT" <=> attempt'[m].route = NoRoute
    BY <1>7, <2>3, <2>4
  <2> QED
    BY <1>6, <2>2, <2>5 DEF BlankUntilWritten
<1>15. ReadsAreVersioned'
  <2>1. call'[c] = Idle /\ \A d \in Callers : d # c => call'[d] = call[d]
    BY <1>4 DEF IInv, TypeOK
  <2>2. \A d \in Callers : call[d].plan.version \in Nat
    BY DEF IInv, TypeOK, Calls, Plans
  <2> QED
    BY <1>2, <1>6, <2>1, <2>2 DEF IInv, ReadsAreVersioned, Idle, MayStart
<1> QED
  BY <1>10, <1>11, <1>12, <1>13, <1>14, <1>15 DEF IInv

\* What the outcome of each verdict is.
LEMMA OutcomeByVerdict ==
    ASSUME NEW p, NEW v \in Verdicts, NEW spent, NEW n \in Rtts
    PROVE  /\ v = "SUCCESS" => /\ StatusAfter(p, v, spent) = "FINALIZED"
                               /\ StateAfter(v) = "SUCCEEDED"
                               /\ CurrentAfter(n, v) = None
           /\ v = "RECONCILIATION_REQUIRED" =>
                 /\ StatusAfter(p, v, spent) = "RECONCILIATION_REQUIRED"
                 /\ StateAfter(v) = "RECONCILIATION_REQUIRED"
                 /\ CurrentAfter(n, v) = n
           /\ v \in {"TERMINAL", "RETRYABLE"} =>
                 /\ StatusAfter(p, v, spent) \in {"FAILED", "EXHAUSTED", "ACTIVE"}
                 /\ StatusAfter(p, v, spent) = "ACTIVE" => ~Exhausted(p, spent)
                 /\ StateAfter(v) = "FAILED"
                 /\ CurrentAfter(n, v) = None
BY DEF StatusAfter, StateAfter, CurrentAfter, Verdicts, Dispositions

\* What commit_transition does: it closes the current attempt, the last one,
\* or marks it ambiguous; every other attempt is FAILED or does not exist yet.
LEMMA CommitTransitionEffect ==
    ASSUME IInv, NEW c \in Callers, CommitTransition(c)
    PROVE  LET n == call[c].rtt
               spent == plan.spent + call[c].cost
           IN
           /\ n \in Rtts /\ n = plan.used /\ plan.current = n
           /\ plan \in Plans /\ plan' \in Plans
           /\ plan.used \in 0..MaxAttempts /\ plan.version \in Nat
           /\ attempt[n].state \in OpenStates /\ attempt[n].route \in Routes
           /\ \A m \in Rtts : m # n => attempt[m].state \in {"FAILED", "ABSENT"}
           /\ plan'.used = plan.used /\ plan'.remaining = plan.remaining
           /\ plan'.spent = spent /\ plan'.previous = n
           /\ plan'.version = plan.version + 1
           /\ attempt' \in [Rtts -> Attempts]
           /\ attempt'[n].route = attempt[n].route
           /\ \A m \in Rtts : m # n => attempt'[m] = attempt[m]
           /\ \/ /\ plan'.status = "FINALIZED" /\ plan'.current = None
                 /\ attempt'[n].state = "SUCCEEDED"
                 /\ plan'.successful = attempt[n].route
              \/ /\ plan'.status = "RECONCILIATION_REQUIRED" /\ plan'.current = n
                 /\ attempt'[n].state = "RECONCILIATION_REQUIRED"
                 /\ plan'.successful = plan.successful
              \/ /\ plan'.status \in {"FAILED", "EXHAUSTED", "ACTIVE"}
                 /\ plan'.status = "ACTIVE" => ~Exhausted(plan, spent)
                 /\ plan'.current = None /\ attempt'[n].state = "FAILED"
                 /\ plan'.successful = plan.successful
           /\ call' = [call EXCEPT ![c] = Idle]
<1> DEFINE k == call[c]
           n == k.rtt
           v == k.verdict
           spent == plan.spent + k.cost
<1>1. /\ k \in Calls /\ n \in Rtts /\ v \in Verdicts /\ plan \in Plans
      /\ k.plan = plan /\ plan.current = n /\ k.cost \in Nat /\ spent \in Nat
      /\ plan.version \in Nat /\ plan.used \in 0..MaxAttempts
  BY DEF CommitTransition, TransitionAllowed, IInv, TypeOK, ReadsAreVersioned,
         Calls, Plans
<1>2. attempt[n] \in Attempts /\ attempt[n].route \in Routes
  BY <1>1 DEF IInv, TypeOK, Attempts, OneOpenAttempt, BlankUntilWritten, OpenStates
<1>3. plan' = PlanAfterOutcome(k, attempt[n].route)
  BY DEF CommitTransition
<1>4. plan' \in Plans
  BY <1>1, <1>2, <1>3, OutcomeWritesAPlan
<1>5. /\ plan'.status = StatusAfter(plan, v, spent)
      /\ plan'.remaining = plan.remaining /\ plan'.used = plan.used
      /\ plan'.spent = spent /\ plan'.current = CurrentAfter(n, v)
      /\ plan'.previous = n
      /\ plan'.successful = IF v = "SUCCESS" THEN attempt[n].route ELSE plan.successful
      /\ plan'.version = plan.version + 1
  BY <1>1, <1>2, <1>3, OutcomeFields
<1>6. StateAfter(v) \in AttemptState
  BY Zenon, <1>1, OutcomeByVerdict DEF AttemptState, Verdicts, Dispositions
<1>7. /\ attempt' \in [Rtts -> Attempts]
      /\ attempt'[n].state = StateAfter(v)
      /\ attempt'[n].route = attempt[n].route
      /\ \A m \in Rtts : m # n => attempt'[m] = attempt[m]
  <2> DEFINE b == [attempt[n] EXCEPT !.state = StateAfter(v), !.cost = k.cost]
  <2>1. b \in Attempts /\ b.state = StateAfter(v) /\ b.route = attempt[n].route
    BY Zenon, <1>1, <1>2, <1>6 DEF Attempts
  <2>2. attempt' = [attempt EXCEPT ![n] = b]
    BY DEF CommitTransition
  <2> HIDE DEF b
  <2> QED
    BY <1>1, <2>1, <2>2 DEF IInv, TypeOK
<1>8. call' = [call EXCEPT ![c] = Idle]
  BY DEF CommitTransition
<1>9. \A m \in Rtts : m # n => attempt[m].state \notin OpenStates
  BY <1>1 DEF IInv, OneOpenAttempt
<1>10. attempt[n].state \in OpenStates /\ n = plan.used
  BY <1>1 DEF IInv, OneOpenAttempt, RetryOnlyAfterFailure, OpenStates, Rtts
<1>11. \A m \in Rtts : m # n => attempt[m].state \in {"FAILED", "ABSENT"}
  BY <1>1, <1>10 DEF IInv, RetryOnlyAfterFailure, Rtts
<1> HIDE DEF k, n, v, spent
<1>12. \/ /\ plan'.status = "FINALIZED" /\ plan'.current = None
          /\ attempt'[n].state = "SUCCEEDED"
          /\ plan'.successful = attempt[n].route
       \/ /\ plan'.status = "RECONCILIATION_REQUIRED" /\ plan'.current = n
          /\ attempt'[n].state = "RECONCILIATION_REQUIRED"
          /\ plan'.successful = plan.successful
       \/ /\ plan'.status \in {"FAILED", "EXHAUSTED", "ACTIVE"}
          /\ plan'.status = "ACTIVE" => ~Exhausted(plan, spent)
          /\ plan'.current = None /\ attempt'[n].state = "FAILED"
          /\ plan'.successful = plan.successful
  <2>1. v = "SUCCESS" \/ v = "RECONCILIATION_REQUIRED" \/ v \in {"TERMINAL", "RETRYABLE"}
    BY <1>1 DEF Verdicts, Dispositions
  <2> QED
    BY <1>1, <1>5, <1>7, <2>1, OutcomeByVerdict
<1> QED
  BY <1>1, <1>2, <1>4, <1>5, <1>7, <1>8, <1>10, <1>11, <1>12 DEF k, n, spent

\* commit_transition keeps the invariant.
LEMMA CommitTransitionInv ==
    ASSUME IInv, NEW c \in Callers, CommitTransition(c)
    PROVE  IInv'
<1> DEFINE n == call[c].rtt
           spent == plan.spent + call[c].cost
<1>1. /\ n \in Rtts /\ n = plan.used /\ plan.current = n
      /\ plan.used \in 0..MaxAttempts /\ plan.version \in Nat
  BY CommitTransitionEffect
<1>2. attempt[n].state \in OpenStates /\ attempt[n].route \in Routes
  BY CommitTransitionEffect
<1>3. \A m \in Rtts : m # n => attempt[m].state \in {"FAILED", "ABSENT"}
  BY CommitTransitionEffect
<1>5. /\ plan' \in Plans
      /\ plan'.used = plan.used /\ plan'.remaining = plan.remaining
      /\ plan'.spent = spent /\ plan'.previous = n
      /\ plan'.version = plan.version + 1
  BY CommitTransitionEffect
<1>7. /\ attempt' \in [Rtts -> Attempts]
      /\ attempt'[n].route = attempt[n].route
      /\ \A m \in Rtts : m # n => attempt'[m] = attempt[m]
  BY CommitTransitionEffect
<1>8. call' = [call EXCEPT ![c] = Idle]
  BY CommitTransitionEffect
<1>12. \/ /\ plan'.status = "FINALIZED" /\ plan'.current = None
          /\ attempt'[n].state = "SUCCEEDED"
          /\ plan'.successful = attempt[n].route
       \/ /\ plan'.status = "RECONCILIATION_REQUIRED" /\ plan'.current = n
          /\ attempt'[n].state = "RECONCILIATION_REQUIRED"
       \/ /\ plan'.status \in {"FAILED", "EXHAUSTED", "ACTIVE"}
          /\ plan'.status = "ACTIVE" => ~Exhausted(plan, spent)
          /\ plan'.current = None /\ attempt'[n].state = "FAILED"
  BY CommitTransitionEffect
<1> HIDE DEF n, spent
<1>13. TypeOK'
  BY <1>5, <1>7, <1>8, NullRecords DEF IInv, TypeOK
<1>14. OneOpenAttempt'
  <2>1. \A m \in Rtts : m # n => attempt'[m].state \notin OpenStates
    BY <1>3, <1>7 DEF OpenStates
  <2>2. attempt'[n].state \in OpenStates <=> plan'.current = n
    BY <1>1, <1>12 DEF OpenStates, None, Rtts
  <2>3. plan'.current \in {n, None}
    BY <1>12
  <2> QED
    BY <1>1, <2>1, <2>2, <2>3 DEF OneOpenAttempt, None, Rtts
<1>15. RetryOnlyAfterFailure'
  BY <1>1, <1>5, <1>7, <1>12 DEF IInv, RetryOnlyAfterFailure, Rtts
<1>16. FinalizedBySuccess' /\ PlanAgreesWithAttempt'
  BY <1>1, <1>3, <1>5, <1>7, <1>12 DEF FinalizedBySuccess, PlanAgreesWithAttempt
<1>17. RouteTriedOnce'
  BY <1>1, <1>2, <1>5, <1>7 DEF IInv, RouteTriedOnce, OpenStates
<1>18. ActiveCanStart' /\ BlankUntilWritten'
  <2>1. ActiveCanStart'
    BY <1>1, <1>5, <1>12, RoutesAssumption DEF ActiveCanStart, MayStart, Exhausted, None, Rtts
  <2>2. BlankUntilWritten'
    BY <1>1, <1>2, <1>7, <1>12, RoutesAssumption DEF IInv, BlankUntilWritten
  <2> QED
    BY <2>1, <2>2
<1>19. ReadsAreVersioned'
  <2>1. call'[c] = Idle /\ \A d \in Callers : d # c => call'[d] = call[d]
    BY <1>8 DEF IInv, TypeOK
  <2>2. \A d \in Callers : call[d].plan.version \in Nat
    BY DEF IInv, TypeOK, Calls, Plans
  <2> QED
    BY <1>1, <1>5, <2>1, <2>2 DEF IInv, ReadsAreVersioned, Idle, MayStart
<1> QED
  BY <1>13, <1>14, <1>15, <1>16, <1>17, <1>18, <1>19 DEF IInv

-----------------------------------------------------------------------------
(* Theorems *)

\* Every step of the service keeps the invariant.
LEMMA StepInv == IInv /\ [Next]_vars => IInv'
<1> SUFFICES ASSUME IInv, [Next]_vars PROVE IInv'
  OBVIOUS
<1>1. CASE UNCHANGED vars
  BY <1>1, ReadOnlyStep DEF vars, IInv, TypeOK, ReadsAreVersioned, MayStart
<1>2. CASE BuildPlan
  BY <1>2, BuildPlanInv
<1>3. ASSUME NEW c \in Callers, Begin(c) PROVE IInv'
  <2>1. CASE StartNext(c)
    BY <2>1, StartNextInv
  <2>2. CASE RecordFailure(c)
    BY <2>2, ReadAttemptInv DEF RecordFailure, Verdicts
  <2>3. CASE RecordSuccess(c)
    BY <2>3, ReadAttemptInv DEF RecordSuccess, Verdicts
  <2>4. CASE ResolveReconciliation(c)
    BY <2>4, ReadAttemptInv DEF ResolveReconciliation, Verdicts, Dispositions
  <2> QED
    BY <1>3, <2>1, <2>2, <2>3, <2>4 DEF Begin
<1>4. ASSUME NEW c \in Callers, Proceed(c) PROVE IInv'
  <2>1. CASE CommitStart(c)
    BY <2>1, CommitStartInv
  <2>2. CASE StartConflict(c)
    BY Zenon, <2>2, BackToIdle DEF StartConflict
  <2>3. CASE ReadPlan(c)
    BY <2>3, ReadPlanInv
  <2>4. CASE CommitTransition(c)
    BY <2>4, CommitTransitionInv
  <2>5. CASE TransitionConflict(c)
    BY Zenon, <2>5, BackToIdle DEF TransitionConflict
  <2> QED
    BY <1>4, <2>1, <2>2, <2>3, <2>4, <2>5 DEF Proceed
<1> QED
  BY <1>1, <1>2, <1>3, <1>4 DEF Next, Done

\* The inductive invariant holds throughout every execution of the service.
THEOREM InvariantHolds == Spec => []IInv
BY InitInv, StepInv, PTL DEF Spec

\* Every row and every call of the service has its type.
THEOREM TypeCorrect == Spec => []TypeOK
<1>1. IInv => TypeOK
  BY DEF IInv
<1> QED
  BY <1>1, InvariantHolds, PTL

\* At most one RTT is open, the one current_rtt_id names, for any number of
\* concurrent callers, routes and attempts.
THEOREM AtMostOneOpen == Spec => []OneOpenAttempt
<1>1. IInv => OneOpenAttempt
  BY DEF IInv
<1> QED
  BY <1>1, InvariantHolds, PTL

\* start_next never opens a route after an ambiguous or a successful attempt.
THEOREM NoBlindRetry == Spec => []RetryOnlyAfterFailure
<1>1. IInv => RetryOnlyAfterFailure
  BY DEF IInv
<1> QED
  BY <1>1, InvariantHolds, PTL

\* A plan is FINALIZED by exactly the attempt that succeeded.
THEOREM FinalityHasASuccess == Spec => []FinalizedBySuccess
<1>1. IInv => FinalizedBySuccess
  BY DEF IInv
<1> QED
  BY <1>1, InvariantHolds, PTL

\* No route is attempted twice.
THEOREM NoRouteTwice == Spec => []RouteTriedOnce
<1>1. IInv => RouteTriedOnce
  BY DEF IInv
<1> QED
  BY <1>1, InvariantHolds, PTL

\* No plan is left ACTIVE with nothing in flight and no route to start.
THEOREM NoStuckPlan == Spec => []ActiveCanStart
<1>1. IInv => ActiveCanStart
  BY DEF IInv
<1> QED
  BY <1>1, InvariantHolds, PTL

-----------------------------------------------------------------------------
(* Finality and refinement *)

\* A step of the service as the tables see it.
TableStep ==
    \/ UNCHANGED <<plan, attempt>>
    \/ BuildPlan
    \/ \E c \in Callers : CommitStart(c) \/ CommitTransition(c)

\* The steps other than the two commits and build_plan only read.
LEMMA OtherStepsRead == ASSUME [Next]_vars PROVE TableStep
BY Zenon DEF TableStep, Next, Begin, Proceed, Done, vars, StartNext, RecordFailure, RecordSuccess,
       ResolveReconciliation, ReadAttempt, StartConflict, ReadPlan, TransitionConflict

\* Neither commit touches a confirmed outcome.
LEMMA OutcomesStay ==
    ASSUME IInv, TableStep
    PROVE  /\ plan.status \in TerminalStatus => UNCHANGED <<plan, attempt>>
           /\ \A n \in Rtts : attempt[n].state \in {"FAILED", "SUCCEEDED"} =>
                 attempt'[n] = attempt[n]
<1> DEFINE A == /\ plan.status \in TerminalStatus => UNCHANGED <<plan, attempt>>
                /\ \A n \in Rtts : attempt[n].state \in {"FAILED", "SUCCEEDED"} =>
                      attempt'[n] = attempt[n]
<1>1. CASE UNCHANGED <<plan, attempt>>
  BY <1>1
<1>2. CASE BuildPlan
  BY <1>2 DEF BuildPlan, TerminalStatus
<1>3. ASSUME NEW c \in Callers, CommitStart(c) PROVE A
  <2>1. MayStart(plan) /\ attempt[plan.used + 1].state = "ABSENT"
    BY <1>3, CommitStartEffect
  <2>2. \A m \in Rtts : m # plan.used + 1 => attempt'[m] = attempt[m]
    BY <1>3, CommitStartEffect
  <2> QED
    BY <2>1, <2>2 DEF MayStart, TerminalStatus
<1>4. ASSUME NEW c \in Callers, CommitTransition(c) PROVE A
  <2>1. /\ call[c].rtt \in Rtts /\ attempt[call[c].rtt].state \in OpenStates
        /\ \A m \in Rtts : m # call[c].rtt => attempt'[m] = attempt[m]
    BY <1>4, CommitTransitionEffect
  <2>2. plan.status \in {"ACTIVE", "RECONCILIATION_REQUIRED"}
    BY <2>1 DEF IInv, PlanAgreesWithAttempt, OpenStates
  <2> QED
    BY <2>1, <2>2 DEF OpenStates, TerminalStatus
<1> QED
  BY <1>1, <1>2, <1>3, <1>4 DEF TableStep

\* No call, however late or stale, changes a confirmed outcome.
THEOREM Finality == Spec => OutcomesAreFinal
<1> DEFINE A == /\ plan.status \in TerminalStatus => UNCHANGED <<plan, attempt>>
                /\ \A n \in Rtts : attempt[n].state \in {"FAILED", "SUCCEEDED"} =>
                      attempt'[n] = attempt[n]
<1>1. ASSUME IInv, [Next]_vars PROVE A
  BY <1>1, OutcomesStay, OtherStepsRead
<1>2. IInv /\ [Next]_vars => [A]_vars
  BY <1>1
<1> QED
  BY <1>2, InvariantHolds, PTL DEF Spec, OutcomesAreFinal

\* commit_start opens one route of the contract.
LEMMA StartRefines ==
    ASSUME IInv, NEW c \in Callers, CommitStart(c)
    PROVE  \E r \in Routes : Contract!OpenRoute(r)
<1> DEFINE n == plan.used + 1
           r == attempt'[n].route
<1>1. /\ MayStart(plan) /\ n \in Rtts /\ plan.used \in 0..MaxAttempts
      /\ attempt[n].state = "ABSENT"
      /\ plan'.status = "ACTIVE" /\ plan'.used = n /\ plan'.current = n
      /\ plan'.successful = plan.successful
  BY CommitStartEffect
<1>2. /\ attempt'[n].state = "CREATED"
      /\ \A m \in Rtts : m # n => attempt'[m] = attempt[m]
      /\ r \in Routes /\ r \in plan.remaining
  BY CommitStartEffect
<1>3. Verdict = "undecided" /\ Verdict' = "undecided"
  BY <1>1 DEF Verdict, MayStart
<1>4. CarryingRoutes = {} /\ CarryingRoutes' = {r}
  <2>1. \A m \in Rtts : attempt[m].state \notin OpenStates
    BY <1>1 DEF IInv, OneOpenAttempt, MayStart, None, Rtts
  <2>2. \A m \in Rtts : attempt'[m].state \in OpenStates <=> m = n
    BY <1>1, <1>2, <2>1 DEF OpenStates
  <2> QED
    BY <1>1, <2>1, <2>2 DEF CarryingRoutes
<1>5. r \notin TriedRoutes
  BY <1>2 DEF IInv, RouteTriedOnce, TriedRoutes
<1> HIDE DEF r
<1>6. TriedRoutes' = TriedRoutes \cup {r}
  <2>1. \A m \in Rtts : attempt'[m].state # "ABSENT" <=>
                           m = n \/ attempt[m].state # "ABSENT"
    BY <1>1, <1>2
  <2>2. attempt'[n].route = r
    BY DEF r
  <2> QED
    BY <1>1, <1>2, <2>1, <2>2 DEF TriedRoutes
<1>7. plan.used < MaxAttempts
  BY <1>1 DEF MayStart
<1> QED
  BY <1>1, <1>2, <1>3, <1>4, <1>5, <1>6, <1>7 DEF Contract!OpenRoute

\* commit_transition confirms a failure or a success of the carrying route, or
\* marks it ambiguous, which the contract does not see.
LEMMA TransitionRefines ==
    ASSUME IInv, NEW c \in Callers, CommitTransition(c)
    PROVE  [Contract!Next]_Contract!abstractVars
<1> DEFINE n == call[c].rtt
<1>1. /\ n \in Rtts /\ plan.current = n /\ plan'.used = plan.used
      /\ attempt[n].state \in OpenStates /\ attempt[n].route \in Routes
      /\ attempt'[n].route = attempt[n].route
      /\ \A m \in Rtts : m # n => attempt'[m] = attempt[m]
  BY CommitTransitionEffect
<1>2. \/ /\ plan'.status = "FINALIZED" /\ plan'.current = None
         /\ attempt'[n].state = "SUCCEEDED"
         /\ plan'.successful = attempt[n].route
      \/ /\ plan'.status = "RECONCILIATION_REQUIRED" /\ plan'.current = n
         /\ attempt'[n].state = "RECONCILIATION_REQUIRED"
         /\ plan'.successful = plan.successful
      \/ /\ plan'.status \in {"FAILED", "EXHAUSTED", "ACTIVE"}
         /\ plan'.current = None /\ attempt'[n].state = "FAILED"
         /\ plan'.successful = plan.successful
  BY CommitTransitionEffect
<1> HIDE DEF n
<1>3. TriedRoutes' = TriedRoutes
  <2>1. \A m \in Rtts : /\ attempt'[m].state # "ABSENT" <=> attempt[m].state # "ABSENT"
                        /\ attempt'[m].route = attempt[m].route
    BY <1>1, <1>2 DEF OpenStates
  <2> QED
    BY <2>1 DEF TriedRoutes
<1>4. \A m \in Rtts : attempt[m].state \in OpenStates <=> m = n
  BY <1>1 DEF IInv, OneOpenAttempt
<1>10. CarryingRoutes = {attempt[n].route}
  BY <1>1, <1>4 DEF CarryingRoutes
<1>9. \A m \in Rtts : attempt'[m].state \in OpenStates <=>
                         m = n /\ plan'.status = "RECONCILIATION_REQUIRED"
  BY <1>1, <1>2, <1>4 DEF OpenStates
<1>5. Verdict = "undecided"
  BY <1>1 DEF IInv, PlanAgreesWithAttempt, OpenStates, Verdict
<1>6. CASE plan'.status = "FINALIZED"
  <2>1. Verdict' = "settled" /\ CarryingRoutes' = {}
    BY <1>6, <1>9 DEF Verdict, CarryingRoutes
  <2> QED
    BY <1>1, <1>2, <1>3, <1>10, <1>6, <2>1 DEF Contract!Next, Contract!ConfirmSuccess
<1>7. CASE plan'.status = "RECONCILIATION_REQUIRED"
  <2>1. Verdict' = "undecided" /\ CarryingRoutes' = {attempt[n].route}
    BY <1>1, <1>7, <1>9 DEF Verdict, CarryingRoutes
  <2> QED
    BY <1>1, <1>2, <1>3, <1>10, <1>5, <1>7, <2>1 DEF Contract!abstractVars
<1>8. CASE plan'.status \in {"FAILED", "EXHAUSTED", "ACTIVE"}
  <2>1. Verdict' \in {"undecided", "closed"} /\ CarryingRoutes' = {}
    BY <1>8, <1>9 DEF Verdict, CarryingRoutes
  <2> QED
    BY <1>1, <1>2, <1>3, <1>10, <1>8, <2>1 DEF Contract!Next, Contract!ConfirmFailure
<1> QED
  BY <1>2, <1>6, <1>7, <1>8

\* build_plan leaves the contract where it was.
LEMMA BuildRefines ==
    ASSUME IInv, BuildPlan
    PROVE  UNCHANGED Contract!abstractVars
<1>1. plan = AbsentPlan /\ attempt' = attempt
  BY DEF BuildPlan, IInv, BlankUntilWritten
<1>2. /\ plan'.status = "ACTIVE" /\ plan'.current = plan.current
      /\ plan'.used = plan.used /\ plan'.successful = plan.successful
  BY <1>1 DEF BuildPlan, AbsentPlan
<1>3. Verdict' = Verdict
  BY <1>1, <1>2 DEF Verdict, AbsentPlan
<1>4. CarryingRoutes' = CarryingRoutes /\ TriedRoutes' = TriedRoutes
  BY <1>1, <1>2 DEF CarryingRoutes, TriedRoutes
<1> QED
  BY <1>2, <1>3, <1>4 DEF Contract!abstractVars

\* The empty store is where the contract begins.
LEMMA ContractBegins == Init => Contract!Init
<1> SUFFICES ASSUME Init PROVE Contract!Init
  OBVIOUS
<1>1. Verdict = "undecided"
  BY DEF Init, AbsentPlan, Verdict
<1>2. TriedRoutes = {} /\ CarryingRoutes = {}
  BY DEF Init, AbsentAttempt, TriedRoutes, CarryingRoutes, OpenStates
<1> QED
  BY <1>1, <1>2 DEF Init, AbsentPlan, Contract!Init

\* What happens to the tables is a step of the contract, or it does not see it.
LEMMA ContractStep == ASSUME IInv, TableStep PROVE [Contract!Next]_Contract!abstractVars
<1>1. CASE UNCHANGED <<plan, attempt>>
  BY <1>1 DEF Contract!abstractVars, Verdict, CarryingRoutes, TriedRoutes
<1>2. CASE BuildPlan
  BY <1>2, BuildRefines
<1>3. ASSUME NEW c \in Callers, CommitStart(c)
      PROVE  [Contract!Next]_Contract!abstractVars
  BY <1>3, StartRefines DEF Contract!Next
<1>4. ASSUME NEW c \in Callers, CommitTransition(c)
      PROVE  [Contract!Next]_Contract!abstractVars
  BY <1>4, TransitionRefines
<1> QED
  BY <1>1, <1>2, <1>3, <1>4 DEF TableStep

\* The service implements the one-route-at-a-time contract for every set of
\* routes, every budget and limit, and any number of concurrent callers.
THEOREM Refinement == Spec => ImplementsRouteByRoute
<1>1. IInv /\ [Next]_vars => [Contract!Next]_Contract!abstractVars
  BY ContractStep, OtherStepsRead
<1> QED
  BY <1>1, ContractBegins, InvariantHolds, PTL DEF Spec, ImplementsRouteByRoute, Contract!Spec
=============================================================================
