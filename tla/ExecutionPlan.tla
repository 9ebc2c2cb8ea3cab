--------------------------- MODULE ExecutionPlan ---------------------------
(***************************************************************************)
(* The execution plan of one accepted UTT and its RTT attempts:            *)
(* railone_execution/service.py over railone_execution/store.py or         *)
(* railone_postgres/execution.py.                                          *)
(*                                                                         *)
(* Every store method is a transaction of its own, so a service method is  *)
(* a sequence of atomic store accesses that other calls interleave with.   *)
(* A caller is a thread or process inside a service method; call[c] holds  *)
(* what that method has read so far.  A method that raises leaves the      *)
(* store as it was.                                                        *)
(*                                                                         *)
(* An RTT is named by its attempt number: the identifier is a hash over    *)
(* the plan and the attempt number, and (plan_id, attempt_number) is       *)
(* unique.  remaining_route_ids is always a subsequence of the ranking, so *)
(* it is the set of the routes left; Rank orders it.                       *)
(***************************************************************************)
EXTENDS Integers

CONSTANTS
    Routes,           \* route_id of every candidate
    Rank,             \* the scorer's position of each route, a lower one first
    EstimatedCost,    \* estimated_cost_minor of each route
    Budget,           \* routing_budget_minor of the UTT
    MaxAttempts,      \* max_attempts of the UTT
    ActualCosts,      \* the actual_cost_minor values callers report
    Callers,          \* concurrent calls of the service methods
    DatabaseGuards,   \* TRUE: PostgreSQL with its triggers; FALSE: in memory
    NoRoute           \* the null route

ASSUME RoutesAssumption ==
    /\ NoRoute \notin Routes
    /\ Rank \in [Routes -> Nat]
    /\ \A r, s \in Routes : Rank[r] = Rank[s] => r = s
    /\ EstimatedCost \in [Routes -> Nat]

ASSUME LimitsAssumption ==
    /\ Budget \in Nat
    /\ MaxAttempts \in Nat \ {0}
    /\ ActualCosts \subseteq Nat
    /\ DatabaseGuards \in BOOLEAN

VARIABLES
    plan,      \* the plan row; status "ABSENT" before build_plan
    attempt,   \* the RTT rows by attempt number; state "ABSENT" before start
    call       \* the service method each caller is inside

vars == <<plan, attempt, call>>

-----------------------------------------------------------------------------
(* Types *)

None == 0                               \* current_rtt_id, previous_rtt_id: None
Rtts == 1..MaxAttempts

Dispositions == {"RETRYABLE", "TERMINAL", "RECONCILIATION_REQUIRED"}
Verdicts == Dispositions \cup {"SUCCESS"}
PlanStatus == {"ABSENT", "ACTIVE", "RECONCILIATION_REQUIRED", "FAILED",
               "EXHAUSTED", "FINALIZED"}
AttemptState == {"ABSENT", "CREATED", "FAILED", "SUCCEEDED",
                 "RECONCILIATION_REQUIRED"}

Plans ==
    [status     : PlanStatus,
     remaining  : SUBSET Routes,
     failures   : SUBSET (Rtts \X Dispositions),
     used       : 0..MaxAttempts,
     spent      : Nat,
     current    : 0..MaxAttempts,
     previous   : 0..MaxAttempts,
     successful : Routes \cup {NoRoute},
     version    : Nat]

Attempts ==
    [state : AttemptState, route : Routes \cup {NoRoute}, cost : Nat]

Calls ==
    [at      : {"idle", "start", "attempt_read", "plan_read"},
     op      : {"start_next", "record", "resolve"},
     rtt     : 0..MaxAttempts,
     verdict : Verdicts,
     cost    : Nat,
     plan    : Plans]

TypeOK ==
    /\ plan \in Plans
    /\ attempt \in [Rtts -> Attempts]
    /\ call \in [Callers -> Calls]

AbsentPlan ==
    [status |-> "ABSENT", remaining |-> {}, failures |-> {}, used |-> 0,
     spent |-> 0, current |-> None, previous |-> None,
     successful |-> NoRoute, version |-> 0]

AbsentAttempt == [state |-> "ABSENT", route |-> NoRoute, cost |-> 0]

Idle ==
    [at |-> "idle", op |-> "start_next", rtt |-> None, verdict |-> "SUCCESS",
     cost |-> 0, plan |-> AbsentPlan]

-----------------------------------------------------------------------------
(* Helpers *)

OpenStates == {"CREATED", "RECONCILIATION_REQUIRED"}
TerminalStatus == {"FAILED", "EXHAUSTED", "FINALIZED"}

\* routing_budget_remaining_minor
BudgetLeft(spent) == IF spent > Budget THEN 0 ELSE Budget - spent

Affordable(remaining, spent) ==
    {r \in remaining : EstimatedCost[r] <= BudgetLeft(spent)}

Exhausted(p, spent) ==
    p.used >= MaxAttempts \/ Affordable(p.remaining, spent) = {}

\* The status, attempt state and current RTT an outcome leads to.
StatusAfter(p, verdict, spent) ==
    CASE verdict = "SUCCESS" -> "FINALIZED"
      [] verdict = "RECONCILIATION_REQUIRED" -> "RECONCILIATION_REQUIRED"
      [] verdict = "TERMINAL" -> "FAILED"
      [] verdict = "RETRYABLE" ->
            IF Exhausted(p, spent) THEN "EXHAUSTED" ELSE "ACTIVE"

StateAfter(verdict) ==
    CASE verdict = "SUCCESS" -> "SUCCEEDED"
      [] verdict = "RECONCILIATION_REQUIRED" -> "RECONCILIATION_REQUIRED"
      [] verdict \in {"TERMINAL", "RETRYABLE"} -> "FAILED"

CurrentAfter(rtt, verdict) ==
    IF verdict = "RECONCILIATION_REQUIRED" THEN rtt ELSE None

\* The plan a start writes, computed from the plan p that was read.
PlanAfterStart(p, route) ==
    [p EXCEPT !.remaining = @ \ {route},
              !.used = @ + 1,
              !.current = p.used + 1,
              !.version = @ + 1]

\* Variants: one retries after an ambiguous outcome, one does not charge the
\* cost of a success.
OutcomeRetriesAmbiguous(k, route) ==
    LET p == k.plan
        spent == p.spent + k.cost
        v == IF k.verdict = "RECONCILIATION_REQUIRED" THEN "RETRYABLE" ELSE k.verdict
    IN  [p EXCEPT !.status = StatusAfter(p, v, spent), !.spent = spent,
                  !.current = None, !.previous = k.rtt,
                  !.successful = IF v = "SUCCESS" THEN route ELSE @,
                  !.version = @ + 1]

OutcomeForgetsCost(k, route) ==
    LET p == k.plan
        spent == IF k.verdict = "SUCCESS" THEN p.spent ELSE p.spent + k.cost
    IN  [p EXCEPT !.status = StatusAfter(p, k.verdict, spent), !.spent = spent,
                  !.current = CurrentAfter(k.rtt, k.verdict), !.previous = k.rtt,
                  !.successful = IF k.verdict = "SUCCESS" THEN route ELSE @,
                  !.version = @ + 1]

\* The plan an outcome writes, computed from the plan k.plan that was read.
PlanAfterOutcome(k, route) ==
    LET p == k.plan
        spent == p.spent + k.cost
    IN  [p EXCEPT
            !.status = StatusAfter(p, k.verdict, spent),
            !.failures = IF k.verdict = "SUCCESS" THEN @
                         ELSE @ \cup {<<k.rtt, k.verdict>>},
            !.spent = spent,
            !.current = CurrentAfter(k.rtt, k.verdict),
            !.previous = k.rtt,
            !.successful = IF k.verdict = "SUCCESS" THEN route ELSE @,
            !.version = @ + 1]

\* The trigger guard_rtt_update and the WHERE clause of the UPDATE; the
\* in-memory store writes whatever it is given.
AttemptUpdateAllowed(old, new) ==
    DatabaseGuards =>
        \/ old = "CREATED"
        \/ old = "RECONCILIATION_REQUIRED" /\ new \in {"FAILED", "SUCCEEDED"}

-----------------------------------------------------------------------------
(* Planning *)

Init ==
    /\ plan = AbsentPlan
    /\ attempt = [n \in Rtts |-> AbsentAttempt]
    /\ call = [c \in Callers |-> Idle]

\* build_plan and create_plan.  The scorer keeps only routes whose estimate
\* fits the budget; a later build_plan returns this plan or raises.
BuildPlan ==
    /\ plan.status = "ABSENT"
    /\ \E eligible \in SUBSET {r \in Routes : EstimatedCost[r] <= Budget} :
          /\ eligible # {}
          /\ plan' = [AbsentPlan EXCEPT !.status = "ACTIVE",
                                        !.remaining = eligible,
                                        !.version = 1]
    /\ UNCHANGED <<attempt, call>>

-----------------------------------------------------------------------------
(* start_next *)

\* The guards of start_next on the plan it has read.
MayStart(p) ==
    /\ p.status = "ACTIVE"
    /\ p.current = None
    /\ p.used < MaxAttempts
    /\ Affordable(p.remaining, p.spent) # {}

StartNext(c) ==
    /\ call[c].at = "idle"
    /\ MayStart(plan)
    /\ call' = [call EXCEPT ![c] =
                    [Idle EXCEPT !.at = "start", !.plan = plan]]
    /\ UNCHANGED <<plan, attempt>>

\* The first affordable route in rank order.
Selected(p, r) ==
    /\ r \in Affordable(p.remaining, p.spent)
    /\ \A s \in Affordable(p.remaining, p.spent) : Rank[r] <= Rank[s]

\* commit_start: the version read is still the stored one, nothing is in
\* flight and the RTT is new.
CommitStart(c) ==
    LET p == call[c].plan
    IN  /\ call[c].at = "start"
        /\ plan.version = p.version
        /\ plan.current = None
        /\ attempt[p.used + 1].state = "ABSENT"
        /\ \E r \in Routes :
              /\ Selected(p, r)
              /\ plan' = PlanAfterStart(p, r)
              /\ attempt' = [attempt EXCEPT ![p.used + 1] =
                                [state |-> "CREATED", route |-> r, cost |-> 0]]
        /\ call' = [call EXCEPT ![c] = Idle]

StartConflict(c) ==
    /\ call[c].at = "start"
    /\ \/ plan.version # call[c].plan.version
       \/ plan.current # None
       \/ attempt[call[c].plan.used + 1].state # "ABSENT"
    /\ call' = [call EXCEPT ![c] = Idle]
    /\ UNCHANGED <<plan, attempt>>

-----------------------------------------------------------------------------
(* record_failure, record_success, resolve_reconciliation *)

\* The first access of each method: require_attempt and the guard on its state.
ReadAttempt(c, op, n, verdict, cost, state) ==
    /\ call[c].at = "idle"
    /\ attempt[n].state = state
    /\ call' = [call EXCEPT ![c] =
                    [Idle EXCEPT !.at = "attempt_read", !.op = op, !.rtt = n,
                                 !.verdict = verdict, !.cost = cost]]
    /\ UNCHANGED <<plan, attempt>>

RecordFailure(c) ==
    \E n \in Rtts, d \in Dispositions, cost \in ActualCosts :
        ReadAttempt(c, "record", n, d, cost, "CREATED")

RecordSuccess(c) ==
    \E n \in Rtts, cost \in ActualCosts :
        ReadAttempt(c, "record", n, "SUCCESS", cost, "CREATED")

ResolveReconciliation(c) ==
    \E n \in Rtts, cost \in ActualCosts,
       v \in {"SUCCESS", "RETRYABLE", "TERMINAL"} :
        ReadAttempt(c, "resolve", n, v, cost, "RECONCILIATION_REQUIRED")

\* A variant that tests for the wrong plan status.
AwaitsActive(rtt) == plan.status = "ACTIVE" /\ plan.current = rtt

\* The guard of resolve_reconciliation on the plan.
AwaitsResolution(rtt) ==
    plan.status = "RECONCILIATION_REQUIRED" /\ plan.current = rtt

\* The second access: require_plan.  Only resolve_reconciliation checks it.
ReadPlan(c) ==
    /\ call[c].at = "attempt_read"
    /\ call' = [call EXCEPT ![c] =
                    IF call[c].op = "resolve" /\ ~AwaitsResolution(call[c].rtt)
                    THEN Idle
                    ELSE [@ EXCEPT !.at = "plan_read", !.plan = plan]]
    /\ UNCHANGED <<plan, attempt>>

\* A variant without the check that the RTT is still current.
TransitionOfAnyRtt(k) == plan.version = k.plan.version

\* The conditions of commit_transition.
TransitionAllowed(k) ==
    /\ plan.version = k.plan.version
    /\ plan.current = k.rtt
    /\ AttemptUpdateAllowed(attempt[k.rtt].state, StateAfter(k.verdict))

CommitTransition(c) ==
    LET k == call[c]
    IN  /\ k.at = "plan_read"
        /\ TransitionAllowed(k)
        /\ plan' = PlanAfterOutcome(k, attempt[k.rtt].route)
        /\ attempt' = [attempt EXCEPT ![k.rtt] =
                          [@ EXCEPT !.state = StateAfter(k.verdict),
                                    !.cost = k.cost]]
        /\ call' = [call EXCEPT ![c] = Idle]

TransitionConflict(c) ==
    /\ call[c].at = "plan_read"
    /\ ~TransitionAllowed(call[c])
    /\ call' = [call EXCEPT ![c] = Idle]
    /\ UNCHANGED <<plan, attempt>>

-----------------------------------------------------------------------------
(* Specification *)

\* What a caller inside a method does next.
Proceed(c) ==
    \/ CommitStart(c) \/ StartConflict(c)
    \/ ReadPlan(c) \/ CommitTransition(c) \/ TransitionConflict(c)

\* The calls a caller may make.
Begin(c) ==
    StartNext(c) \/ RecordFailure(c) \/ RecordSuccess(c) \/ ResolveReconciliation(c)

\* A plan with a terminal status and no call under way is done.
Done ==
    /\ plan.status \in TerminalStatus
    /\ \A c \in Callers : call[c].at = "idle"
    /\ UNCHANGED vars

Next == BuildPlan \/ (\E c \in Callers : Begin(c) \/ Proceed(c)) \/ Done

Spec == Init /\ [][Next]_vars

-----------------------------------------------------------------------------
(* Properties *)

\* At most one RTT is open (CREATED or awaiting reconciliation), and it is the
\* one current_rtt_id names: commit_start and commit_transition keep the two
\* tables together whatever stale reads the concurrent calls started from.
OneOpenAttempt ==
    \A n \in Rtts : attempt[n].state \in OpenStates <=> plan.current = n

\* A route opens only after every earlier attempt is confirmed FAILED, so an
\* ambiguous or successful attempt is never followed by another; attempts_used
\* counts the attempts that exist.
RetryOnlyAfterFailure ==
    \A n \in Rtts :
        /\ n < plan.used => attempt[n].state = "FAILED"
        /\ n > plan.used <=> attempt[n].state = "ABSENT"

\* The plan is FINALIZED exactly when an attempt SUCCEEDED; previous_rtt_id and
\* successful_route_id then name that attempt, which settlement relies on.
FinalizedBySuccess ==
    /\ plan.status = "FINALIZED" <=> \E n \in Rtts : attempt[n].state = "SUCCEEDED"
    /\ \A n \in Rtts : attempt[n].state = "SUCCEEDED" =>
          plan.previous = n /\ plan.successful = attempt[n].route

\* No route is attempted twice, and none that was attempted is left in
\* remaining_route_ids.
RouteTriedOnce ==
    \A m \in Rtts : attempt[m].state # "ABSENT" =>
        /\ attempt[m].route \notin plan.remaining
        /\ \A n \in Rtts : attempt[n].route = attempt[m].route => m = n

\* An ACTIVE plan with nothing in flight can always start: the exhaustion
\* test of record_failure and resolve_reconciliation agrees with the
\* selection of start_next, so no plan is left ACTIVE with nowhere to go.
ActiveCanStart ==
    plan.status = "ACTIVE" /\ plan.current = None => MayStart(plan)

\* The sum of a cost per attempt.
Total(cost) ==
    LET sum[n \in 0..MaxAttempts] == IF n = 0 THEN 0 ELSE sum[n - 1] + cost[n]
    IN  sum[MaxAttempts]

\* The plan's routing_cost_spent_minor covers the actual_cost_minor of every
\* attempt: no outcome's cost is lost to a concurrent update of the plan.
CostsAreCounted == Total([n \in Rtts |-> attempt[n].cost]) <= plan.spent

\* The plan awaits reconciliation exactly while its current attempt does, and
\* it is ACTIVE while its current attempt is CREATED.
PlanAgreesWithAttempt ==
    /\ plan.status = "RECONCILIATION_REQUIRED" <=>
          \E n \in Rtts : attempt[n].state = "RECONCILIATION_REQUIRED"
    /\ \A n \in Rtts : attempt[n].state = "CREATED" => plan.status = "ACTIVE"

\* A confirmed outcome is final: no late, duplicated or stale call changes a
\* FAILED or SUCCEEDED attempt, or a plan with a terminal status.
OutcomesAreFinal ==
    [][/\ plan.status \in TerminalStatus => UNCHANGED <<plan, attempt>>
       /\ \A n \in Rtts : attempt[n].state \in {"FAILED", "SUCCEEDED"} =>
             attempt'[n] = attempt[n]]_vars

\* An attempt leaves RECONCILIATION_REQUIRED only by resolve_reconciliation,
\* as the guards of record_failure and record_success intend.
ReconciliationAwaitsResolution ==
    [][\A n \in Rtts :
         /\ attempt[n].state = "RECONCILIATION_REQUIRED"
         /\ attempt'[n].state # "RECONCILIATION_REQUIRED"
         => \E c \in Callers : call[c].op = "resolve" /\ call[c].rtt = n
                               /\ call'[c] # call[c]]_vars

-----------------------------------------------------------------------------
(* The inductive invariant behind the safety properties *)

\* What a caller has read is a past plan, and it is the stored one as long as
\* the version is: the compare-and-set on version is a compare-and-set on the
\* whole plan.
ReadsAreVersioned ==
    \A c \in Callers :
        /\ call[c].at \in {"start", "plan_read"} =>
              /\ call[c].plan.version <= plan.version
              /\ call[c].plan.version = plan.version => call[c].plan = plan
        /\ call[c].at = "start" => MayStart(call[c].plan)
        /\ call[c].at \in {"attempt_read", "plan_read"} => call[c].rtt \in Rtts

\* Rows that do not exist yet are blank, and every RTT has a route.
BlankUntilWritten ==
    /\ plan.status = "ABSENT" => plan = AbsentPlan
    /\ \A n \in Rtts : attempt[n].state = "ABSENT" <=> attempt[n].route = NoRoute

\* The inductive invariant: the tables support each other and what a call of a
\* service method has read is stale only if the plan's version has moved on.
IInv ==
    /\ TypeOK
    /\ OneOpenAttempt
    /\ RetryOnlyAfterFailure
    /\ FinalizedBySuccess
    /\ RouteTriedOnce
    /\ ActiveCanStart
    /\ PlanAgreesWithAttempt
    /\ ReadsAreVersioned
    /\ BlankUntilWritten

-----------------------------------------------------------------------------
(* Refinement of RouteByRoute *)

\* The routes on which money may be moving: CREATED, or of unknown outcome.
CarryingRoutes == {attempt[n].route : n \in {m \in Rtts : attempt[m].state \in OpenStates}}

Verdict ==
    CASE plan.status = "FINALIZED" -> "settled"
      [] plan.status \in {"FAILED", "EXHAUSTED"} -> "closed"
      [] OTHER -> "undecided"

TriedRoutes == {attempt[n].route : n \in {m \in Rtts : attempt[m].state # "ABSENT"}}

Contract ==
    INSTANCE RouteByRoute WITH
        verdict <- Verdict, carrying <- CarryingRoutes, tried <- TriedRoutes,
        opened <- plan.used, settledBy <- plan.successful

\* The plan and its attempts, under any interleaving of the service methods,
\* behave as the one-route-at-a-time contract.
ImplementsRouteByRoute == Contract!Spec
=============================================================================
