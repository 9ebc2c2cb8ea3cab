# RailOne: a TLA+ verification of the execution-continuity engine

RailOne turns a signed quote into an accepted transaction (a UTT), executes it
over ranked routes one attempt (an RTT) at a time, submits each attempt to a
payment provider, and takes finality only from the provider's evidence. It holds
no money. Its correctness is about order and repetition: who may act on what they
read earlier, what survives a crash between two transactions, and what a call,
callback or message that arrives twice or late may change. These modules model
that behaviour from the code of the `railone_*` packages and `migrations/`.

## The system and its parts

A service method is a sequence of store calls. Each call of a PostgreSQL store is
one short transaction at READ COMMITTED (`railone_postgres/runtime.py`), and each
call of an in-memory store holds a lock for its own duration only. Methods running in
several threads or processes therefore interleave between store calls, and a
process can stop between any two. This is the grain of all the models: one
action per store call, together with the computation around it.

    quote -> accept -> UTT -> plan -> RTT -> submission -> provider
                        |       ^      |          |            |
                     history    |      |       outbox       callback
                                |      |          |            |
                                +------+----- projection    inbox -> outcome
                                                                  -> evidence -> SMS

| Part | Code | Modules | State |
|---|---|---|---|
| Execution plan and RTT attempts | `railone_execution`, `railone_postgres/execution.py` | ExecutionPlan, RouteByRoute, ExecutionPlanProofs | checked and proved |
| Partner directory, under `start_next` | `railone_partners`, `railone_postgres/partners.py` | PartnerStart (extends ExecutionPlan), PartnerStartProofs | checked and proved |
| Route scoring | `railone_execution/scoring.py` | RouteScoring, with its theorems in PartnerStartProofs | used by `plan`, proved |
| Provider submission | `railone_operations` | ProviderSubmission, OneShot, ProviderSubmissionProofs | checked and proved |
| Adapter registry and bridge | `railone_institutions` | AdapterDescriptors, AdapterRegistry, AdapterDispatch, with its theorems in SubmissionContextProofs | checked and proved |
| Signed outbox relay | `railone_operations` (`OutboxRelay`) | OutboxRelay | checked in EventDelivery |
| Outcome projection | `railone_projection` | OutcomeProjection | checked in EventDelivery |
| Submission, relay and projection together | the three above | EventDelivery, with its theorems in SubmissionContextProofs | checked and proved |
| Callback inbox, finality, settlement evidence | `railone_callbacks`, `railone_notifications` | CallbackSettlement (extends ExecutionPlan) | checked in SettlementNotification, proved |
| Settlement SMS | `railone_notifications` (`SmsOutboxRelay`) | SmsDelivery, refining OneShot | checked in SettlementNotification, proved |
| Callbacks, evidence and SMS together | the two above | SettlementNotification, SettlementProofs | checked and proved |
| Sandbox effect broker and workers | `railone_sandbox` | SandboxEffects, with its theorems in CertificationProofs | checked and proved |
| Quote acceptance | `railone_contracts`, `railone_postgres/contracts.py` | QuoteAcceptance, AcceptanceLedger, with its theorems in IntakeProofs | checked and proved |
| Identity continuity | `railone_identity` | IdentityContinuity, TrustHistory, with its theorems in IntakeProofs | checked and proved |
| API guard | `railone_api` | ApiGuard, with its theorems in GuardedReadProofs | partly (one route), checked and proved |
| Transaction history | `railone_history` | TransactionHistory, with its theorems in GuardedReadProofs | checked and proved |
| Certification evaluator | `railone_certification/evaluator.py`, `reference.py` | TraceEvaluator, with its theorems in CertificationProofs | checked and proved |
| Certification runs | `railone_certification/runner.py`, `service.py` | CertificationRun, with its theorems in CertificationProofs | checked and proved |
| Adapter implementations, crypto, vaults, migration runner, HTTP, quote issuing | see "Not modelled" | none | |

`PROJECT.json` lists every component, the lines each definition translates
(`map`), the hazards found in the code with the properties that cover them, the
runs, the mutants and the theorems. The directories `step_01_*` to `step_10_*` are
snapshots of earlier stages of the same packages and were left aside: of their
roughly 62,500 lines some 35,800 are files identical to the live ones and 16,700
repeat another snapshot. They make up about three quarters of the repository's lines, so the
map, which names about 5,130 lines (a third of the live packages and migrations),
covers less than a tenth of the repository as a whole.

## How the modules correspond to the code

**ExecutionPlan.** `plan` is the row of `execution_plans`, `attempt[n]` the RTT
with attempt number n, and `call[c]` what a running service method has read.
`start_next` reads the plan (StartNext) and commits (CommitStart, or StartConflict
when the version moved on); `record_failure` and `record_success` read the attempt,
then the plan, then commit; `resolve_reconciliation` likewise. `DatabaseGuards`
chooses between the in-memory store and PostgreSQL with its triggers.
RouteByRoute is what the plan promises: one route carries money at a time, a
further route opens only when the earlier one is known to have failed, and one
success settles the transaction.

**PartnerStart** puts the partner directory under `start_next`. The method validates
the payer's endpoint and then the beneficiary's, each in a transaction of its own
(ValidateEndpoint), before it reads the plan, and `set_binding_status` may change
either binding between any two steps. The history variable `inactive` remembers
which bindings were never ACTIVE since the call began. **RouteScoring** is the scorer
as operators: eligibility, the component scores, the weighted score, and the
rank. MCPartnerStart derives the routes of the plan, their ranks and their costs
from three candidates with it.

**ProviderSubmission.** `submission` is the row of `provider_submissions`, `outbox`
the signed events written with it, `provider` what the provider really did, and
`dispatcher[d]` a running `dispatch()`. The step DISPATCHING is committed before
the provider is called; a dispatcher that finds DISPATCHING calls again only if
the adapter is idempotent, and otherwise records UNKNOWN. Each call of `dispatch`
brings an adapter, direct or behind an InstitutionAdapterBridge: another provider's
raises, and the bridge of another version raises inside `submit`, which `dispatch`
records as UNKNOWN. OneShot is the abstract effect: it
happens at most once and what is recorded about it is true. SmsDelivery refines the
same OneShot.

**AdapterDescriptors, AdapterRegistry, AdapterDispatch.** A build is an adapter with the
signed manifest that describes it, and RefOf the `adapter_id@version` it is signed under.
`entries[p]` is the registry of process p. `register` refuses a build only when the same
process has another one under the reference; a restart empties the registry; after
`expires_at` the reference no longer resolves. So two processes, or one before and after a
restart, may hold different builds of a pinned reference, and the bridge, which compares
references, takes either. The table of manifests (`railone_postgres/institutions.py`)
would refuse the second build, but no code in the live packages joins it to `register`,
so it is left out. AdapterDispatch takes the bridged adapters of ProviderSubmission from these
registries.

**OutboxRelay, OutcomeProjection, EventDelivery.** Claim with a lease, publish,
mark or reschedule; deduplicate by event id; replace by version. EventDelivery
joins them to ProviderSubmission: the events the dispatcher writes are the ones
the relay claims and the projector consumes. OutboxRelay and OutcomeProjection are
the parts; they are instantiated there and have no specification of their own.

**CallbackSettlement** extends ExecutionPlan: a handler inside `_process()` is also
a caller of the execution service. Its steps are ingest, read the attempt, the
service method, `commit_settlement`, and `mark_applied`; a crash can fall between
any two, and the provider may repeat or contradict itself. **SettlementNotification**
adds the couriers of SmsDelivery: the rows they deliver exist from the transaction
that commits the evidence.

**SandboxEffects.** `submit` schedules a timeout and then a settlement, and for each reads
the clock (ReadTick) and inserts the row (Schedule); a restart, which empties the
replay table, may fall between any two of these. Workers claim over the shared logical clock.
A claim takes any of the due rows, because its limit counts the rows of every RTT
and PostgreSQL skips locked ones. The consumer is injected into the worker: it returns or
raises, and `applied` remembers for which effects it returned.

**QuoteAcceptance** goes down to the statements of one PostgreSQL transaction:
an INSERT that meets another transaction's uncommitted row waits for it. It
implements AcceptanceLedger, in which an acceptance happens at once.

**IdentityContinuity** reads and writes in two transactions; which repository a
deployment uses is chosen in the initial state; in PostgreSQL the
write is itself several statements. It implements **TrustHistory**, in which an anchor
or a revision is added in one step. **ApiGuard** separates verification, rate limit,
guarded read and audit. **TransactionHistory** separates the access audit from the
page that follows it. **TraceEvaluator** is the evaluator as operators; its state
machine supplies traces, by letting the system under test deviate from the reference
driver's trace. **CertificationRun** is `certify()` with the PostgreSQL recorder;
the verdict of the evaluator is the field `lawful` of a trace.

Data is abstracted to what the properties distinguish. Signatures and hashes are
taken as unforgeable and injective, so an artifact is a value and its identifier
that value. Message texts, payload formats and amounts (other than costs and
budgets) are left out.

## The runs

| Run | Question | Distinct states |
|---|---|---|
| `plan` | PostgreSQL, two callers, the two routes ranked eligible of three candidates, two attempts, a budget one attempt can exhaust, two changes of a binding: inductive invariant, safety, finality, refinement, starts only for bindings found active, and is every plan decided unless a binding stays inactive? | 436,354 |
| `plan_stale` | violation, see Findings | |
| `submit` | Two processes with registries of their own, two builds of the pinned reference and one of another, a direct adapter of another provider, a crash, restarts, expiry, no idempotency under the pinned reference: inductive invariant, refinement, and does an interrupted submission get an outcome? | 179,976 |
| `delivery` | A dispatcher, two relay workers, a fault, the projector: exclusive leases, PUBLISHED only after the bus, delivery ends once, a true projection | 872,046 |
| `settlement` | In memory: two handlers, two couriers, one message, a crash of each kind, a second route, contradictory and repeated callbacks | 759,061 |
| `sandbox` | Two workers, two effects, three faults (failing consumers, crashes, broker restarts), partial claims: effects end once, DELIVERED means applied, a remembered submission is scheduled whole | 76,776 |
| `quote` | Two calls, three requests for two quotes, two keys, a crash: safety, contracts dated inside the quote's window, refinement, and does every call end? | 192,790 |
| `identity` | Two calls, three attestations, three revisions, a crash, either repository: gapless lineage, nothing after a revocation, refinement | 179,812 |
| `api` | Two workers, three requests, two tokens, a crash | 1,868,510 |
| `history` | One reader, three UTTs of which two share a second: exact paging, scoped and audited reads, and every transaction in its participants' histories | 36,768 |
| `trace` | Eleven scenarios, up to two deviations, events without a UTT or RTT among them | 213,235 |
| `certification` | Two calls, two runs, two adapters, two cases, a scenario outside the suite, a crash | 563,590 |

Counts under symmetry (`delivery`: workers; `settlement`: handlers, couriers;
`sandbox`: workers; `certification`: calls, runs, adapters) are of orbits. `delivery` has the state constraint RttStaysOpen:
closing an RTT changes no event already written, and `submit` explores it.

**Why the bounds are enough.** Two callers are enough for every race between a read
and a commit, as a commit compares one version. In `plan` the route of cost 2 ranks
first and the one of cost 1 second, under a budget of 2: an attempt that really cost
2 leaves no affordable route, one that cost 0 leaves the other, so attempts, routes and
budget run out in different orders; two changes revoke a binding and give it back.
`plan_stale` uses three routes of cost 2, 1 and 0. In `submit` the other
version is idempotent, which is the case in which a confusion of versions would call the
provider twice, and each process can come to hold the other build of the pinned reference.
`sandbox` has three faults: a restart between the two inserts, one after them, and a
refusal or a crash of a worker. One crash covers each
place of a crash; two cover a crash of the recovery. Counters that the code lets
grow (`delivery_attempts`, ticks) saturate where the code no longer tells values
apart. `CHECK_DEADLOCK FALSE` appears only where the bounded
environment really stops (requests, calls or deviations are used up).

**Fairness.** A call under way continues unless its process dies: weak fairness of the
steps of each caller. Beyond that:

- `plan` assumes that an orchestrator keeps calling `start_next`, and that the report
  of an open attempt, or its resolution, is repeated until a call takes it. Both are
  outside this code (see hazards). It is strong fairness, because a call that is
  under way, or another caller's, makes entering impossible for a while.
- `submit` assumes that a process that is given builds of the pinned reference loads one when
  it starts, and that an RTT still CREATED is dispatched again whenever one resolves: strong fairness, because restarts empty the registry in between. The
  property names what may still prevent an outcome: the RTT is no longer CREATED, the
  manifest of a build has expired, or the bound on overtaking calls is reached.
- `quote` assumes nothing beyond running calls.

The other runs check safety only.

Each property of each passing run has a mutant, a variant of a translated definition
with a plausible mistake, under which TLC finds the property violated. The variants stand in the
modules next to the definitions they replace.

## Findings

`plan_stale`. `record_failure` and `record_success` read the attempt before the
plan, and the commit compares only the plan's version. A call that read CREATED
before a timeout made the attempt RECONCILIATION_REQUIRED, and reads the plan after
it, replaces the ambiguous state, although ADR-004 says that it awaits evidence or
an operator. Finality, the single open attempt and the refinement hold nevertheless.

Seen while modelling, and stated by no run of this project:

- `railone_api/guard.py:214`: two requests with one `X-Request-ID`, the same outcome
  and the same second have one audit id. The second append fails after its operation
  was done, so ADR-008's "Every ... guarded request" has no audit of its own there.
- `railone_certification/evaluator.py:123`: in SMS_FINALITY_GATE nothing orders the
  evidence before success, finality and SMS, so a trace whose SMS precede the evidence
  passes; ADR-014 lists "SMS creation only after verified finality" as covered.
- `railone_certification/evaluator.py:181`: events without a UTT are left out of the comparison
  of transactions, so evidence that names none backs any success.
- `railone_certification/runner.py:120`: run and adapter of a trace are compared with those
  of the case and its scenario is not. PassedIsBacked therefore says that each case stands on
  a trace of its own that is lawful for the scenario the trace names.
- `railone_institutions/registry.py:42`: README.md:27 says that "a retry cannot silently
  change adapter implementation". A retry can run another build signed under the pinned
  reference, in another process or after a restart. While both declare no idempotency the
  provider is still called once; if the second declares it, a DISPATCHING submission is
  sent again.
- `railone_sandbox/store.py:107`: ADR-012:28 says "stale workers cannot acknowledge" expired
  leases. The acknowledgement compares the owner only, so a worker whose expired row no
  claim has taken over (beyond the limit, or skipped as locked) can.
- `railone_sandbox/effects.py:133`: after a restart between the two inserts, and a move of the
  clock, a repeated submission meets the stored timeout with another `due_tick` and raises, every
  time; the settlement is never scheduled.
- `railone_contracts/acceptance_service.py:93`: the window is checked before the
  transaction. SoldInsideWindow says that the contract is dated inside it; the commit may
  come after the quote has expired.
- `railone_certification/cli.py`: `DirectoryTraceDriver` has no
  `evidence_classification`, which `CertificationRunner.run` reads.

## Proofs

TLAPS checks the theorems of eight modules for every value of the constants: any
routes, costs, budgets, attempts, callers, dispatchers, adapters, workers, handlers,
couriers, messages, quotes, keys, identities, effects, leases, tokens, requests, windows,
page sizes, suites, edits and crash bounds, subject to the named assumptions of the modules.
These say that costs, limits and bounds are natural numbers (a page, a window, a
lease and a retry delay at least one), ranks and the scenarios of a suite are distinct and
markers such as NoRoute and NoEvidence are not values, and two things of the environment:

- ReachingAssumption: the adapters that can bring an RTT to its provider agree on its
  idempotency. The plug-in's constructor compares the two declarations for an
  adapter that is used directly and behind a bridge. For two builds of one
  reference nothing in the code compares them (see Findings): it is asked of whoever signs manifests.
- DispatchAssumption: every dispatcher is a process with a registry of its own.

*Execution plan.* OneOpenAttempt and its companions are not inductive alone: a commit is safe because of what its caller read.
`IInv` adds ReadsAreVersioned (a read plan with the current version is the current
plan, and no read is from the future), BlankUntilWritten (rows that do not exist yet
are blank) and PlanAgreesWithAttempt. Each action is one step of the proof, with one
step per conjunct it can disturb. From `Spec => []IInv` follow type correctness, at
most one open attempt, no retry before an explicit failure, finality by success, no
route twice, no active plan without a startable route, finality of outcomes, and
that the service implements RouteByRoute.

*Costs.* CostsAreCounted is inductive given `IInv`: the commit that ends an attempt adds its
cost to what the plan has spent, and changes no other attempt. What it takes is that
the sum over the attempts, a recursive function, exists and grows by what one
summand grows. Both are shown without an induction principle, by the least number for
which they would fail (LeastNumber, from the well-foundedness of the naturals):
SumsExist, TotalIsSum, TotalGrows. The theorem NoCostIsLost is proved of the plan, and
PartnerCosts of the plan with the directory.

*Provider submission.* `IInv` adds to the safety properties that reads are versioned,
that a submission not yet dispatched has not reached the provider, that without
idempotency only one dispatcher is between its DISPATCHING commit and its call
(OneCaller), and that an answer being carried is the provider's (ResultsAreTrue).
From it follow at most one call without idempotency, truthful outcomes, one event
for each version, finality, and, without idempotency, the refinement of OneShot.

*Composition.* PartnerStartProofs and SubmissionContextProofs (AdapterDispatch and
EventDelivery) show that the composed specifications implement the one they extend
(PartnerImplementsPlan, DispatchImplementsSubmission, DeliveryImplementsSubmission),
so the invariants and refinements above carry over without being proved again. On top
of that:

- PartnerStart: once a call has validated a party, that party is not in the call's
  `inactive`, which only shrinks while the call runs; hence StartsSawActiveBindings.
- AdapterDispatch: whatever registries hold, a dispatcher brings an adapter of Adapters, and
  loading, restarts and expiry leave the tables alone. DispatchIsOneShot rests on ReachingAssumption
  for the builds of the pinned reference.
- EventDelivery: RelayInv ties each running lease to the rows it was given for
  (the row's lease lasts at least as long as the worker's) and each acknowledgement
  to a publication; ProjectionInv ties what is shown to a consumed event of that
  version and bounds every consumed event by it. With one event for each version, from
  ProviderSubmission, the projection is true.

*Callbacks, evidence and SMS.* A crash of a handler inside a service method is not a step
of ExecutionPlan, so SettlementProofs does not show an implementation: it uses that
every step is, for the tables, a step of the service (TableStep), which keeps the plan's `IInv`,
finality and the refinement of RouteByRoute. CallbackInv says what a handler relies on
where it is (Relies): its callback is on record with the verdict it carries; from
`settle` on its own attempt is SUCCEEDED, so the RTT it takes from the plan is the
callback's; at `mark` the callback has had its effect. That every step only adds to this (Advances)
is what makes it survive the other handlers. SmsInv says that the version of a message tells its
state, that one courier at most is between the DISPATCHING commit and the call, and
that a call implies evidence. From the two follow the properties of `settlement`:
EvidenceIsEarned, AppliedHadItsEffect, OutcomeHasItsCallback, SmsTellsTheTruth
and the refinement of OneShot.

*Quote acceptance.* AcceptanceInv relates the committed tables, the row and key an
open transaction holds (HoldsAlone: no one else holds or has them), what a call has
found (FindingsStand) and why it refuses (RefusalStands). From it follow the four
safety properties and the refinement of AcceptanceLedger.

*Identity continuity.* IdentityInv relates each call in its writing transaction to the
stored chain: what it saves is new, what it revises is the object it decided on as
long as its expected version is the stored one. From it follow the gapless
lineage, that decisions saw their base, and that nothing follows a revocation. TrustInv
adds the attestations: each revision rests on an attestation of its own person, and a
call that has inserted a revision and not yet committed is the only one to spend that
attestation (Fresh). It gives AnchorsAreStable and AttestationsCountOnce, also for the
in-memory repository, which compares attestations within one person's revisions only. With
both invariants the service implements TrustHistory: the history of a person is read
off the table in the order of the revision numbers (HistoryOf), the commit that adds a row
appends to that sequence and leaves the others alone (OrderGrows, OthersKeepTheirOrder), and
every other statement, a lost call included, changes nothing abstract.

*Sandbox effects.* SandboxInv says that a worker on its way to acknowledge has had its effect
applied, and that `submit` is at the settlement only when the timeout is stored. Rows
never disappear and only their owner moves them on, so DeliveredTookEffect and
SubmittedIsScheduled are kept by claims, takeovers, lost leases and restarts, without a claim
on when leases expire. EffectEndsOnce follows from what each step may do to a row: `schedule`
keeps a stored row, a claim takes none that has ended, and an acknowledgement needs one in flight.

*Guarded reads.* For ApiGuard, GuardInv says what each worker has on record where it is (Backed:
a verified token, an ALLOWED access row) and how the grants of a principal relate to its counter
(Counted: no grant is later than the window, the grants of the current window are at
most the counter, those of any window at most the limit). The counter only moves
to later windows, so a late worker is counted in the window that is open and never in a closed one.
WindowHoldsLimit is thus a fact about cardinalities of growing sets. For
TransactionHistory, HistoryInv says where a paging stands (Paged): what it has
shown is not older than the cursor, and of the transactions linked when it began each is shown or
older than the cursor. That a page takes the newest rows beyond the
cursor, ties in the second broken by identifier, keeps this and shows none twice. That
`index()` commits the links of a transaction together and never adds to them later
(LinksAreWhole), and that the roles it collects from origin and actors are the parts of each
subject (RolesAreParts), gives ParticipantsFindTheirs: with PagingIsExact, a reader at the last page has seen
all that involved the subject when the first page was read.

*Certification.* For CertificationRun, CertificationInv says what a call in progress holds
(Holds: its run row is RUNNING, or has the status of its cases once completed; no report
of the run is filed; its cases are those of the suite, in order, and each PASSED one stands on a
trace of its own), that no two calls are inside one run, and what a filed report stands
on. Distinct traces come from UNIQUE (run_id, scenario): a case passes only on a row its insert
created. EvidenceIsKept says that no step removes or replaces evidence. For TraceEvaluator the
theorems about deviating traces need no more than the type of a trace: whatever passes
`evaluate` has each event of its expectation as often as the table says, and
their first positions in the table's order. The events of a settlement other than the SMS occur
once, so their first positions are all of them, and each SMS comes after the first. That
evidence precedes the effects in the other scenarios is not claimed, see Findings. Nor can
EffectsAreEvidenced say that evidence and effect name the same transaction: it says that
evidence is there, hashed, and names no other. That the
reference driver's own trace passes (ReferencePasses) is computed scenario by scenario:
the trace is reduced to its event types in turn, from which counts, first positions, scopes and
identities are read off and compared with the table.

*Route scoring.* For weights that sum to 10000 the score of an eligible route is between
0 and 10000, whatever the amounts, and the ranks of a planning request are
distinct and follow the sort key, as RoutesAssumption of the plan asks. The score is
monotone in every measure through all its integer divisions (ScoreIsMonotone), so a plan tries
no route before one that is at least as good on each measure, unless the scores tie and the
identifier decides (DominantRoutesComeFirst).

`plan` and `submit` check the two inductive invariants `IInv` with TLC, `plan` with the
database's triggers; `settlement` runs the plan without them, under other
properties. DeliveryInv and IdentityInv were checked with TLC on the instances of `delivery` and
`identity` before they were proved. Four properties are theorems and in no configuration:
DecisionsSawTheirBase, AnchorsAreStable and AttestationsCountOnce (module IdentityContinuity) and
EvidenceIsKept (CertificationRun). TLC found them true on the instances of their modules' runs.

**Only model-checked:**

- DecidedUnlessInactive, DispatchingEnds and CallsEnd: liveness under fairness is out of the
  prover's reach.
- ReconciliationAwaitsResolution does not hold, see Findings.

Every other property of a run is a theorem.

## Not modelled

- Institution adapter implementations (`railone_institutions/generic.py`, `legacy.py`,
  codecs, authentication, transport): translation of formats; their result is the
  provider's answer. The manifest table has no caller that joins it to the registry, `eligible()` has no caller in the live packages, and the binding, event and
  conformance tables of migration 0009 have no writer.
- Registration of institutions and bindings, and the choice of an endpoint for a quote.
- Quote issuing, sender authority, attestations: one artifact from checked input.
- Cryptography, canonical JSON, envelope encryption and vaults: a stored secret is
  immutable, and no operation spans two of them.
- HTTP routing, deployment wiring, command lines.
- The migration runner: it applies ordered files once, under an advisory lock, before
  the system runs.
- The OAuth token cache of the M-PESA adapter.
- Reconciliation of an UNKNOWN submission into an attempt outcome: the code has no
  such step yet (ADR-006 names it as future work).

## Not checked

- Liveness of event delivery, callbacks, SMS, sandbox effects and certification runs.
  With two relay or sandbox workers leases can expire in turn for ever, so liveness
  there needs an assumption on speed that the code does not make; for callbacks with
  couriers the instance is too large.
- A relay batch of more than one event, and a settlement with both messages under way.
- Type invariants other than those of the plan and the submission, by TLC: each module has
  a TypeOK that is in no configuration. It is a conjunct of the invariant proved of the
  module, except for the relay, the projection and the evaluator, whose proofs need less.
- That `start_next` uses a route whose telemetry has expired since planning: the code
  looks at the telemetry only in `build_plan`, and no document says otherwise.
- In the evaluator, a second dispatch after an unknown outcome: where a scenario says
  nothing of dispatches it takes three deviations, and `trace` explores two.

## What remains

1. The liveness and the larger instances of "Not checked", on reduced models.
2. The derivation of a certification suite from a manifest, and the in-memory recorder.
3. The OAuth token cache.
