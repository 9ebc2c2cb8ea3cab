------------------------ MODULE ProviderSubmission ------------------------
(***************************************************************************)
(* The provider submission of each RTT and the calls it makes to the       *)
(* payment provider: ProviderSubmissionCoordinator in                      *)
(* railone_operations/service.py over railone_operations/store.py or       *)
(* railone_postgres/operations.py.                                         *)
(*                                                                         *)
(* A dispatcher is a thread or process inside dispatch().  Between two     *)
(* store transactions other dispatchers run, and a dispatcher may crash.   *)
(* The submission row and its signed event are written in one transaction; *)
(* outbox is the set of the events that were written.                      *)
(*                                                                         *)
(* Each call brings its adapter: one that is handed over as it is (direct) *)
(* or an InstitutionAdapterBridge of railone_institutions/spi.py around a  *)
(* build, which refuses an RTT whose route pins another reference.         *)
(*                                                                         *)
(* The provider is external.  It carries a request out or refuses it; the  *)
(* answer may be lost, which the adapter reports as UNKNOWN or raises.     *)
(***************************************************************************)
EXTENDS Integers, AdapterDescriptors

CONSTANTS
    RttIds,                \* the RTTs of the plan
    Dispatchers,           \* concurrent calls of dispatch
    RouteProvider,         \* the provider of each RTT's route
    Pinned,                \* the binding reference each RTT's route pins
    MaxDispatches,         \* bound on dispatch_attempts
    MaxCrashes             \* bound on dispatcher crashes

ASSUME SubmissionAssumption ==
    /\ RttIds # {}
    /\ Pinned \in [RttIds -> Refs]
    /\ MaxDispatches \in Nat /\ MaxCrashes \in Nat

\* dispatch() compares the provider, the bridge compares the reference.
SameProvider(n, a) == ProviderOf[a] = RouteProvider[n]
SameBinding(n, a) == a \in Direct \cup {b \in Builds : RefOf[b] = Pinned[n]}

\* The adapters that can bring the request of an RTT to its provider, and the
\* RTTs whose provider cannot recognise a repeated request.
Reaching(n) == {a \in Adapters : SameProvider(n, a) /\ SameBinding(n, a)}
OneShotRtts == {n \in RttIds : Reaching(n) \cap Idempotent = {}}

\* The adapters that reach a provider for an RTT make one declaration of its
\* idempotency.  For a plug-in and the direct adapter inside it the plug-in's
\* constructor sees to that.  For two builds of one reference nothing in the
\* code does: it is asked of whoever signs the manifests.
ASSUME ReachingAssumption ==
    \A n \in RttIds : n \in OneShotRtts \/ Reaching(n) \subseteq Idempotent

VARIABLES
    rttState,     \* what the execution store says of each RTT (environment)
    submission,   \* the provider_submissions row of each RTT
    outbox,       \* the signed events written with the rows
    dispatcher,   \* where each dispatch() call is and what it has read
    provider,     \* external: calls received and what became of the request
    crashes       \* how often a dispatcher crashed

vars == <<rttState, submission, outbox, dispatcher, provider, crashes>>

-----------------------------------------------------------------------------
(* Types *)

RttStates == {"ABSENT", "CREATED", "RECONCILIATION_REQUIRED", "CLOSED"}
FinalStates == {"ACCEPTED", "REJECTED", "UNKNOWN"}
SubmissionState == {"ABSENT", "PREPARED", "DISPATCHING"} \cup FinalStates

Records == [state : SubmissionState, dispatches : Nat, version : Nat]

Events == [rtt : RttIds, version : Nat, state : SubmissionState]

DispatcherStates ==
    [at      : {"idle", "attempt_read", "checked", "dispatch", "submit", "complete"},
     rtt     : RttIds,
     adapter : Adapters,
     read    : Records,
     result  : FinalStates]

TypeOK ==
    /\ rttState \in [RttIds -> RttStates]
    /\ submission \in [RttIds -> Records]
    /\ outbox \subseteq Events
    /\ dispatcher \in [Dispatchers -> DispatcherStates]
    /\ provider \in [RttIds -> [calls : Nat, fate : {"none", "ACCEPTED", "REJECTED"}]]
    /\ crashes \in 0..MaxCrashes

AbsentRecord == [state |-> "ABSENT", dispatches |-> 0, version |-> 0]
Prepared == [state |-> "PREPARED", dispatches |-> 0, version |-> 1]

\* A dispatcher that has read no row, and one that is not inside dispatch().
Entered(n, a, at) ==
    [at |-> at, rtt |-> n, adapter |-> a, read |-> AbsentRecord, result |-> "UNKNOWN"]

Resting ==
    Entered(CHOOSE n \in RttIds : TRUE, CHOOSE a \in Adapters : TRUE, "idle")

Init ==
    /\ rttState \in [RttIds -> {"ABSENT", "CREATED"}]
    /\ submission = [n \in RttIds |-> AbsentRecord]
    /\ outbox = {}
    /\ dispatcher = [d \in Dispatchers |-> Resting]
    /\ provider = [n \in RttIds |-> [calls |-> 0, fate |-> "none"]]
    /\ crashes = 0

-----------------------------------------------------------------------------
(* Steps of a dispatcher *)

\* The dispatcher returns or raises.
Leave(d) ==
    dispatcher' = [dispatcher EXCEPT ![d] = Resting]

\* The signed event of a row that was written.
Event(n, row) == [rtt |-> n, version |-> row.version, state |-> row.state]

\* One transaction: the row and its event.
Write(n, row) ==
    /\ submission' = [submission EXCEPT ![n] = row]
    /\ outbox' = outbox \cup {Event(n, row)}

\* dispatch() is called with an adapter; prepare(): only a CREATED RTT is
\* dispatched.
ReadAttempt(d, n, a) ==
    /\ dispatcher[d].at = "idle"
    /\ rttState[n] = "CREATED"
    /\ dispatcher' = [dispatcher EXCEPT ![d] = Entered(n, a, "attempt_read")]
    /\ UNCHANGED <<rttState, submission, outbox, provider, crashes>>

\* prepare(): the RTT must be the plan's current one.  The attempt may have
\* become ambiguous since it was read; it is current all the same.
ReadPlan(d) ==
    /\ dispatcher[d].at = "attempt_read"
    /\ IF rttState[dispatcher[d].rtt] \in {"CREATED", "RECONCILIATION_REQUIRED"}
       THEN dispatcher' = [dispatcher EXCEPT ![d] = [@ EXCEPT !.at = "checked"]]
       ELSE Leave(d)
    /\ UNCHANGED <<rttState, submission, outbox, provider, crashes>>

\* Variants: one dispatches again after a crash whatever the adapter says, one
\* leaves a row that is DISPATCHING alone.
RecoverByResubmission(n, a, row) ==
    IF row.state \in FinalStates THEN "idle" ELSE "dispatch"

LeaveDispatching(n, a, row) ==
    IF row.state = "PREPARED" THEN "dispatch" ELSE "idle"

\* Where dispatch() goes with the row that prepare() returned: an adapter of
\* another provider raises, a final row is returned, and one left DISPATCHING
\* goes to the provider again only if the adapter is idempotent.
AfterPrepare(n, a, row) ==
    IF ~SameProvider(n, a) \/ row.state \in FinalStates THEN "idle"
    ELSE IF row.state = "DISPATCHING" /\ a \notin Idempotent THEN "complete"
    ELSE "dispatch"

\* prepare(): insert the row or return the stored one.
Prepare(d) ==
    LET n == dispatcher[d].rtt
        row == IF submission[n].state = "ABSENT" THEN Prepared ELSE submission[n]
    IN  /\ dispatcher[d].at = "checked"
        /\ IF submission[n].state = "ABSENT"
           THEN Write(n, row)
           ELSE UNCHANGED <<submission, outbox>>
        /\ LET next == AfterPrepare(n, dispatcher[d].adapter, row)
           IN  IF next = "idle" THEN Leave(d)
               ELSE dispatcher' = [dispatcher EXCEPT ![d] =
                                     [@ EXCEPT !.at = next, !.read = row, !.result = "UNKNOWN"]]
        /\ UNCHANGED <<rttState, provider, crashes>>

\* A variant without the compare-and-set.
MayAlwaysWrite(d) == TRUE

\* transition(): the version read is still the stored one and, in the
\* database, the stored row is not final.
MayWrite(d) ==
    /\ submission[dispatcher[d].rtt].version = dispatcher[d].read.version
    /\ submission[dispatcher[d].rtt].state \notin FinalStates

Conflict(d) ==
    /\ dispatcher[d].at \in {"dispatch", "complete"}
    /\ ~MayWrite(d)
    /\ Leave(d)
    /\ UNCHANGED <<rttState, submission, outbox, provider, crashes>>

\* dispatch(): commit DISPATCHING before the provider is called.
StartDispatch(d) ==
    LET n == dispatcher[d].rtt
        row == [state |-> "DISPATCHING",
                dispatches |-> dispatcher[d].read.dispatches + 1,
                version |-> dispatcher[d].read.version + 1]
    IN  /\ dispatcher[d].at = "dispatch"
        /\ dispatcher[d].read.dispatches < MaxDispatches
        /\ MayWrite(d)
        /\ Write(n, row)
        /\ dispatcher' = [dispatcher EXCEPT ![d] = [@ EXCEPT !.at = "submit", !.read = row]]
        /\ UNCHANGED <<rttState, provider, crashes>>

\* What an idempotent provider, or one that sees the request for the first
\* time, may make of it.  "none": the request was lost on the way.  REJECTED
\* includes an adapter that refuses before the request leaves; a result that
\* _complete finds malformed raises there, which is a Crash of the dispatcher.
Fates(n, a) ==
    IF a \in Idempotent /\ provider[n].fate # "none"
    THEN {provider[n].fate}
    ELSE {"none", "ACCEPTED", "REJECTED"}

\* What the adapter reports: the fate, or UNKNOWN when the answer is lost or
\* the adapter raises.
Reports(fate) == {"UNKNOWN"} \cup ({fate} \ {"none"})

\* A variant of the bridge that does not compare the binding.
AnyBinding(n, a) == TRUE

\* adapter.submit() brings the request to the provider.
Brings(n, a) == SameBinding(n, a)

Submit(d) ==
    LET n == dispatcher[d].rtt
    IN  /\ dispatcher[d].at = "submit"
        /\ Brings(n, dispatcher[d].adapter)
        /\ \E fate \in Fates(n, dispatcher[d].adapter) :
              /\ provider' = [provider EXCEPT ![n] =
                                [calls |-> @.calls + 1,
                                 fate |-> IF fate = "none" THEN @.fate ELSE fate]]
              /\ \E result \in Reports(fate) :
                    dispatcher' = [dispatcher EXCEPT ![d] =
                                     [@ EXCEPT !.at = "complete", !.result = result]]
        /\ UNCHANGED <<rttState, submission, outbox, crashes>>

\* The bridge of another adapter version raises: UNKNOWN, and no call.
BridgeRefuses(d) ==
    /\ dispatcher[d].at = "submit"
    /\ ~Brings(dispatcher[d].rtt, dispatcher[d].adapter)
    /\ dispatcher' = [dispatcher EXCEPT ![d] =
                         [@ EXCEPT !.at = "complete", !.result = "UNKNOWN"]]
    /\ UNCHANGED <<rttState, submission, outbox, provider, crashes>>

\* The row _complete() writes.
FinalRow(d) ==
    [state |-> dispatcher[d].result,
     dispatches |-> dispatcher[d].read.dispatches,
     version |-> dispatcher[d].read.version + 1]

\* _complete(): record the outcome.
Complete(d) ==
    /\ dispatcher[d].at = "complete"
    /\ MayWrite(d)
    /\ Write(dispatcher[d].rtt, FinalRow(d))
    /\ Leave(d)
    /\ UNCHANGED <<rttState, provider, crashes>>

\* The process dies, or a signer, the endpoint resolver or a check of the
\* adapter's result raises; what was committed stays.
Crash(d) ==
    /\ dispatcher[d].at # "idle"
    /\ crashes < MaxCrashes
    /\ crashes' = crashes + 1
    /\ Leave(d)
    /\ UNCHANGED <<rttState, submission, outbox, provider>>

-----------------------------------------------------------------------------
(* Specification *)

\* The execution service, as a dispatcher sees it.
RttMoves ==
    \E n \in RttIds :
        /\ \/ /\ rttState[n] = "ABSENT"
              /\ rttState' = [rttState EXCEPT ![n] = "CREATED"]
           \/ /\ rttState[n] = "CREATED"
              /\ \E s \in {"RECONCILIATION_REQUIRED", "CLOSED"} :
                    rttState' = [rttState EXCEPT ![n] = s]
           \/ /\ rttState[n] = "RECONCILIATION_REQUIRED"
              /\ rttState' = [rttState EXCEPT ![n] = "CLOSED"]
        /\ UNCHANGED <<submission, outbox, dispatcher, provider, crashes>>

Proceed(d) ==
    \/ ReadPlan(d) \/ Prepare(d) \/ StartDispatch(d) \/ Conflict(d)
    \/ Submit(d) \/ BridgeRefuses(d) \/ Complete(d)

Enter(d) == \E n \in RttIds, a \in Adapters : ReadAttempt(d, n, a)

DispatcherStep(d) == Enter(d) \/ Proceed(d) \/ Crash(d)

Next == RttMoves \/ \E d \in Dispatchers : DispatcherStep(d)

Spec == Init /\ [][Next]_vars

-----------------------------------------------------------------------------
(* Properties *)

\* A provider without idempotency receives a request at most once, whatever
\* crashes, retries and concurrent calls of dispatch there are, and whichever
\* adapters of other references, idempotent ones included, the calls bring by
\* mistake.
SubmittedAtMostOnce ==
    \A n \in OneShotRtts : provider[n].calls <= 1

\* ACCEPTED is recorded only for a request the provider took, REJECTED only
\* for one it refused: a lost answer or a recovery is never reported as either.
OutcomeIsTrue ==
    \A n \in RttIds :
        submission[n].state \in {"ACCEPTED", "REJECTED"} =>
            provider[n].fate = submission[n].state

\* Each version of a submission has exactly one signed event, and the event of
\* the current version tells its state, so a consumer that has seen every event
\* knows the submission.
EventsTellTheStory ==
    /\ \A e \in outbox :
          /\ e.version \in 1..submission[e.rtt].version
          /\ \A f \in outbox : e.rtt = f.rtt /\ e.version = f.version => e = f
    /\ \A n \in RttIds :
          /\ \A v \in 1..submission[n].version :
                \E e \in outbox : e.rtt = n /\ e.version = v
          /\ submission[n].version > 0 => Event(n, submission[n]) \in outbox

\* A recorded outcome stays: a slow dispatcher whose call was given up as
\* UNKNOWN cannot overwrite it, nor can a second one.
FinalStatesStay ==
    [][\A n \in RttIds :
         submission[n].state \in FinalStates => submission'[n] = submission[n]]_vars

\* The one-shot contract of a submission to a provider without idempotency.
ProviderContract ==
    INSTANCE OneShot WITH
        Keys <- OneShotRtts,
        calls <- [n \in OneShotRtts |-> provider[n].calls],
        fate <- [n \in OneShotRtts |-> provider[n].fate],
        verdict <- [n \in OneShotRtts |->
                      IF submission[n].state \in FinalStates
                      THEN submission[n].state ELSE "none"]

\* dispatch() keeps the one-shot contract with a provider that cannot recognise
\* a repeated request: it is called at most once for an RTT, and the outcome is
\* recorded once and truthfully, UNKNOWN when nothing else is certain.
ImplementsOneShot == ProviderContract!Spec

-----------------------------------------------------------------------------
(* The inductive invariant behind the safety properties *)

\* What a dispatcher has read is a past row, and the stored one as long as the
\* version is; it calls the provider, or records an outcome, only from a
\* DISPATCHING row.
Versioned(k, row) ==
    /\ k.at \in {"dispatch", "submit", "complete"} =>
          /\ k.read.version <= row.version
          /\ k.read.version = row.version => k.read = row
          /\ k.read.version > 0
    /\ k.at \in {"dispatch", "submit"} => SameProvider(k.rtt, k.adapter)
    /\ k.at = "dispatch" =>
          /\ k.read.state \in {"PREPARED", "DISPATCHING"}
          /\ k.adapter \notin Idempotent => k.read.state = "PREPARED"
    /\ k.at \in {"submit", "complete"} =>
          k.read.state = "DISPATCHING" /\ row.state \notin {"ABSENT", "PREPARED"}

ReadsAreVersioned ==
    \A d \in Dispatchers : Versioned(dispatcher[d], submission[dispatcher[d].rtt])

\* The provider has not heard of a request that was never dispatched, and has
\* made nothing of one it has not received.
UntouchedBeforeDispatch ==
    \A n \in RttIds :
        /\ submission[n].state \in {"ABSENT", "PREPARED"} => provider[n].calls = 0
        /\ provider[n].calls = 0 => provider[n].fate = "none"
        /\ submission[n].state = "ABSENT" <=> submission[n].version = 0

\* The dispatcher is about to call the provider.
Calling(d) ==
    dispatcher[d].at = "submit" /\ Brings(dispatcher[d].rtt, dispatcher[d].adapter)

\* Without idempotency at most one dispatcher is about to call the provider,
\* and it is the first.
OneCaller ==
    \A d \in Dispatchers :
        Calling(d) /\ dispatcher[d].rtt \in OneShotRtts =>
            /\ provider[dispatcher[d].rtt].calls = 0
            /\ \A e \in Dispatchers :
                  Calling(e) /\ dispatcher[e].rtt = dispatcher[d].rtt => e = d

\* A dispatcher that is to record ACCEPTED or REJECTED knows it to be so.
ResultsAreTrue ==
    \A d \in Dispatchers :
        dispatcher[d].at = "complete" /\ dispatcher[d].result # "UNKNOWN" =>
            provider[dispatcher[d].rtt].fate = dispatcher[d].result

\* The inductive invariant of dispatch: rows, events, provider calls and what
\* each dispatcher carries agree at every step, after any crash and race.
IInv ==
    /\ TypeOK
    /\ ReadsAreVersioned
    /\ UntouchedBeforeDispatch
    /\ OneCaller
    /\ ResultsAreTrue
    /\ SubmittedAtMostOnce
    /\ OutcomeIsTrue
    /\ EventsTellTheStory
=============================================================================
