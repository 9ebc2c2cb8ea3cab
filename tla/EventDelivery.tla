--------------------------- MODULE EventDelivery ---------------------------
(***************************************************************************)
(* From a submission to what the rest of the system learns of it: the      *)
(* dispatchers of ProviderSubmission write rows and signed events, the     *)
(* workers of OutboxRelay publish the events, and the projector of         *)
(* OutcomeProjection applies them.                                         *)
(***************************************************************************)
EXTENDS ProviderSubmission

CONSTANTS
    Workers, LeaseTicks, BackoffCap, MaxDeliveryAttempts, BatchLimit, AttemptCap,
    MaxFaults, NoWorker, NoEvent

ASSUME RelayAssumption ==
    /\ LeaseTicks \in Nat \ {0} /\ BackoffCap \in Nat \ {0}
    /\ MaxDeliveryAttempts \in Nat \ {0} /\ BatchLimit \in Nat \ {0}
    /\ AttemptCap \in Nat
    /\ AttemptCap >= MaxDeliveryAttempts /\ 2^AttemptCap >= BackoffCap
    /\ MaxFaults \in Nat
    /\ NoWorker \notin Workers

VARIABLES delivery, relay, bus, faults, consumed, projection

Relay == INSTANCE OutboxRelay

Projector == INSTANCE OutcomeProjection

submissionVars == <<rttState, submission, dispatcher, provider, crashes>>
relayVars == <<delivery, relay, bus, faults>>
deliveryVars == <<vars, relayVars, consumed, projection>>

DeliveryTypeOK == TypeOK /\ Relay!RelayTypeOK /\ Projector!ProjectionTypeOK

DeliveryInit == Init /\ Relay!RelayInit /\ Projector!ProjectionInit

Dispatching ==
    /\ RttMoves \/ \E d \in Dispatchers : DispatcherStep(d)
    /\ UNCHANGED <<relayVars, consumed, projection>>

Relaying(w) ==
    Relay!RelayStep(w) /\ UNCHANGED <<submissionVars, consumed, projection>>

TimePasses ==
    Relay!Tick /\ UNCHANGED <<submissionVars, consumed, projection>>

Projecting ==
    /\ \E e \in bus : Projector!Project(e)
    /\ UNCHANGED <<submissionVars, outbox, delivery, relay, faults>>

DeliveryNext ==
    Dispatching \/ (\E w \in Workers : Relaying(w)) \/ TimePasses \/ Projecting

DeliverySpec == DeliveryInit /\ [][DeliveryNext]_deliveryVars

-----------------------------------------------------------------------------
(* Properties *)

\* The projection never runs ahead of the submission, at the submission's
\* version it shows its state, and once every event has been consumed it is at
\* that version, however events were duplicated, delayed and reordered.
ProjectionIsTrue ==
    \A n \in RttIds :
        /\ projection[n].version <= submission[n].version
        /\ projection[n].version = submission[n].version /\ submission[n].version > 0 =>
              projection[n].state = Projector!StateByEvent(submission[n].state)
        /\ {e \in outbox : e.rtt = n} \subseteq consumed =>
              projection[n].version = submission[n].version

\* While its lease runs a relay worker is the only owner of its batch.
LeaseIsExclusive == Relay!LeaseIsExclusive

\* mark_published follows the broker: an event is never PUBLISHED unpublished.
PublishedReachedTheBus == Relay!PublishedReachedTheBus

\* How the delivery of an event ended is never overwritten by a late worker.
DeliveryEndsOnce == Relay!DeliveryEndsOnce
=============================================================================
