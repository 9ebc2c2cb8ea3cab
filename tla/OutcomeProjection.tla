------------------------- MODULE OutcomeProjection -------------------------
(***************************************************************************)
(* The exactly-once projection of the signed provider events:              *)
(* railone_projection/service.py over railone_projection/store.py or       *)
(* railone_postgres/projection.py.  The broker delivers an event any       *)
(* number of times, in any order.                                          *)
(***************************************************************************)
EXTENDS Integers

CONSTANTS RttIds        \* one submission for each RTT

VARIABLES
    bus,          \* the events the broker has received (environment)
    consumed,     \* projection_inbox: the events applied once
    projection    \* provider_outcome_projections by submission

\* _STATE_BY_EVENT; "NONE" before the first event.
ProgressState ==
    {"NONE", "PREPARED", "DISPATCHING", "ACCEPTED_FOR_PROCESSING", "REJECTED",
     "OUTCOME_UNKNOWN"}

StateByEvent(state) ==
    CASE state = "ACCEPTED" -> "ACCEPTED_FOR_PROCESSING"
      [] state = "UNKNOWN" -> "OUTCOME_UNKNOWN"
      [] OTHER -> state

ProjectionTypeOK ==
    /\ consumed \subseteq bus
    /\ projection \in [RttIds -> [state : ProgressState, version : Nat]]

ProjectionInit ==
    /\ consumed = {}
    /\ projection = [n \in RttIds |-> [state |-> "NONE", version |-> 0]]

\* A variant that applies events in the order they come.
ReplacesAlways(e) == TRUE

\* Only an event of a later version replaces the projection.
Replaces(e) == e.version > projection[e.rtt].version

\* project() and apply().
Project(e) ==
    /\ e \in bus
    /\ IF e \in consumed
       THEN UNCHANGED <<consumed, projection>>
       ELSE /\ consumed' = consumed \cup {e}
            /\ projection' =
                 IF Replaces(e)
                 THEN [projection EXCEPT ![e.rtt] =
                         [state |-> StateByEvent(e.state), version |-> e.version]]
                 ELSE projection
    /\ UNCHANGED bus
=============================================================================
