---------------------------- MODULE OutboxRelay ----------------------------
(***************************************************************************)
(* The relay of the signed outbox: OutboxRelay.publish_batch in            *)
(* railone_operations/service.py over claim_outbox, mark_published and     *)
(* reschedule of railone_operations/store.py or                            *)
(* railone_postgres/operations.py.                                         *)
(*                                                                         *)
(* Times are kept relative, in ticks from now: wait is how long until a    *)
(* row is available, lease how long until its lease expires, and a Tick    *)
(* brings both nearer.  An event that was inserted and never touched has   *)
(* no entry in delivery: it is a PENDING row that is available at once.    *)
(* A batch is published in an order the event hashes decide, so in any.    *)
(* A lease that expires again and again raises delivery_attempts without   *)
(* end; the count saturates where neither the limit nor the retry delay    *)
(* can tell the difference.                                                *)
(***************************************************************************)
EXTENDS Integers, FiniteSets

CONSTANTS
    Events,                \* the events that may be written
    Workers,               \* relay processes; the process is its worker_id
    LeaseTicks,            \* lease_seconds
    BackoffCap,            \* the cap of the retry delay, 300 in the code
    MaxDeliveryAttempts,   \* max_attempts
    BatchLimit,            \* limit of a claim
    AttemptCap,            \* where the count of delivery_attempts saturates
    MaxFaults,             \* bound on failed publications and relay crashes
    NoWorker,              \* lease_owner: NULL
    NoEvent                \* the worker is between two events

VARIABLES
    outbox,     \* the events inserted so far (environment)
    delivery,   \* the delivery columns of the rows that were ever claimed
    relay,      \* the batch each worker is publishing
    bus,        \* the events the broker has received
    faults      \* failed publications and crashes so far

relayVars == <<delivery, relay, bus, faults>>
outboxVars == <<outbox, delivery, relay, bus, faults>>

DeliveryState == {"PENDING", "IN_FLIGHT", "PUBLISHED", "DEAD_LETTER"}

Rows ==
    [state : DeliveryState, attempts : Nat, wait : Nat, lease : Nat,
     owner : Workers \cup {NoWorker}]

RelayTypeOK ==
    /\ outbox \subseteq Events
    /\ DOMAIN delivery \subseteq outbox
    /\ \A e \in DOMAIN delivery : delivery[e] \in Rows
    /\ \A w \in Workers :
          /\ relay[w].batch \subseteq outbox
          /\ relay[w].event \in relay[w].batch \cup {NoEvent}
          /\ relay[w].step \in {"publish", "mark", "reschedule"}
          /\ relay[w].lease \in 0..LeaseTicks /\ relay[w].age \in 0..BackoffCap
    /\ bus \subseteq outbox
    /\ faults \in 0..MaxFaults

NoBatch == [batch |-> {}, event |-> NoEvent, step |-> "publish", lease |-> 0, age |-> 0]

RelayInit ==
    /\ delivery = << >>
    /\ relay = [w \in Workers |-> NoBatch]
    /\ bus = {}
    /\ faults = 0

-----------------------------------------------------------------------------
(* The store *)

Fresh == [state |-> "PENDING", attempts |-> 0, wait |-> 0, lease |-> 0, owner |-> NoWorker]

Row(e) == IF e \in DOMAIN delivery THEN delivery[e] ELSE Fresh

WriteRow(e, row) ==
    delivery' = [f \in DOMAIN delivery \cup {e} |-> IF f = e THEN row ELSE delivery[f]]

\* A variant that takes rows that are still leased.
ClaimableLeased(e) ==
    Row(e).state \in {"PENDING", "IN_FLIGHT"} /\ Row(e).wait = 0

\* The rows claim_outbox selects.
Claimable(e) ==
    \/ Row(e).state = "PENDING" /\ Row(e).wait = 0
    \/ Row(e).state = "IN_FLIGHT" /\ Row(e).lease = 0

\* A variant without the ownership check.
OwnedByAll(w, e) == TRUE

\* _require_owned_event, and the WHERE clause of _finish_lease.
Owned(w, e) == Row(e).state = "IN_FLIGHT" /\ Row(e).owner = w

\* min(300, 2 ** min(delivery_attempts, 8))
Backoff(attempts) ==
    LET delay == 2^(IF attempts < 8 THEN attempts ELSE 8)
    IN  IF delay < BackoffCap THEN delay ELSE BackoffCap

-----------------------------------------------------------------------------
(* publish_batch *)

OneMore(attempts) == IF attempts < AttemptCap THEN attempts + 1 ELSE attempts

ClaimOutbox(w) ==
    /\ relay[w].batch = {}
    /\ \E claimed \in SUBSET {e \in outbox : Claimable(e)} :
          /\ claimed # {} /\ Cardinality(claimed) <= BatchLimit
          /\ delivery' = [e \in DOMAIN delivery \cup claimed |->
                            IF e \in claimed
                            THEN [Row(e) EXCEPT !.state = "IN_FLIGHT",
                                                !.attempts = OneMore(@),
                                                !.owner = w, !.lease = LeaseTicks]
                            ELSE delivery[e]]
          /\ relay' = [relay EXCEPT ![w] = [NoBatch EXCEPT !.batch = claimed,
                                                           !.lease = LeaseTicks]]
    /\ UNCHANGED <<outbox, bus, faults>>

\* publisher.publish returns.
Publish(w) ==
    \E e \in relay[w].batch :
        /\ relay[w].event = NoEvent
        /\ bus' = bus \cup {e}
        /\ relay' = [relay EXCEPT ![w].event = e, ![w].step = "mark"]
        /\ UNCHANGED <<outbox, delivery, faults>>

\* A variant that goes on as if the failed publication had succeeded.
MarkAnyway == "mark"

\* Where a failed publication leads.
AfterFault == "reschedule"

\* publisher.publish raises, before or after the broker took the event.
PublishFails(w) ==
    \E e \in relay[w].batch :
        /\ relay[w].event = NoEvent
        /\ faults < MaxFaults
        /\ faults' = faults + 1
        /\ bus' \in {bus, bus \cup {e}}
        /\ relay' = [relay EXCEPT ![w].event = e, ![w].step = AfterFault]
        /\ UNCHANGED <<outbox, delivery>>

\* The worker is done with its event and turns to the next one of the batch.
NextInBatch(w) ==
    LET rest == relay[w].batch \ {relay[w].event}
    IN  relay' = [relay EXCEPT ![w] = IF rest = {} THEN NoBatch
                                      ELSE [@ EXCEPT !.batch = rest, !.event = NoEvent,
                                                     !.step = "publish"]]

MarkPublished(w) ==
    LET e == relay[w].event
    IN  /\ e # NoEvent /\ relay[w].step = "mark"
        /\ Owned(w, e)
        /\ WriteRow(e, [Row(e) EXCEPT !.state = "PUBLISHED", !.owner = NoWorker,
                                      !.lease = 0])
        /\ NextInBatch(w)
        /\ UNCHANGED <<outbox, bus, faults>>

StateAfterFailure(row) ==
    IF row.attempts >= MaxDeliveryAttempts THEN "DEAD_LETTER" ELSE "PENDING"

\* available_at is reckoned from the start of the batch.
Reschedule(w) ==
    LET e == relay[w].event
        delay == Backoff(Row(e).attempts) - relay[w].age
    IN  /\ e # NoEvent /\ relay[w].step = "reschedule"
        /\ Owned(w, e)
        /\ WriteRow(e, [Row(e) EXCEPT !.state = StateAfterFailure(Row(e)),
                                      !.owner = NoWorker, !.lease = 0,
                                      !.wait = IF delay > 0 THEN delay ELSE 0])
        /\ NextInBatch(w)
        /\ UNCHANGED <<outbox, bus, faults>>

\* mark_published or reschedule raises PermissionError: the batch is dropped.
LostLease(w) ==
    /\ relay[w].event # NoEvent
    /\ ~Owned(w, relay[w].event)
    /\ relay' = [relay EXCEPT ![w] = NoBatch]
    /\ UNCHANGED <<outbox, delivery, bus, faults>>

RelayCrash(w) ==
    /\ relay[w].batch # {}
    /\ faults < MaxFaults
    /\ faults' = faults + 1
    /\ relay' = [relay EXCEPT ![w] = NoBatch]
    /\ UNCHANGED <<outbox, delivery, bus>>

Less(n) == IF n = 0 THEN 0 ELSE n - 1

Tick ==
    /\ delivery' = [e \in DOMAIN delivery |->
                      [delivery[e] EXCEPT !.wait = Less(@), !.lease = Less(@)]]
    /\ relay' = [w \in Workers |->
                   IF relay[w].batch = {} THEN relay[w]
                   ELSE [relay[w] EXCEPT !.lease = Less(@),
                                         !.age = IF @ < BackoffCap THEN @ + 1 ELSE @]]
    /\ UNCHANGED <<outbox, bus, faults>>

RelayProceed(w) ==
    Publish(w) \/ MarkPublished(w) \/ Reschedule(w) \/ LostLease(w)

RelayStep(w) == ClaimOutbox(w) \/ RelayProceed(w) \/ PublishFails(w) \/ RelayCrash(w)

-----------------------------------------------------------------------------
(* Properties *)

\* While its lease runs a worker is the only owner of the events of its batch:
\* no other worker claims, acknowledges or reschedules them.
LeaseIsExclusive ==
    \A w \in Workers : relay[w].lease > 0 =>
        \A e \in relay[w].batch : Owned(w, e)

\* An event is marked PUBLISHED only after the broker has received it, by
\* whichever worker: reclaimed leases and late acknowledgements lose nothing.
PublishedReachedTheBus ==
    \A e \in DOMAIN delivery : delivery[e].state = "PUBLISHED" => e \in bus

\* PUBLISHED and DEAD_LETTER are final: a worker that lost its lease cannot
\* bring the event back or overwrite how it ended.
DeliveryEndsOnce ==
    [][\A e \in DOMAIN delivery :
         delivery[e].state \in {"PUBLISHED", "DEAD_LETTER"} =>
            delivery'[e].state = delivery[e].state]_outboxVars
=============================================================================
