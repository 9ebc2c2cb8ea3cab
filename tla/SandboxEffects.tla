--------------------------- MODULE SandboxEffects ---------------------------
(***************************************************************************)
(* The durable provider simulator for one RTT under TIMEOUT_THEN_SUCCESS:  *)
(* SandboxEffectBroker in railone_sandbox/effects.py, the effect store in  *)
(* railone_sandbox/store.py or railone_postgres/sandbox.py, and            *)
(* SandboxEffectWorker in railone_sandbox/workers.py.                      *)
(*                                                                         *)
(* The logical clock moves only when a worker claims, and it is shared.    *)
(* Ticks are relative: wait is how long until an effect is available,      *)
(* lease how long until its lease expires.  fresh says that the clock has  *)
(* not moved since the due_tick was computed: only then does computing it  *)
(* again give the same one.  The consumer is injected, and all that is     *)
(* assumed of it is that apply returns or raises.                          *)
(***************************************************************************)
EXTENDS Integers

CONSTANTS
    Workers,       \* worker processes; the process is its worker_id
    LeaseTicks,    \* lease_ticks
    RetryDelay,    \* retry_delay_ticks
    MaxAttempts,   \* max_attempts
    AttemptCap,    \* where the count of delivery_attempts saturates
    MaxFaults,     \* bound on failing consumers, crashes and broker restarts
    NoWorker,      \* lease_owner: NULL
    NoEffect       \* the worker is between two effects

ASSUME SandboxAssumption ==
    /\ LeaseTicks \in Nat \ {0} /\ RetryDelay \in Nat \ {0}
    /\ MaxAttempts \in Nat \ {0} /\ AttemptCap \in Nat /\ AttemptCap >= MaxAttempts
    /\ MaxFaults \in Nat
    /\ NoWorker \notin Workers

VARIABLES
    broker,    \* where submit() is, and whether it remembers the submission
    effect,    \* the sandbox_provider_effects rows
    worker,    \* the batch each worker is applying
    applied,   \* the effects for which a call of consumer.apply has returned
    faults     \* failing consumers, crashes and restarts so far

sandboxVars == <<broker, effect, worker, applied, faults>>

Effects == {"TIMEOUT", "SETTLED"}
Offset(e) == IF e = "TIMEOUT" THEN 1 ELSE 2

Rows ==
    [state : {"ABSENT", "PENDING", "IN_FLIGHT", "DELIVERED", "DEAD_LETTER"},
     attempts : 0..AttemptCap, wait : Nat, lease : 0..LeaseTicks,
     owner : Workers \cup {NoWorker}, fresh : BOOLEAN]

\* The effect submit() is about to schedule; wait and fresh are of the due_tick
\* it has computed, same says that the stored row has that due_tick too.
Brokers == [at : {"tick", "insert", "submitted"}, effect : Effects,
            wait : Nat, fresh : BOOLEAN, same : BOOLEAN]

SandboxTypeOK ==
    /\ broker \in Brokers
    /\ effect \in [Effects -> Rows]
    /\ worker \in [Workers -> [batch : SUBSET Effects, effect : Effects \cup {NoEffect},
                               step : {"apply", "mark", "reschedule"}]]
    /\ applied \subseteq Effects
    /\ faults \in 0..MaxFaults

NoBatch == [batch |-> {}, effect |-> NoEffect, step |-> "apply"]

AbsentRow == [state |-> "ABSENT", attempts |-> 0, wait |-> 0, lease |-> 0,
              owner |-> NoWorker, fresh |-> FALSE]

\* At an effect of a submission that is not remembered.
Scheduling(e) == [at |-> "tick", effect |-> e, wait |-> 0, fresh |-> FALSE, same |-> FALSE]
Submitted == [Scheduling("SETTLED") EXCEPT !.at = "submitted"]

SandboxInit ==
    /\ broker = Scheduling("TIMEOUT")
    /\ effect = [e \in Effects |-> AbsentRow]
    /\ worker = [w \in Workers |-> NoBatch]
    /\ applied = {}
    /\ faults = 0

-----------------------------------------------------------------------------
(* The broker *)

Stored(e) == effect[e].state # "ABSENT"

\* _schedule() reads the clock, in a transaction of its own, for the due_tick.
ReadTick ==
    LET e == broker.effect
    IN  /\ broker.at = "tick"
        /\ broker' = [at |-> "insert", effect |-> e, wait |-> Offset(e), fresh |-> TRUE,
                      same |-> Stored(e) /\ effect[e].fresh]
        /\ UNCHANGED <<effect, worker, applied, faults>>

ScheduledRow == [AbsentRow EXCEPT !.state = "PENDING", !.wait = broker.wait,
                                  !.fresh = broker.fresh]

\* A variant that writes the row again whatever is stored.
ScheduleAfresh(e) == effect' = [effect EXCEPT ![e] = ScheduledRow]

\* schedule(): a new row, or the stored one.
ScheduleRow(e) ==
    effect' = IF Stored(e) THEN effect ELSE [effect EXCEPT ![e] = ScheduledRow]

\* A variant that takes a stored effect for a submission already made.
ReplayedSchedule(e) ==
    IF e = "TIMEOUT" /\ ~Stored(e) THEN Scheduling("SETTLED") ELSE Submitted

\* _result() schedules the timeout and then the settlement; submit() remembers
\* the submission when it returns.
AfterSchedule(e) == IF e = "TIMEOUT" THEN Scheduling("SETTLED") ELSE Submitted

\* A stored row with another due_tick is an identifier collision: submit()
\* raises with nothing remembered, and its caller may submit again.
Schedule ==
    LET e == broker.effect
    IN  /\ broker.at = "insert"
        /\ ScheduleRow(e)
        /\ broker' = IF Stored(e) /\ ~broker.same THEN Scheduling("TIMEOUT")
                     ELSE AfterSchedule(e)
        /\ UNCHANGED <<worker, applied, faults>>

\* The broker process restarts and forgets its submissions, or a store call
\* raises out of submit(); an idempotent adapter submits again.
BrokerRestart ==
    /\ broker # Scheduling("TIMEOUT")
    /\ faults < MaxFaults
    /\ faults' = faults + 1
    /\ broker' = Scheduling("TIMEOUT")
    /\ UNCHANGED <<effect, worker, applied>>

-----------------------------------------------------------------------------
(* The workers *)

Less(n) == IF n = 0 THEN 0 ELSE n - 1

\* The rows after the clock has moved by one.
Ticked(row) == [row EXCEPT !.wait = Less(@), !.lease = Less(@), !.fresh = FALSE]

\* The rows advance_and_claim selects from.
Claimable(row) ==
    \/ row.state = "PENDING" /\ row.wait = 0
    \/ row.state = "IN_FLIGHT" /\ row.lease = 0

Claimed(row, w) ==
    [row EXCEPT !.state = "IN_FLIGHT", !.owner = w, !.lease = LeaseTicks,
                !.attempts = IF @ < AttemptCap THEN @ + 1 ELSE @]

\* advance_and_claim: move the clock, claim what is due or was abandoned.  The
\* limit counts the rows of every RTT and SKIP LOCKED passes over a row that is
\* being acknowledged, so any of the due rows here may be left.
Claim(w) ==
    /\ worker[w].batch = {}
    /\ \E taken \in SUBSET {e \in Effects : Claimable(Ticked(effect[e]))} :
          /\ effect' = [e \in Effects |-> IF e \in taken THEN Claimed(Ticked(effect[e]), w)
                                          ELSE Ticked(effect[e])]
          /\ worker' = [worker EXCEPT ![w] = [NoBatch EXCEPT !.batch = taken]]
    /\ broker' = [broker EXCEPT !.wait = Less(@), !.fresh = FALSE]
    /\ UNCHANGED <<applied, faults>>

\* consumer.apply returns.
Apply(w) ==
    \E e \in worker[w].batch :
        /\ worker[w].effect = NoEffect
        /\ applied' = applied \cup {e}
        /\ worker' = [worker EXCEPT ![w].effect = e, ![w].step = "mark"]
        /\ UNCHANGED <<broker, effect, faults>>

\* A variant that acknowledges what the consumer refused.
AcknowledgeRefused == "mark"

\* Where an exception of the consumer leads.
AfterRefusal == "reschedule"

\* consumer.apply raises.
ApplyRaises(w) ==
    \E e \in worker[w].batch :
        /\ worker[w].effect = NoEffect
        /\ faults < MaxFaults
        /\ faults' = faults + 1
        /\ worker' = [worker EXCEPT ![w].effect = e, ![w].step = AfterRefusal]
        /\ UNCHANGED <<broker, effect, applied>>

NextInBatch(w) ==
    LET rest == worker[w].batch \ {worker[w].effect}
    IN  worker' = [worker EXCEPT ![w] = [NoBatch EXCEPT !.batch = rest]]

\* _require_owned: in flight and owned; the lease's expiry is not looked at.
Owned(w, e) == effect[e].state = "IN_FLIGHT" /\ effect[e].owner = w

Released(row, state, wait) ==
    [row EXCEPT !.state = state, !.wait = wait, !.lease = 0, !.owner = NoWorker]

MarkDelivered(w) ==
    LET e == worker[w].effect
    IN  /\ e # NoEffect /\ worker[w].step = "mark"
        /\ Owned(w, e)
        /\ effect' = [effect EXCEPT ![e] = Released(@, "DELIVERED", 0)]
        /\ NextInBatch(w)
        /\ UNCHANGED <<broker, applied, faults>>

Reschedule(w) ==
    LET e == worker[w].effect
    IN  /\ e # NoEffect /\ worker[w].step = "reschedule"
        /\ Owned(w, e)
        /\ effect' = [effect EXCEPT ![e] =
                        IF @.attempts >= MaxAttempts THEN Released(@, "DEAD_LETTER", 0)
                        ELSE Released(@, "PENDING", RetryDelay)]
        /\ NextInBatch(w)
        /\ UNCHANGED <<broker, applied, faults>>

\* mark_delivered or reschedule raises PermissionError out of run_once.
LostLease(w) ==
    /\ worker[w].effect # NoEffect
    /\ ~Owned(w, worker[w].effect)
    /\ worker' = [worker EXCEPT ![w] = NoBatch]
    /\ UNCHANGED <<broker, effect, applied, faults>>

WorkerCrash(w) ==
    /\ worker[w].batch # {}
    /\ faults < MaxFaults
    /\ faults' = faults + 1
    /\ worker' = [worker EXCEPT ![w] = NoBatch]
    /\ UNCHANGED <<broker, effect, applied>>

\* The supervisor's loop.
RunOnce(w) ==
    Claim(w) \/ Apply(w) \/ ApplyRaises(w) \/ MarkDelivered(w) \/ Reschedule(w) \/ LostLease(w)

SandboxNext ==
    \/ ReadTick \/ Schedule \/ BrokerRestart
    \/ \E w \in Workers : RunOnce(w) \/ WorkerCrash(w)

SandboxSpec == SandboxInit /\ [][SandboxNext]_sandboxVars

-----------------------------------------------------------------------------
(* Properties *)

\* DELIVERED and DEAD_LETTER are final, also when a restarted broker schedules
\* the effects of the same submission again and when a worker answers for an
\* effect that another has taken over.
EffectEndsOnce ==
    [][\A e \in Effects : effect[e].state \in {"DELIVERED", "DEAD_LETTER"} =>
         effect'[e].state = effect[e].state]_sandboxVars

\* An effect reads DELIVERED only when consumer.apply has returned for it,
\* whichever worker applied it and whichever acknowledged it.
DeliveredTookEffect == \A e \in Effects : effect[e].state = "DELIVERED" => e \in applied

\* A submission the broker remembers has both its effects scheduled: a restart
\* between the two inserts of _result, and the submission that follows, never
\* leave an accepted request without its settlement.
SubmittedIsScheduled == broker.at = "submitted" => \A e \in Effects : Stored(e)
=============================================================================
