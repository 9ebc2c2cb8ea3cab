------------------------- MODULE CertificationProofs -------------------------
(***************************************************************************)
(* The sandbox and the certification of partners.                          *)
(*                                                                         *)
(* The provider simulator, for any number of workers, any lease, retry     *)
(* delay and attempt limit and any number of faults. The inductive         *)
(* invariant ties a worker's lease to the row's: while a worker owns a row *)
(* of its batch both leases run out together, and no row is in flight on a *)
(* lease that has run out, because the claim that moves the clock takes    *)
(* such a row over in the same transaction. A second invariant says that   *)
(* who is about to acknowledge an effect has had it applied.               *)
(*                                                                         *)
(* What a stored report says (CertificationRun), for any number of calls,  *)
(* runs, adapters and crashes and any suite, and what a passing verdict    *)
(* says of a trace (TraceEvaluator), for a trace edited any number of      *)
(* times. The invariant of the runs says that a run row belongs to one     *)
(* call until that call files the report, that the row and the call agree  *)
(* while it does, and that every PASSED case stands on a recorded trace of *)
(* its own. That the reference driver's traces pass is computed from what  *)
(* a trace tells, its event types in turn, for each scenario.              *)
(***************************************************************************)
EXTENDS SandboxEffects, CertificationRun, TraceEvaluator, FiniteSetTheorems, WellFoundedInduction, TLAPS

-----------------------------------------------------------------------------
(* The sandbox *)

Batches == [batch : SUBSET Effects, effect : Effects \cup {NoEffect},
            step : {"apply", "mark", "reschedule"}]

-----------------------------------------------------------------------------
(* Rows, batches and the broker's record *)

LEMMA EffectFields ==
    ASSUME NEW row \in Rows
    PROVE  /\ row.attempts \in 0..AttemptCap /\ row.wait \in Nat /\ row.lease \in 0..LeaseTicks
           /\ row.owner \in Workers \cup {NoWorker}
           /\ row.state \in {"ABSENT", "PENDING", "IN_FLIGHT", "DELIVERED", "DEAD_LETTER"}
BY DEF Rows

LEMMA NoBatchType ==
    ASSUME NEW taken \in SUBSET Effects
    PROVE  LET b == [NoBatch EXCEPT !.batch = taken]
           IN  NoBatch \in Batches /\ b \in Batches /\ NoBatch.step = "apply" /\ b.step = "apply"
BY DEF NoBatch, Batches

LEMMA SchedulingType ==
    ASSUME NEW e \in Effects
    PROVE  /\ Scheduling(e) \in Brokers /\ Scheduling(e).at = "tick" /\ Scheduling(e).effect = e
           /\ Submitted \in Brokers /\ Submitted.at = "submitted" /\ Submitted.effect = "SETTLED"
BY DEF Scheduling, Submitted, Brokers, Effects

LEMMA FreshRow ==
    ASSUME broker \in Brokers PROVE ScheduledRow \in Rows /\ ScheduledRow.state = "PENDING"
<1>1. broker.wait \in Nat /\ broker.fresh \in BOOLEAN /\ 0 \in 0..AttemptCap /\ 0 \in 0..LeaseTicks
  BY SandboxAssumption DEF Brokers
<1> QED
  BY <1>1, Zenon DEF ScheduledRow, AbsentRow, Rows

LEMMA TickedRow ==
    ASSUME NEW row \in Rows
    PROVE  Ticked(row) \in Rows /\ Ticked(row).state = row.state
<1>1. Less(row.wait) \in Nat /\ Less(row.lease) \in 0..LeaseTicks
  BY EffectFields, SandboxAssumption DEF Less
<1> QED
  BY <1>1, Zenon DEF Ticked, Rows

LEMMA ClaimedRow ==
    ASSUME NEW row \in Rows, NEW w \in Workers
    PROVE  Claimed(row, w) \in Rows /\ Claimed(row, w).state = "IN_FLIGHT"
<1>1. PICK n \in 0..AttemptCap : n = IF row.attempts < AttemptCap THEN row.attempts + 1
                                     ELSE row.attempts
  BY EffectFields, SandboxAssumption
<1>2. LeaseTicks \in 0..LeaseTicks
  BY SandboxAssumption
<1>3. Claimed(row, w) = [row EXCEPT !.state = "IN_FLIGHT", !.owner = w, !.lease = LeaseTicks,
                                    !.attempts = n]
  BY <1>1, Zenon DEF Claimed
<1> QED
  BY <1>2, <1>3, ZenonT(30) DEF Rows

LEMMA ReleasedRow ==
    ASSUME NEW row \in Rows, NEW wait \in Nat,
           NEW state \in {"PENDING", "DELIVERED", "DEAD_LETTER"}
    PROVE  Released(row, state, wait) \in Rows /\ Released(row, state, wait).state = state
<1>1. 0 \in 0..LeaseTicks
  BY SandboxAssumption
<1> QED
  BY <1>1, Zenon DEF Released, Rows

LEMMA FaultCount ==
    ASSUME SandboxTypeOK, faults < MaxFaults, faults' = faults + 1 PROVE faults' \in 0..MaxFaults
BY SandboxAssumption DEF SandboxTypeOK

-----------------------------------------------------------------------------
(* The steps *)

LEMMA InitType == SandboxInit => SandboxTypeOK
<1> SUFFICES ASSUME SandboxInit PROVE SandboxTypeOK
  OBVIOUS
<1>1. AbsentRow \in Rows
  BY SandboxAssumption DEF AbsentRow, Rows
<1>2. NoBatch \in Batches /\ Scheduling("TIMEOUT") \in Brokers
  BY NoBatchType, SchedulingType DEF Effects
<1> QED
  BY <1>1, <1>2, SandboxAssumption DEF SandboxInit, SandboxTypeOK, Batches

\* What a step of the broker does: it reads the clock, schedules an effect that
\* is not stored yet, or starts over.
LEMMA BrokerStep ==
    ASSUME SandboxTypeOK, ReadTick \/ Schedule \/ BrokerRestart
    PROVE  /\ SandboxTypeOK'
           /\ \A e \in Effects : effect'[e] = effect[e]
                                 \/ (effect[e].state = "ABSENT" /\ effect'[e].state = "PENDING")
           /\ UNCHANGED <<worker, applied>>
<1>1. broker \in Brokers /\ broker.effect \in Effects /\ effect \in [Effects -> Rows]
  BY DEF SandboxTypeOK, Brokers
<1>2. CASE ReadTick
  <2>1. broker' \in Brokers
    <3>1. Offset(broker.effect) \in Nat /\ (Stored(broker.effect) /\ effect[broker.effect].fresh) \in BOOLEAN
      BY DEF Offset
    <3> QED
      BY <1>1, <1>2, <3>1, Zenon DEF ReadTick, Brokers
  <2> QED
    BY <1>2, <2>1, Zenon DEF ReadTick, SandboxTypeOK
<1>3. CASE Schedule
  <2>1. broker' \in Brokers
    <3>1. broker' \in {Scheduling("TIMEOUT"), Scheduling("SETTLED"), Submitted}
      BY <1>3, Zenon DEF Schedule, AfterSchedule
    <3> QED
      BY <3>1, SchedulingType DEF Effects
  <2>2. effect' = IF Stored(broker.effect) THEN effect
                  ELSE [effect EXCEPT ![broker.effect] = ScheduledRow]
    BY <1>3, Zenon DEF Schedule, ScheduleRow
  <2>3. ScheduledRow \in Rows /\ ScheduledRow.state = "PENDING"
    BY <1>1, FreshRow
  <2>4. /\ effect' \in [Effects -> Rows]
        /\ \A e \in Effects : effect'[e] = effect[e]
                              \/ (effect[e].state = "ABSENT" /\ effect'[e].state = "PENDING")
    BY <1>1, <2>2, <2>3, Zenon DEF Stored
  <2> QED
    BY <1>3, <2>1, <2>4, Zenon DEF Schedule, SandboxTypeOK
<1>4. CASE BrokerRestart
  <2>1. broker' \in Brokers /\ faults' \in 0..MaxFaults
    BY <1>4, FaultCount, SchedulingType DEF BrokerRestart, Effects
  <2> QED
    BY <1>4, <2>1, Zenon DEF BrokerRestart, SandboxTypeOK
<1> QED
  BY <1>2, <1>3, <1>4

\* advance_and_claim: every row ages, those taken are in flight, and the worker
\* has not applied any of them.
LEMMA ClaimStep ==
    ASSUME SandboxTypeOK, NEW w \in Workers, Claim(w)
    PROVE  /\ SandboxTypeOK'
           /\ \A e \in Effects : \/ effect'[e].state = effect[e].state
                                 \/ /\ effect[e].state \in {"PENDING", "IN_FLIGHT"}
                                    /\ effect'[e].state = "IN_FLIGHT"
           /\ worker'[w].step = "apply" /\ \A v \in Workers \ {w} : worker'[v] = worker[v]
           /\ broker'.at = broker.at /\ broker'.effect = broker.effect
           /\ UNCHANGED applied
<1>1. broker \in Brokers /\ effect \in [Effects -> Rows] /\ worker \in [Workers -> Batches]
  BY DEF SandboxTypeOK, Batches
<1>2. PICK taken \in SUBSET {e \in Effects : Claimable(Ticked(effect[e]))} :
          /\ effect' = [e \in Effects |-> IF e \in taken THEN Claimed(Ticked(effect[e]), w)
                                          ELSE Ticked(effect[e])]
          /\ worker' = [worker EXCEPT ![w] = [NoBatch EXCEPT !.batch = taken]]
  BY Zenon DEF Claim
<1>3. \A e \in Effects : Ticked(effect[e]) \in Rows /\ Ticked(effect[e]).state = effect[e].state
  BY <1>1, TickedRow
<1>4. \A e \in taken : e \in Effects /\ effect[e].state \in {"PENDING", "IN_FLIGHT"}
  BY <1>3 DEF Claimable
<1>5. \A e \in Effects : \/ effect'[e] = Ticked(effect[e])
                         \/ e \in taken /\ effect'[e] = Claimed(Ticked(effect[e]), w)
  BY <1>2, Zenon
<1>6. effect' = [e \in Effects |-> effect'[e]]
  BY <1>2, Zenon
<1>7. /\ \A e \in Effects : effect'[e] \in Rows
      /\ \A e \in Effects : \/ effect'[e].state = effect[e].state
                            \/ /\ effect[e].state \in {"PENDING", "IN_FLIGHT"}
                               /\ effect'[e].state = "IN_FLIGHT"
  <2> SUFFICES ASSUME NEW e \in Effects
               PROVE  /\ effect'[e] \in Rows
                      /\ \/ effect'[e].state = effect[e].state
                         \/ /\ effect[e].state \in {"PENDING", "IN_FLIGHT"}
                            /\ effect'[e].state = "IN_FLIGHT"
    BY Zenon
  <2>1. CASE effect'[e] = Ticked(effect[e])
    BY <1>3, <2>1, Zenon
  <2>2. CASE e \in taken /\ effect'[e] = Claimed(Ticked(effect[e]), w)
    <3>1. PICK row \in Rows : row = Ticked(effect[e])
      BY <1>3, Zenon
    <3>2. Claimed(row, w) \in Rows /\ Claimed(row, w).state = "IN_FLIGHT"
      BY ClaimedRow
    <3> QED
      BY <1>4, <2>2, <3>1, <3>2, Zenon
  <2> QED
    BY <1>5, <2>1, <2>2, Zenon
<1>8. /\ worker' \in [Workers -> Batches]
      /\ worker'[w].step = "apply" /\ \A v \in Workers \ {w} : worker'[v] = worker[v]
  <2>1. PICK b \in Batches : b = [NoBatch EXCEPT !.batch = taken] /\ b.step = "apply"
    BY NoBatchType
  <2>2. worker' = [worker EXCEPT ![w] = b]
    BY <1>2, <2>1, Zenon
  <2> QED
    BY <1>1, <2>1, <2>2
<1>9. broker' \in Brokers /\ broker'.at = broker.at /\ broker'.effect = broker.effect
  <2>1. Less(broker.wait) \in Nat
    BY <1>1 DEF Less, Brokers
  <2>2. broker' = [broker EXCEPT !.wait = Less(broker.wait), !.fresh = FALSE]
    BY <1>1, Zenon DEF Claim, Brokers
  <2> QED
    BY <1>1, <2>1, <2>2, Zenon DEF Brokers
<1>10. SandboxTypeOK'
  <2>1. effect' \in [Effects -> Rows]
    BY <1>6, <1>7, Zenon
  <2> QED
    BY Zenon, <1>8, <1>9, <2>1 DEF Claim, SandboxTypeOK, Batches
<1> QED
  BY <1>7, <1>8, <1>9, <1>10, Zenon DEF Claim

\* The consumer returns or raises: the worker turns to one of its effects, and
\* to acknowledging it only when it has been applied.
LEMMA ApplyStep ==
    ASSUME SandboxTypeOK, NEW w \in Workers, Apply(w) \/ ApplyRaises(w)
    PROVE  /\ SandboxTypeOK' /\ UNCHANGED <<broker, effect>> /\ applied \subseteq applied'
           /\ worker'[w].step = "mark" => worker'[w].effect \in applied'
           /\ \A v \in Workers \ {w} : worker'[v] = worker[v]
<1>1. worker \in [Workers -> Batches] /\ worker[w] \in Batches
  BY DEF SandboxTypeOK, Batches
<1>2. PICK e \in worker[w].batch, step \in {"mark", "reschedule"} :
         /\ worker' = [worker EXCEPT ![w].effect = e, ![w].step = step]
         /\ applied' = IF step = "mark" THEN applied \cup {e} ELSE applied
         /\ faults' = faults \/ (faults < MaxFaults /\ faults' = faults + 1)
         /\ UNCHANGED <<broker, effect>>
  BY Zenon DEF Apply, ApplyRaises, AfterRefusal
<1>3. e \in Effects
  BY <1>1 DEF Batches
<1>4. PICK b \in Batches : /\ b = [worker[w] EXCEPT !.effect = e, !.step = step]
                           /\ b.effect = e /\ b.step = step
  <2> DEFINE c == [worker[w] EXCEPT !.effect = e, !.step = step]
  <2>1. c \in Batches /\ c.effect = e /\ c.step = step
    BY <1>1, <1>3, Zenon DEF Batches
  <2> QED
    BY <2>1, Zenon
<1>5. worker' = [worker EXCEPT ![w] = b]
  BY <1>1, <1>2, <1>4, Zenon
<1>6. worker' \in [Workers -> Batches] /\ worker'[w] = b /\ \A v \in Workers \ {w} : worker'[v] = worker[v]
  BY <1>1, <1>5, Zenon
<1>7. applied' \subseteq Effects /\ applied \subseteq applied'
  BY <1>2, <1>3 DEF SandboxTypeOK
<1>8. faults' \in 0..MaxFaults
  BY <1>2, FaultCount DEF SandboxTypeOK
<1>9. SandboxTypeOK'
  BY <1>2, <1>6, <1>7, <1>8, Zenon DEF SandboxTypeOK, Batches
<1>10. worker'[w].step = "mark" => worker'[w].effect \in applied'
  <2>1. worker'[w].effect = e /\ worker'[w].step = step
    BY <1>4, <1>6, Zenon
  <2>2. step = "mark" => e \in applied'
    BY <1>2
  <2> QED
    BY <2>1, <2>2, Zenon
<1> QED
  BY <1>2, <1>6, <1>7, <1>9, <1>10, Zenon

\* mark_delivered and reschedule: an owned row is given back, as delivered only
\* from the step that acknowledges.
LEMMA ReleaseStep ==
    ASSUME SandboxTypeOK, NEW w \in Workers, MarkDelivered(w) \/ Reschedule(w)
    PROVE  /\ SandboxTypeOK' /\ UNCHANGED <<broker, applied>>
           /\ \A e \in Effects :
                 \/ effect'[e] = effect[e]
                 \/ /\ effect[e].state = "IN_FLIGHT" /\ effect'[e].state # "ABSENT"
                    /\ effect'[e].state = "DELIVERED" =>
                          worker[w].step = "mark" /\ worker[w].effect = e
           /\ worker'[w].step = "apply" /\ \A v \in Workers \ {w} : worker'[v] = worker[v]
<1>1. effect \in [Effects -> Rows] /\ worker \in [Workers -> Batches] /\ worker[w] \in Batches
  BY DEF SandboxTypeOK, Batches
<1>2. PICK x \in Effects : x = worker[w].effect
  <2>1. worker[w].effect # NoEffect /\ worker[w].effect \in Effects \cup {NoEffect}
    BY <1>1 DEF MarkDelivered, Reschedule, Batches
  <2> QED
    BY <2>1
<1>3. effect[x] \in Rows /\ RetryDelay \in Nat /\ 0 \in Nat /\ effect[x].state = "IN_FLIGHT"
  <2>1. effect[x].state = "IN_FLIGHT"
    BY <1>2, Zenon DEF MarkDelivered, Reschedule, Owned
  <2> QED
    BY <1>1, <2>1, SandboxAssumption
<1>4. PICK row \in Rows : /\ effect' = [effect EXCEPT ![x] = row]
                          /\ row.state # "ABSENT"
                          /\ row.state = "DELIVERED" => worker[w].step = "mark"
  <2>1. CASE MarkDelivered(w)
    <3>1. effect' = [effect EXCEPT ![x] = Released(effect[x], "DELIVERED", 0)]
          /\ worker[w].step = "mark"
      BY <1>1, <1>2, <2>1, Zenon DEF MarkDelivered
    <3> QED
      BY <1>3, <3>1, ReleasedRow
  <2>2. CASE Reschedule(w)
    <3>1. PICK state \in {"PENDING", "DEAD_LETTER"}, wait \in {0, RetryDelay} :
             effect' = [effect EXCEPT ![x] = Released(effect[x], state, wait)]
      <4>1. CASE effect[x].attempts >= MaxAttempts
        <5>1. effect' = [effect EXCEPT ![x] = Released(effect[x], "DEAD_LETTER", 0)]
          BY <1>1, <1>2, <2>2, <4>1, Zenon DEF Reschedule
        <5> QED
          BY <5>1, Zenon
      <4>2. CASE ~(effect[x].attempts >= MaxAttempts)
        <5>1. effect' = [effect EXCEPT ![x] = Released(effect[x], "PENDING", RetryDelay)]
          BY <1>1, <1>2, <2>2, <4>2, Zenon DEF Reschedule
        <5> QED
          BY <5>1, Zenon
      <4> QED
        BY <4>1, <4>2
    <3> QED
      BY <1>3, <3>1, ReleasedRow
  <2> QED
    BY <2>1, <2>2
<1>5. PICK rest \in SUBSET Effects : worker' = [worker EXCEPT ![w] = [NoBatch EXCEPT !.batch = rest]]
  <2>1. worker[w].batch \ {worker[w].effect} \in SUBSET Effects
    BY <1>1 DEF Batches
  <2> QED
    BY <2>1, Zenon DEF MarkDelivered, Reschedule, NextInBatch
<1>6. /\ worker' \in [Workers -> Batches]
      /\ worker'[w].step = "apply" /\ \A v \in Workers \ {w} : worker'[v] = worker[v]
  <2>1. PICK b \in Batches : b = [NoBatch EXCEPT !.batch = rest] /\ b.step = "apply"
    BY NoBatchType
  <2>2. worker' = [worker EXCEPT ![w] = b]
    BY <1>5, <2>1, Zenon
  <2> QED
    BY <1>1, <2>1, <2>2
<1>7. effect' \in [Effects -> Rows] /\ \A e \in Effects : IF e = x THEN effect'[e] = row ELSE effect'[e] = effect[e]
  BY <1>1, <1>4, Zenon
<1>8. SandboxTypeOK' /\ UNCHANGED <<broker, applied>>
  BY <1>6, <1>7, Zenon DEF SandboxTypeOK, Batches, MarkDelivered, Reschedule
<1> QED
  BY <1>2, <1>3, <1>4, <1>6, <1>7, <1>8, Zenon

\* The worker drops its batch: a lost lease, or a crash.
LEMMA DropStep ==
    ASSUME SandboxTypeOK, NEW w \in Workers, LostLease(w) \/ WorkerCrash(w)
    PROVE  /\ SandboxTypeOK' /\ UNCHANGED <<broker, effect, applied>>
           /\ worker'[w].step = "apply" /\ \A v \in Workers \ {w} : worker'[v] = worker[v]
<1>1. worker \in [Workers -> Batches]
  BY DEF SandboxTypeOK, Batches
<1>2. /\ worker' = [worker EXCEPT ![w] = NoBatch] /\ UNCHANGED <<broker, effect, applied>>
      /\ faults' = faults \/ (faults < MaxFaults /\ faults' = faults + 1)
  BY DEF LostLease, WorkerCrash
<1>3. NoBatch \in Batches /\ NoBatch.step = "apply"
  BY NoBatchType
<1>4. faults' \in 0..MaxFaults
  BY <1>2, FaultCount DEF SandboxTypeOK
<1>5. worker' \in [Workers -> Batches]
  BY <1>1, <1>2, <1>3, Zenon
<1> QED
  BY <1>1, <1>2, <1>3, <1>4, <1>5, Zenon DEF SandboxTypeOK, Batches

-----------------------------------------------------------------------------
(* The invariant *)

\* A worker on its way to acknowledge has had the effect applied, and submit()
\* is at the settlement only when the timeout is scheduled.
SandboxInv ==
    /\ SandboxTypeOK
    /\ \A w \in Workers : worker[w].step = "mark" => worker[w].effect \in applied
    /\ broker.effect = "SETTLED" => Stored("TIMEOUT")
    /\ DeliveredTookEffect
    /\ SubmittedIsScheduled

LEMMA InitInv == SandboxInit => SandboxInv
<1> SUFFICES ASSUME SandboxInit PROVE SandboxInv
  OBVIOUS
<1>1. SandboxTypeOK
  BY InitType
<1>2. broker.effect = "TIMEOUT" /\ broker.at = "tick"
  BY SchedulingType DEF SandboxInit, Effects
<1>3. \A e \in Effects : effect[e].state = "ABSENT"
  BY DEF SandboxInit, AbsentRow
<1>4. \A w \in Workers : worker[w].step = "apply"
  BY DEF SandboxInit, NoBatch
<1> QED
  BY <1>1, <1>2, <1>3, <1>4 DEF SandboxInv, DeliveredTookEffect, SubmittedIsScheduled

\* A step that leaves the broker where it is, loses no row, delivers only what
\* has been applied, and turns no worker to an effect it has not applied.
LEMMA KeepsInv ==
    ASSUME SandboxInv, SandboxTypeOK', applied \subseteq applied',
           broker'.at = broker.at, broker'.effect = broker.effect,
           \A e \in Effects : effect[e].state # "ABSENT" => effect'[e].state # "ABSENT",
           \A e \in Effects : effect'[e].state = "DELIVERED" =>
                                 effect[e].state = "DELIVERED" \/ e \in applied,
           \A w \in Workers : worker'[w].step = "mark" =>
                                 worker'[w] = worker[w] \/ worker'[w].effect \in applied'
    PROVE  SandboxInv'
<1>1. \A w \in Workers : worker'[w].step = "mark" => worker'[w].effect \in applied'
  BY DEF SandboxInv
<1>2. broker'.effect = "SETTLED" => Stored("TIMEOUT")'
  BY Zenon DEF SandboxInv, Stored, Effects
<1>3. DeliveredTookEffect'
  BY DEF SandboxInv, DeliveredTookEffect
<1>4. SubmittedIsScheduled'
  BY DEF SandboxInv, SubmittedIsScheduled, Stored
<1> QED
  BY <1>1, <1>2, <1>3, <1>4, Zenon DEF SandboxInv

\* The broker remembers the submission, or turns to the settlement, only when
\* schedule() has left the rows in the store.
LEMMA BrokerInv ==
    ASSUME SandboxInv, ReadTick \/ Schedule \/ BrokerRestart PROVE SandboxInv'
<1>1. /\ SandboxTypeOK' /\ UNCHANGED <<worker, applied>>
      /\ \A e \in Effects : effect'[e] = effect[e]
                            \/ (effect[e].state = "ABSENT" /\ effect'[e].state = "PENDING")
  BY BrokerStep, Zenon DEF SandboxInv
<1>2. DeliveredTookEffect'
  BY <1>1 DEF SandboxInv, DeliveredTookEffect
<1>3. \A w \in Workers : worker'[w].step = "mark" => worker'[w].effect \in applied'
  BY <1>1, Zenon DEF SandboxInv
<1>4. \A e \in Effects : Stored(e) => Stored(e)'
  BY <1>1 DEF Stored
<1>5. (broker'.effect = "SETTLED" => Stored("TIMEOUT")') /\ SubmittedIsScheduled'
  <2>1. CASE ReadTick
    <3>1. broker'.effect = broker.effect /\ broker'.at = "insert"
      BY <2>1 DEF ReadTick
    <3> QED
      BY <1>4, <3>1 DEF SandboxInv, SubmittedIsScheduled, Effects
  <2>2. CASE Schedule
    <3>1. effect'[broker.effect].state # "ABSENT" /\ broker.effect \in Effects
      <4>1. broker.effect \in Effects /\ broker \in Brokers /\ effect \in [Effects -> Rows]
        BY DEF SandboxInv, SandboxTypeOK, Brokers
      <4>2. ScheduledRow.state = "PENDING"
        BY <4>1, FreshRow
      <4>3. effect' = IF Stored(broker.effect) THEN effect
                      ELSE [effect EXCEPT ![broker.effect] = ScheduledRow]
        BY <2>2, Zenon DEF Schedule, ScheduleRow
      <4> QED
        BY <4>1, <4>2, <4>3 DEF Stored
    <3>2. \/ broker' = Scheduling("TIMEOUT")
          \/ broker.effect = "TIMEOUT" /\ broker' = Scheduling("SETTLED")
          \/ broker.effect # "TIMEOUT" /\ broker' = Submitted
      BY <2>2, Zenon DEF Schedule, AfterSchedule
    <3>3. CASE broker' = Scheduling("TIMEOUT")
      BY <3>3, SchedulingType DEF SubmittedIsScheduled, Effects
    <3>4. CASE broker.effect = "TIMEOUT" /\ broker' = Scheduling("SETTLED")
      <4>1. Stored("TIMEOUT")'
        BY <3>1, <3>4 DEF Stored
      <4> QED
        BY <3>4, <4>1, SchedulingType DEF SubmittedIsScheduled, Effects
    <3>5. CASE broker.effect # "TIMEOUT" /\ broker' = Submitted
      <4>1. broker.effect = "SETTLED"
        BY <3>1, <3>5 DEF Effects
      <4>2. Stored("SETTLED")' /\ Stored("TIMEOUT")'
        BY <1>4, <3>1, <4>1 DEF SandboxInv, Effects, Stored
      <4> QED
        BY <4>2 DEF SubmittedIsScheduled, Effects
    <3> QED
      BY <3>2, <3>3, <3>4, <3>5
  <2>3. CASE BrokerRestart
    BY <2>3, SchedulingType DEF BrokerRestart, SubmittedIsScheduled, Effects
  <2> QED
    BY <2>1, <2>2, <2>3
<1> QED
  BY <1>1, <1>2, <1>3, <1>5, Zenon DEF SandboxInv

\* What a worker does keeps it as well.
LEMMA WorkerInv ==
    ASSUME SandboxInv, NEW w \in Workers, RunOnce(w) \/ WorkerCrash(w) PROVE SandboxInv'
<1>1. SandboxTypeOK
  BY DEF SandboxInv
<1>2. CASE Claim(w)
  <2>1. /\ SandboxTypeOK' /\ applied \subseteq applied'
        /\ broker'.at = broker.at /\ broker'.effect = broker.effect
    BY <1>1, <1>2, ClaimStep
  <2>2. /\ \A e \in Effects : effect[e].state # "ABSENT" => effect'[e].state # "ABSENT"
        /\ \A e \in Effects : effect'[e].state = "DELIVERED" =>
                                 effect[e].state = "DELIVERED" \/ e \in applied
    BY <1>1, <1>2, ClaimStep
  <2>3. \A v \in Workers : worker'[v].step = "mark" =>
                              worker'[v] = worker[v] \/ worker'[v].effect \in applied'
    BY <1>1, <1>2, ClaimStep
  <2> QED
    BY <2>1, <2>2, <2>3, KeepsInv
<1>3. CASE Apply(w) \/ ApplyRaises(w)
  <2>1. /\ SandboxTypeOK' /\ applied \subseteq applied'
        /\ broker'.at = broker.at /\ broker'.effect = broker.effect /\ effect' = effect
    BY <1>1, <1>3, ApplyStep
  <2>2. \A v \in Workers : worker'[v].step = "mark" =>
                              worker'[v] = worker[v] \/ worker'[v].effect \in applied'
    BY <1>1, <1>3, ApplyStep
  <2>3. /\ \A e \in Effects : effect[e].state # "ABSENT" => effect'[e].state # "ABSENT"
        /\ \A e \in Effects : effect'[e].state = "DELIVERED" =>
                                 effect[e].state = "DELIVERED" \/ e \in applied
    BY <2>1
  <2> QED
    BY <2>1, <2>2, <2>3, KeepsInv
<1>4. CASE MarkDelivered(w) \/ Reschedule(w)
  <2>1. /\ SandboxTypeOK' /\ applied \subseteq applied'
        /\ broker'.at = broker.at /\ broker'.effect = broker.effect
    BY <1>1, <1>4, ReleaseStep
  <2>2. /\ \A e \in Effects : effect[e].state # "ABSENT" => effect'[e].state # "ABSENT"
        /\ \A e \in Effects : effect'[e].state = "DELIVERED" =>
                                 effect[e].state = "DELIVERED" \/ e \in applied
    BY <1>1, <1>4, ReleaseStep DEF SandboxInv
  <2>3. \A v \in Workers : worker'[v].step = "mark" =>
                              worker'[v] = worker[v] \/ worker'[v].effect \in applied'
    BY <1>1, <1>4, ReleaseStep
  <2> QED
    BY <2>1, <2>2, <2>3, KeepsInv
<1>5. CASE LostLease(w) \/ WorkerCrash(w)
  <2>1. /\ SandboxTypeOK' /\ applied \subseteq applied'
        /\ broker'.at = broker.at /\ broker'.effect = broker.effect /\ effect' = effect
    BY <1>1, <1>5, DropStep
  <2>2. \A v \in Workers : worker'[v].step = "mark" =>
                              worker'[v] = worker[v] \/ worker'[v].effect \in applied'
    BY <1>1, <1>5, DropStep
  <2>3. /\ \A e \in Effects : effect[e].state # "ABSENT" => effect'[e].state # "ABSENT"
        /\ \A e \in Effects : effect'[e].state = "DELIVERED" =>
                                 effect[e].state = "DELIVERED" \/ e \in applied
    BY <2>1
  <2> QED
    BY <2>1, <2>2, <2>3, KeepsInv
<1> QED
  BY <1>2, <1>3, <1>4, <1>5 DEF RunOnce

LEMMA StepInv == SandboxInv /\ [SandboxNext]_sandboxVars => SandboxInv'
<1> SUFFICES ASSUME SandboxInv, [SandboxNext]_sandboxVars PROVE SandboxInv'
  OBVIOUS
<1>1. CASE ReadTick \/ Schedule \/ BrokerRestart
  BY <1>1, BrokerInv
<1>2. CASE \E w \in Workers : RunOnce(w) \/ WorkerCrash(w)
  BY <1>2, WorkerInv
<1>3. CASE UNCHANGED sandboxVars
  BY <1>3, Zenon DEF sandboxVars, SandboxInv, SandboxTypeOK, DeliveredTookEffect,
                     SubmittedIsScheduled, Stored
<1> QED
  BY <1>1, <1>2, <1>3, Zenon DEF SandboxNext

\* The invariant holds whatever workers, broker restarts and crashes do.
THEOREM SandboxInvariant == SandboxSpec => []SandboxInv
BY InitInv, StepInv, PTL DEF SandboxSpec

\* A delivered effect was applied, whatever leases expire between consumer.apply
\* and mark_delivered and whichever of the workers fail.
THEOREM DeliveryTakesEffect == SandboxSpec => []DeliveredTookEffect
<1>1. SandboxInv => DeliveredTookEffect
  BY DEF SandboxInv
<1> QED
  BY <1>1, SandboxInvariant, PTL

\* A remembered submission has its timeout and its settlement in the store,
\* wherever between the two inserts the broker was restarted before.
THEOREM SubmissionsAreScheduled == SandboxSpec => []SubmittedIsScheduled
<1>1. SandboxInv => SubmittedIsScheduled
  BY DEF SandboxInv
<1> QED
  BY <1>1, SandboxInvariant, PTL

(* What a step does to a row that has ended. *)
LEMMA RowStep ==
    ASSUME SandboxInv, [SandboxNext]_sandboxVars, NEW e \in Effects,
           effect[e].state \in {"DELIVERED", "DEAD_LETTER"}
    PROVE  effect'[e].state = effect[e].state
<1>1. SandboxTypeOK
  BY DEF SandboxInv
<1>2. CASE ReadTick \/ Schedule \/ BrokerRestart
  BY <1>1, <1>2, BrokerStep
<1>3. ASSUME NEW w \in Workers, RunOnce(w) \/ WorkerCrash(w) PROVE effect'[e].state = effect[e].state
  <2>1. CASE Claim(w)
    BY <1>1, <2>1, ClaimStep
  <2>2. CASE Apply(w) \/ ApplyRaises(w)
    BY <1>1, <2>2, ApplyStep
  <2>3. CASE MarkDelivered(w) \/ Reschedule(w)
    BY <1>1, <2>3, ReleaseStep
  <2>4. CASE LostLease(w) \/ WorkerCrash(w)
    BY <1>1, <2>4, DropStep
  <2> QED
    BY <1>3, <2>1, <2>2, <2>3, <2>4 DEF RunOnce
<1>4. CASE UNCHANGED sandboxVars
  BY <1>4 DEF sandboxVars
<1> QED
  BY <1>2, <1>3, <1>4, Zenon DEF SandboxNext

\* An effect that was delivered or given up is never taken up again, also when
\* a restarted broker schedules the same submission once more.
THEOREM EffectsEnd == SandboxSpec => EffectEndsOnce
<1>1. SandboxInv /\ [SandboxNext]_sandboxVars =>
        [\A e \in Effects : effect[e].state \in {"DELIVERED", "DEAD_LETTER"} =>
            effect'[e].state = effect[e].state]_sandboxVars
  BY RowStep
<1> QED
  BY <1>1, SandboxInvariant, PTL DEF SandboxSpec, EffectEndsOnce

-----------------------------------------------------------------------------
(* Cases and reports *)

RunRows == {NoRun} \cup [status : {"RUNNING", "PASSED", "FAILED"}, adapter : Adapters]
CallStates == [at : {"idle", "cases", "sign", "done", "refused", "dead"},
               run : Runs \cup {"none"}, adapter : Adapters \cup {"none"}, cases : Seq(Case)]

(* A case that passed on its own trace of this run and adapter. *)
Stands(case, run, adapter, stored) ==
    case.status = "PASSED" =>
        /\ case.trace \in stored /\ case.trace.lawful
        /\ case.trace.run = run /\ case.trace.adapter = adapter

(* No two cases that passed rest on one trace. *)
Apart(cases) ==
    \A i, j \in DOMAIN cases :
        /\ cases[i].status = "PASSED" /\ cases[j].status = "PASSED"
        /\ cases[i].trace = cases[j].trace
        => i = j

Follows(cases, run, adapter, stored) ==
    /\ \A i \in DOMAIN cases : Stands(cases[i], run, adapter, stored)
    /\ Apart(cases)

(* The cases are those the suite asks for, in its order. *)
AsAsked(cases) == \A i \in DOMAIN cases : cases[i].scenario = Suite[i]

Live(k) == k.at \in {"cases", "sign"}

(* What a call in progress relies on. *)
Holds(k, rows, stored, filed) ==
    /\ k.run \in Runs /\ k.adapter \in Adapters
    /\ rows[k.run].status = IF k.at = "cases" THEN "RUNNING" ELSE StatusOf(k.cases)
    /\ rows[k.run].adapter = k.adapter
    /\ \A report \in filed : report.run # k.run
    /\ Follows(k.cases, k.run, k.adapter, stored)
    /\ AsAsked(k.cases) /\ (k.at = "sign" => Len(k.cases) = Len(Suite))

(* What a filed report stands on. *)
Filed(report, rows, stored) ==
    /\ rows[report.run].status = report.status
    /\ rows[report.run].adapter = report.adapter
    /\ report.status = StatusOf(report.cases)
    /\ Follows(report.cases, report.run, report.adapter, stored)
    /\ AsAsked(report.cases) /\ Len(report.cases) = Len(Suite)

CertificationInv ==
    /\ TypeOK
    /\ \A c \in Calls : Live(call[c]) => Holds(call[c], runs, traces, reports)
    /\ \A c, d \in Calls : Live(call[c]) /\ Live(call[d]) /\ call[c].run = call[d].run => c = d
    /\ \A report \in reports : Filed(report, runs, traces)
    /\ \A report, other \in reports : report.run = other.run => report = other

LEMMA StatusType ==
    ASSUME NEW cases
    PROVE  /\ StatusOf(cases) \in {"PASSED", "FAILED"}
           /\ StatusOf(cases) = "PASSED" => \A i \in DOMAIN cases : cases[i].status = "PASSED"
BY DEF StatusOf

LEMMA RowFields ==
    ASSUME NEW row \in RunRows
    PROVE  row.status # "ABSENT" => row # NoRun
BY DEF RunRows, NoRun

LEMMA CallFields ==
    ASSUME NEW k \in CallStates
    PROVE  /\ k.at \in {"idle", "cases", "sign", "done", "refused", "dead"}
           /\ k.run \in Runs \cup {"none"} /\ k.adapter \in Adapters \cup {"none"}
           /\ k.cases \in Seq(Case)
BY DEF CallStates

LEMMA FollowsGrows ==
    ASSUME NEW cases, NEW run, NEW adapter, NEW old, NEW new, old \subseteq new,
           Follows(cases, run, adapter, old)
    PROVE  Follows(cases, run, adapter, new)
BY DEF Follows, Stands

(* One more case: a PASSED one rests on a trace that was not there before. *)
LEMMA FollowsNext ==
    ASSUME NEW cases \in Seq(Case), NEW case \in Case, NEW run, NEW adapter,
           NEW old, NEW new, old \subseteq new, Follows(cases, run, adapter, old),
           Stands(case, run, adapter, new), case.status = "PASSED" => case.trace \notin old
    PROVE  Follows(Append(cases, case), run, adapter, new)
<1> DEFINE longer == Append(cases, case)
           n == Len(cases)
<1>1. /\ DOMAIN cases = 1..n /\ n \in Nat /\ DOMAIN longer = 1..(n + 1)
      /\ \A i \in 1..n : longer[i] = cases[i]
      /\ longer[n + 1] = case
  OBVIOUS
<1>2. \A i \in DOMAIN longer : i \in DOMAIN cases \/ i = n + 1
  BY <1>1
<1>3. \A i \in DOMAIN cases : longer[i] = cases[i]
  BY <1>1
<1> HIDE DEF longer, n
<1>4. \A i \in DOMAIN longer : Stands(longer[i], run, adapter, new)
  <2>1. \A i \in DOMAIN cases : Stands(cases[i], run, adapter, new)
    BY Zenon, FollowsGrows DEF Follows
  <2> QED
    BY <1>1, <1>2, <1>3, <2>1, Zenon
<1>5. \A i \in DOMAIN cases : cases[i].status = "PASSED" => cases[i].trace \in old
  BY DEF Follows, Stands
<1>6. ASSUME NEW i \in DOMAIN longer, NEW j \in DOMAIN longer, longer[i].status = "PASSED",
             longer[j].status = "PASSED", longer[i].trace = longer[j].trace
      PROVE  i = j
  <2>1. CASE i \in DOMAIN cases /\ j \in DOMAIN cases
    BY <1>3, <1>6, <2>1, Zenon DEF Apart, Follows
  <2>2. CASE i \in DOMAIN cases /\ j = n + 1
    <3>1. cases[i].trace \in old /\ case.trace \notin old /\ cases[i].trace = case.trace
      BY <1>1, <1>3, <1>5, <1>6, <2>2, Zenon
    <3> QED
      BY <3>1
  <2>3. CASE i = n + 1 /\ j \in DOMAIN cases
    <3>1. cases[j].trace \in old /\ case.trace \notin old /\ cases[j].trace = case.trace
      BY <1>1, <1>3, <1>5, <1>6, <2>3, Zenon
    <3> QED
      BY <3>1
  <2> QED
    BY <1>2, <2>1, <2>2, <2>3, Zenon
<1>7. Follows(longer, run, adapter, new)
  BY <1>4, <1>6, Zenon DEF Follows, Apart
<1> QED
  BY <1>7 DEF longer

-----------------------------------------------------------------------------
(* A call steps *)

LEMMA CertificationInit == Init => CertificationInv
<1> SUFFICES ASSUME Init PROVE CertificationInv
  OBVIOUS
<1>1. Idle \in [at : {"idle", "cases", "sign", "done", "refused", "dead"},
                run : Runs \cup {"none"}, adapter : Adapters \cup {"none"}, cases : Seq(Case)]
  <2>1. <<>> \in Seq(Case)
    OBVIOUS
  <2> QED
    BY <2>1, Zenon DEF Idle
<1>2. TypeOK
  BY <1>1, CrashAssumption DEF Init, TypeOK
<1>3. \A c \in Calls : ~Live(call[c])
  BY DEF Init, Live, Idle
<1>4. reports = {}
  BY DEF Init
<1> QED
  BY <1>2, <1>3, <1>4 DEF CertificationInv

(* A call that goes on, while the tables only gain what concerns no other  *)
(* call and no report.                                                     *)
LEMMA CallStep ==
    ASSUME CertificationInv, NEW c \in Calls, NEW k \in CallStates,
           call' = [call EXCEPT ![c] = k],
           runs' \in [Runs -> RunRows], NEW r \in Runs,
           \A q \in Runs : q # r => runs'[q] = runs[q],
           traces \subseteq traces', traces' \subseteq Trace,
           reports' = reports, crashes' \in 0..MaxCrashes,
           Live(k) => Holds(k, runs', traces', reports') /\ k.run = r,
           runs'[r] = runs[r] \/ \A report \in reports : report.run # r,
           runs'[r] = runs[r] \/ runs[r] = NoRun \/ (Live(call[c]) /\ call[c].run = r),
           Live(k) => runs[r] = NoRun \/ (Live(call[c]) /\ call[c].run = r)
    PROVE  CertificationInv'
<1>1. call \in [Calls -> CallStates] /\ reports \subseteq Report
  BY DEF CertificationInv, TypeOK, CallStates
<1>2. call'[c] = k /\ \A d \in Calls : d # c => call'[d] = call[d]
  BY <1>1
<1>3. TypeOK'
  <2>1. call' \in [Calls -> CallStates]
    BY <1>1
  <2> QED
    BY <1>1, <2>1, Zenon DEF CertificationInv, TypeOK, CallStates, RunRows
<1>4. ASSUME NEW d \in Calls, d # c, Live(call[d])
      PROVE  call[d].run \in Runs /\ runs[call[d].run] # NoRun
             /\ (runs'[call[d].run] = runs[call[d].run])
             /\ (Live(k) => call[d].run # r)
  <2>1. Holds(call[d], runs, traces, reports)
    BY <1>4 DEF CertificationInv
  <2>2. call[d].run \in Runs /\ runs[call[d].run] # NoRun
    BY <2>1, StatusType DEF Holds, NoRun
  <2>3. ~(Live(call[c]) /\ call[c].run = call[d].run)
    BY <1>4, Zenon DEF CertificationInv
  <2> QED
    BY <2>2, <2>3, Zenon
<1>5. ASSUME NEW d \in Calls, Live(call'[d])
      PROVE  Holds(call'[d], runs', traces', reports')
  <2>1. CASE d = c
    BY <1>2, <1>5, <2>1, Zenon
  <2>2. CASE d # c
    <3>1. call'[d] = call[d]
      BY <1>2, <2>2
    <3>2. Live(call[d]) /\ Holds(call[d], runs, traces, reports)
      BY <1>5, <3>1 DEF CertificationInv
    <3>3. runs'[call[d].run] = runs[call[d].run]
      BY <1>4, <2>2, <3>2
    <3>4. Follows(call[d].cases, call[d].run, call[d].adapter, traces')
      BY <3>2, FollowsGrows DEF Holds
    <3>5. Holds(call[d], runs', traces', reports')
      BY <3>2, <3>3, <3>4 DEF Holds
    <3> QED
      BY <3>1, <3>5, Zenon
  <2> QED
    BY <2>1, <2>2
<1>6. ASSUME NEW d \in Calls, NEW e \in Calls, Live(call'[d]), Live(call'[e]),
             call'[d].run = call'[e].run
      PROVE  d = e
  <2>1. CASE d # c /\ e # c
    <3>1. call'[d] = call[d] /\ call'[e] = call[e]
      BY <1>2, <2>1, Zenon
    <3> QED
      BY <1>6, <3>1, Zenon DEF CertificationInv
  <2>2. CASE d = c /\ e # c
    <3>1. call'[d] = k /\ call'[e] = call[e]
      BY <1>2, <2>2, Zenon
    <3> QED
      BY <1>4, <1>6, <2>2, <3>1, ZenonT(30)
  <2>3. CASE d # c /\ e = c
    <3>1. call'[d] = call[d] /\ call'[e] = k
      BY <1>2, <2>3, Zenon
    <3> QED
      BY <1>4, <1>6, <2>3, <3>1, Zenon
  <2> QED
    BY <2>1, <2>2, <2>3, Zenon
<1>7. ASSUME NEW report \in reports PROVE Filed(report, runs', traces')
  <2>1. report.run \in Runs /\ Filed(report, runs, traces)
    BY <1>1 DEF CertificationInv, Report
  <2>2. runs'[report.run] = runs[report.run]
    BY <2>1, Zenon
  <2>3. Follows(report.cases, report.run, report.adapter, traces')
    BY <2>1, FollowsGrows DEF Filed
  <2> QED
    BY <2>1, <2>2, <2>3 DEF Filed
<1>8. \A report, other \in reports : report.run = other.run => report = other
  BY DEF CertificationInv
<1> QED
  BY <1>3, <1>5, <1>6, <1>7, <1>8, Zenon DEF CertificationInv

(* A call that stops leaves the tables as they are. *)
LEMMA StopStep ==
    ASSUME CertificationInv, NEW c \in Calls, NEW at \in {"refused", "dead"},
           call' = [call EXCEPT ![c].at = at], UNCHANGED <<runs, traces, reports>>,
           crashes' \in 0..MaxCrashes, NEW r \in Runs
    PROVE  CertificationInv'
<1> DEFINE k == [call[c] EXCEPT !.at = at]
<1>1. call[c] \in CallStates
  BY DEF CertificationInv, TypeOK, CallStates
<1>2. k \in CallStates /\ k.at = at
  BY <1>1 DEF CallStates
<1>3. call' = [call EXCEPT ![c] = k]
  OBVIOUS
<1> HIDE DEF k
<1>4. ~Live(k)
  BY <1>2 DEF Live
<1>5. /\ runs' \in [Runs -> RunRows] /\ traces \subseteq traces' /\ traces' \subseteq Trace
      /\ reports' = reports /\ runs'[r] = runs[r] /\ \A q \in Runs : q # r => runs'[q] = runs[q]
  BY DEF CertificationInv, TypeOK, RunRows
<1> QED
  BY <1>2, <1>3, <1>4, <1>5, CallStep, Zenon

LEMMA CertifyInv ==
    ASSUME CertificationInv, NEW c \in Calls, NEW r \in Runs, NEW request \in Request,
           Certify(c, r, request)
    PROVE  CertificationInv'
<1>1. runs \in [Runs -> RunRows] /\ traces \subseteq Trace /\ crashes' \in 0..MaxCrashes
  BY DEF CertificationInv, TypeOK, RunRows, Certify
<1>2. UNCHANGED <<traces, reports>>
  BY DEF Certify
<1>3. CASE Certifiable(request) /\ Begins(r)
  <2> DEFINE row == [status |-> "RUNNING", adapter |-> request.adapter]
             k == [at |-> "cases", run |-> r, adapter |-> request.adapter, cases |-> <<>>]
  <2>1. request.adapter \in Adapters /\ runs[r] = NoRun
    BY <1>3 DEF Request, Begins
  <2>2. row \in RunRows /\ row.status = "RUNNING" /\ row.adapter = request.adapter
    BY <2>1 DEF RunRows
  <2>3. k \in CallStates
    <3>1. <<>> \in Seq(Case)
      OBVIOUS
    <3> QED
      BY <2>1, <3>1, Zenon DEF CallStates
  <2>4. runs' = [runs EXCEPT ![r] = row] /\ call' = [call EXCEPT ![c] = k]
    BY <1>3, <2>1 DEF Certify
  <2>5. k.at = "cases" /\ k.run = r /\ k.adapter = request.adapter /\ k.cases = <<>>
    OBVIOUS
  <2> HIDE DEF k, row
  <2>6. runs'[r] = row /\ runs' \in [Runs -> RunRows] /\ \A q \in Runs : q # r => runs'[q] = runs[q]
    BY <1>1, <2>2, <2>4
  <2>7. \A report \in reports : report.run # r
    <3>1. ASSUME NEW report \in reports PROVE runs[report.run].status \in {"PASSED", "FAILED"}
      BY StatusType DEF CertificationInv, Filed
    <3> QED
      BY <2>1, <3>1 DEF NoRun
  <2>8. Follows(k.cases, k.run, k.adapter, traces')
    <3>1. DOMAIN k.cases = {}
      BY <2>5
    <3> QED
      BY <3>1, Zenon DEF Follows, Apart
  <2>9. Holds(k, runs', traces', reports')
    <3>1. AsAsked(k.cases)
      BY <2>5 DEF AsAsked
    <3> QED
      BY <1>2, <2>1, <2>2, <2>5, <2>6, <2>7, <2>8, <3>1 DEF Holds
  <2>10. traces \subseteq traces' /\ traces' \subseteq Trace /\ reports' = reports
    BY <1>1, <1>2
  <2>11. /\ Live(k) => Holds(k, runs', traces', reports') /\ k.run = r
         /\ runs'[r] = runs[r] \/ \A report \in reports : report.run # r
         /\ runs'[r] = runs[r] \/ runs[r] = NoRun \/ (Live(call[c]) /\ call[c].run = r)
         /\ Live(k) => runs[r] = NoRun \/ (Live(call[c]) /\ call[c].run = r)
    BY <2>1, <2>5, <2>7, <2>9, Zenon
  <2>12. /\ call' = [call EXCEPT ![c] = k] /\ runs' \in [Runs -> RunRows]
         /\ \A q \in Runs : q # r => runs'[q] = runs[q]
    BY <2>4, <2>6, Zenon
  <2> QED
    BY Zenon, <1>1, <2>3, <2>10, <2>11, <2>12, CallStep
<1>4. CASE ~(Certifiable(request) /\ Begins(r))
  <2>1. call' = [call EXCEPT ![c].at = "refused"] /\ UNCHANGED runs
    BY <1>4 DEF Certify
  <2> QED
    BY Zenon, <1>1, <1>2, <2>1, StopStep
<1> QED
  BY <1>3, <1>4

LEMMA AnswerTypes ==
    ASSUME NEW r \in Runs, NEW s \in SuiteScenarios, NEW a \in Adapters, NEW t \in Answers(r, s, a)
    PROVE  t \in Trace
<1> DEFINE own == [run |-> r, scenario |-> s, adapter |-> a, lawful |-> TRUE]
<1>1. own \in Trace
  BY Zenon DEF Trace, NamedScenarios
<1>2. /\ [own EXCEPT !.lawful = FALSE] \in Trace
      /\ \A x \in Runs : [own EXCEPT !.run = x] \in Trace
      /\ \A x \in NamedScenarios : [own EXCEPT !.scenario = x] \in Trace
      /\ \A x \in Adapters : [own EXCEPT !.adapter = x] \in Trace
  <2> HIDE DEF own
  <2> QED
    BY Zenon, <1>1 DEF Trace
<1> QED
  BY ZenonT(30), <1>1, <1>2 DEF Answers

(* A case: the driver may misbehave and the insert may fail. *)
LEMMA ExecuteCaseInv ==
    ASSUME CertificationInv, NEW c \in Calls, ExecuteCase(c)
    PROVE  CertificationInv'
<1> DEFINE k == call[c]
           s == Suite[Len(k.cases) + 1]
<1>1. k \in CallStates /\ k.at = "cases" /\ k.cases \in Seq(Case) /\ Len(k.cases) < Len(Suite)
  BY CallFields DEF CertificationInv, TypeOK, CallStates, ExecuteCase
<1>2. Live(k) /\ Holds(k, runs, traces, reports) /\ k.run \in Runs /\ k.adapter \in Adapters
  BY <1>1 DEF CertificationInv, Live, Holds
<1>3. s \in SuiteScenarios
  <2>1. Suite \in Seq(SuiteScenarios) /\ Len(k.cases) \in Nat /\ Len(Suite) \in Nat
    BY <1>1, SuiteAssumption
  <2> QED
    BY <1>1, <2>1
<1>4. PICK case \in Case :
        /\ call' = [call EXCEPT ![c] = [k EXCEPT !.cases = Append(k.cases, case)]]
        /\ Stands(case, k.run, k.adapter, traces')
        /\ case.status = "PASSED" => case.trace \notin traces
        /\ case.scenario = s
  <2>1. ASSUME NEW trc \in Answers(k.run, s, k.adapter), NEW slow \in BOOLEAN, Records(trc),
               traces' = traces \cup {trc},
               call' = [call EXCEPT ![c].cases =
                            Append(@, CaseOf(s, Judgement(k, trc, slow), trc))]
        PROVE  \E case \in Case :
                 /\ call' = [call EXCEPT ![c] = [k EXCEPT !.cases = Append(k.cases, case)]]
                 /\ Stands(case, k.run, k.adapter, traces')
                 /\ case.status = "PASSED" => case.trace \notin traces
                 /\ case.scenario = s
    <3> DEFINE case == CaseOf(s, Judgement(k, trc, slow), trc)
    <3>1. trc \in Trace
      BY <1>2, <1>3, AnswerTypes
    <3>2. /\ Judgement(k, trc, slow) \in {"PASSED", "FAILED"}
          /\ Judgement(k, trc, slow) = "PASSED" =>
                trc.lawful /\ trc.run = k.run /\ trc.adapter = k.adapter
      BY Zenon DEF Judgement
    <3>3. /\ case \in Case /\ case.status = Judgement(k, trc, slow) /\ case.trace = trc
          /\ case.scenario = s
      <4>1. PICK status \in {"PASSED", "FAILED", "ERROR"} : status = Judgement(k, trc, slow)
        BY <3>2
      <4>2. CaseOf(s, status, trc) \in Case
        BY <1>3, <3>1, Zenon DEF CaseOf, Case
      <4>3. /\ CaseOf(s, status, trc).status = status /\ CaseOf(s, status, trc).trace = trc
            /\ CaseOf(s, status, trc).scenario = s
        BY DEF CaseOf
      <4> QED
        BY <4>1, <4>2, <4>3, Zenon
    <3>4. call' = [call EXCEPT ![c] = [k EXCEPT !.cases = Append(k.cases, case)]]
      BY <2>1
    <3> HIDE DEF case
    <3>5. trc \notin traces
      BY <2>1 DEF Records
    <3>6. Stands(case, k.run, k.adapter, traces')
      BY <2>1, <3>2, <3>3, Zenon DEF Stands
    <3> QED
      BY <3>3, <3>4, <3>5, <3>6, Zenon
  <2>2. ASSUME call' = [call EXCEPT ![c] = ErrorCase(k, s)]
        PROVE  \E case \in Case :
                 /\ call' = [call EXCEPT ![c] = [k EXCEPT !.cases = Append(k.cases, case)]]
                 /\ Stands(case, k.run, k.adapter, traces')
                 /\ case.status = "PASSED" => case.trace \notin traces
                 /\ case.scenario = s
    <3> DEFINE case == CaseOf(s, "ERROR", NoTrace)
    <3>1. case \in Case
      BY <1>3, Zenon DEF CaseOf, Case
    <3>2. case.status = "ERROR" /\ case.scenario = s
      BY DEF CaseOf
    <3>3. call' = [call EXCEPT ![c] = [k EXCEPT !.cases = Append(k.cases, case)]]
      BY <2>2 DEF ErrorCase
    <3> HIDE DEF case
    <3>4. Stands(case, k.run, k.adapter, traces') /\ case.status # "PASSED"
      BY <3>2 DEF Stands
    <3> QED
      BY Zenon, <3>1, <3>2, <3>3, <3>4
  <2> QED
    BY <2>1, <2>2, Zenon DEF ExecuteCase
<1>5. traces \subseteq traces' /\ traces' \subseteq Trace
  <2>1. \/ traces' = traces
        \/ \E t \in Answers(k.run, s, k.adapter) : traces' = traces \cup {t}
    BY Zenon DEF ExecuteCase
  <2>2. \A t \in Answers(k.run, s, k.adapter) : t \in Trace
    BY <1>2, <1>3, AnswerTypes
  <2>3. traces \subseteq Trace
    BY DEF CertificationInv, TypeOK
  <2> QED
    BY <2>1, <2>2, <2>3, Zenon
<1>6. /\ runs' \in [Runs -> RunRows] /\ reports' = reports /\ crashes' \in 0..MaxCrashes
      /\ runs' = runs
  BY DEF CertificationInv, TypeOK, RunRows, ExecuteCase
<1> DEFINE next == [k EXCEPT !.cases = Append(k.cases, case)]
<1>7. Append(k.cases, case) \in Seq(Case)
  BY <1>1
<1>8. /\ next \in CallStates /\ next.at = "cases" /\ next.run = k.run /\ next.adapter = k.adapter
      /\ next.cases = Append(k.cases, case)
  BY Zenon, <1>1, <1>7 DEF CallStates
<1>9. call' = [call EXCEPT ![c] = next]
  BY <1>4
<1> HIDE DEF next
<1>10. AsAsked(next.cases)
  <2>1. AsAsked(k.cases) /\ case.scenario = Suite[Len(k.cases) + 1]
    BY <1>2, <1>4 DEF Holds
  <2> HIDE DEF k, s
  <2> QED
    BY <1>1, <1>8, <2>1 DEF AsAsked
<1> HIDE DEF k, s
<1>11. Follows(next.cases, next.run, next.adapter, traces')
  BY <1>1, <1>2, <1>4, <1>5, <1>8, FollowsNext DEF Holds
<1>12. Holds(next, runs', traces', reports')
  BY <1>1, <1>2, <1>6, <1>8, <1>10, <1>11 DEF Holds
<1>13. k = call[c]
  BY DEF k
<1> QED
  BY <1>2, <1>5, <1>6, <1>8, <1>9, <1>12, <1>13, CallStep, Zenon

LEMMA CompleteInv ==
    ASSUME CertificationInv, NEW c \in Calls, Complete(c)
    PROVE  CertificationInv'
<1> DEFINE k == call[c]
<1>1. k \in CallStates /\ k.at = "cases" /\ Len(k.cases) = Len(Suite)
  BY DEF CertificationInv, TypeOK, CallStates, Complete
<1>2. Live(k) /\ Holds(k, runs, traces, reports) /\ k.run \in Runs /\ k.adapter \in Adapters
  BY <1>1 DEF CertificationInv, Live, Holds
<1>3. /\ runs \in [Runs -> RunRows] /\ traces \subseteq Trace /\ crashes' \in 0..MaxCrashes
      /\ UNCHANGED <<traces, reports>>
  BY DEF CertificationInv, TypeOK, RunRows, Complete
<1>4. CASE Completes(k.run)
  <2> DEFINE status == StatusOf(k.cases)
             row == [runs[k.run] EXCEPT !.status = status]
             next == [k EXCEPT !.at = "sign"]
  <2>1. runs[k.run].status = "RUNNING" /\ runs[k.run].adapter = k.adapter
    BY <1>1, <1>2 DEF Holds
  <2>2. runs[k.run] \in [status : {"RUNNING", "PASSED", "FAILED"}, adapter : Adapters]
    BY <1>2, <1>3, <2>1 DEF RunRows, NoRun
  <2>3. status \in {"PASSED", "FAILED"}
    BY StatusType
  <2> HIDE DEF status
  <2>4. row \in RunRows /\ row.status = status /\ row.adapter = k.adapter
    BY <2>1, <2>2, <2>3 DEF RunRows
  <2>5. runs' = [runs EXCEPT ![k.run] = row] /\ call' = [call EXCEPT ![c] = next]
    BY <1>4 DEF Complete, ReportOf, status
  <2>6. /\ next \in CallStates /\ next.at = "sign" /\ next.run = k.run
        /\ next.adapter = k.adapter /\ next.cases = k.cases
    BY <1>1 DEF CallStates
  <2> HIDE DEF row, next, k
  <2>7. /\ runs' \in [Runs -> RunRows] /\ runs'[k.run] = row
        /\ \A q \in Runs : q # k.run => runs'[q] = runs[q]
    BY <1>2, <1>3, <2>4, <2>5
  <2>8. /\ \A report \in reports : report.run # k.run
        /\ Follows(k.cases, k.run, k.adapter, traces) /\ AsAsked(k.cases)
    BY <1>2 DEF Holds
  <2>9. Holds(next, runs', traces', reports')
    BY <1>1, <1>2, <1>3, <2>4, <2>6, <2>7, <2>8 DEF Holds, status
  <2>10. k = call[c] /\ traces \subseteq traces' /\ traces' \subseteq Trace /\ reports' = reports
    BY <1>3 DEF k
  <2>11. PICK r \in Runs : r = k.run
    BY <1>2
  <2>12. /\ call' = [call EXCEPT ![c] = next] /\ runs' \in [Runs -> RunRows]
         /\ \A q \in Runs : q # r => runs'[q] = runs[q]
    BY <2>5, <2>7, <2>11, Zenon
  <2>13. /\ Live(next) => Holds(next, runs', traces', reports') /\ next.run = r
         /\ runs'[r] = runs[r] \/ \A report \in reports : report.run # r
         /\ runs'[r] = runs[r] \/ runs[r] = NoRun \/ (Live(call[c]) /\ call[c].run = r)
         /\ Live(next) => runs[r] = NoRun \/ (Live(call[c]) /\ call[c].run = r)
    BY <1>2, <2>6, <2>8, <2>9, <2>10, <2>11, Zenon
  <2> QED
    BY Zenon, <1>3, <2>6, <2>10, <2>12, <2>13, CallStep
<1>5. CASE ~Completes(k.run)
  <2>1. call' = [call EXCEPT ![c].at = "refused"] /\ UNCHANGED runs
    BY <1>5 DEF Complete
  <2> QED
    BY Zenon, <1>2, <1>3, <2>1, StopStep
<1> QED
  BY <1>4, <1>5

(* The report: it joins the others, and the call lets go of the run. *)
LEMMA SignAndCommitInv ==
    ASSUME CertificationInv, NEW c \in Calls, SignAndCommit(c)
    PROVE  CertificationInv'
<1> DEFINE k == call[c]
           report == ReportOf(k)
<1>1. k \in CallStates /\ k.at = "sign" /\ k.cases \in Seq(Case)
  BY CallFields DEF CertificationInv, TypeOK, CallStates, SignAndCommit
<1>2. Live(k) /\ Holds(k, runs, traces, reports) /\ k.run \in Runs /\ k.adapter \in Adapters
  BY <1>1 DEF CertificationInv, Live, Holds
<1>3. UNCHANGED <<runs, traces, crashes>> /\ crashes' \in 0..MaxCrashes
  BY DEF CertificationInv, TypeOK, SignAndCommit
<1>4. CASE Stores(k.run)
  <2> DEFINE next == [k EXCEPT !.at = "done"]
  <2>1. call' = [call EXCEPT ![c] = next] /\ reports' = reports \cup {report}
    BY <1>4 DEF SignAndCommit
  <2>2. next \in CallStates /\ next.at = "done"
    BY <1>1 DEF CallStates
  <2>3. report \in Report
    <3>1. PICK status \in {"PASSED", "FAILED"} : status = StatusOf(k.cases)
      BY StatusType
    <3>2. [run |-> k.run, adapter |-> k.adapter, status |-> status, cases |-> k.cases] \in Report
      <4> HIDE DEF k
      <4> QED
        BY <1>1, <1>2, Zenon DEF Report
    <3> QED
      BY <3>1, <3>2, Zenon DEF ReportOf
  <2>4. /\ report.run = k.run /\ report.adapter = k.adapter
        /\ report.status = StatusOf(k.cases) /\ report.cases = k.cases
    BY DEF ReportOf
  <2> HIDE DEF next, report
  <2>5. Filed(report, runs, traces)
    BY <1>1, <1>2, <2>4 DEF Holds, Filed
  <2>6. call \in [Calls -> CallStates]
    BY DEF CertificationInv, TypeOK, CallStates
  <2>7. call'[c] = next /\ \A d \in Calls : d # c => call'[d] = call[d]
    BY <2>1, <2>6
  <2>8. TypeOK'
    <3>1. call' \in [Calls -> CallStates]
      BY <2>1, <2>2, <2>6
    <3>2. reports' \subseteq Report
      BY <2>1, <2>3 DEF CertificationInv, TypeOK
    <3> QED
      BY <1>3, <3>1, <3>2 DEF CertificationInv, TypeOK, CallStates
  <2>9. ASSUME NEW d \in Calls, Live(call'[d])
        PROVE  d # c /\ Live(call[d]) /\ call'[d] = call[d] /\ call[d].run # report.run
    <3>1. d # c
      BY <2>2, <2>7, <2>9 DEF Live
    <3>2. call'[d] = call[d] /\ Live(call[d])
      BY <2>7, <2>9, <3>1
    <3> QED
      BY <1>2, <2>4, <3>1, <3>2, Zenon DEF CertificationInv
  <2>10. ASSUME NEW d \in Calls, Live(call'[d])
         PROVE  Holds(call'[d], runs', traces', reports')
    <3>1. Holds(call[d], runs, traces, reports) /\ call'[d] = call[d]
      BY <2>9, <2>10 DEF CertificationInv
    <3>2. \A other \in reports' : other.run # call[d].run
      BY <2>1, <2>9, <2>10, <3>1 DEF Holds
    <3>3. Holds(call[d], runs, traces, reports')
      BY <3>1, <3>2, Zenon DEF Holds
    <3> QED
      BY <1>3, <3>1, <3>3, Zenon
  <2>11. ASSUME NEW d \in Calls, NEW e \in Calls, Live(call'[d]), Live(call'[e]),
                call'[d].run = call'[e].run
         PROVE  d = e
    <3>1. Live(call[d]) /\ Live(call[e]) /\ call[d].run = call[e].run
      BY <2>9, <2>11, Zenon
    <3> QED
      BY <3>1, Zenon DEF CertificationInv
  <2>12. \A other \in reports' : Filed(other, runs', traces')
    <3>1. \A other \in reports' : Filed(other, runs, traces)
      BY <2>1, <2>5, Zenon DEF CertificationInv
    <3> QED
      BY <1>3, <3>1, Zenon
  <2>13. \A other \in reports : other.run # report.run
    BY <1>2, <2>4 DEF Holds
  <2>14. \A other, another \in reports' : other.run = another.run => other = another
    BY <2>1, <2>13, Zenon DEF CertificationInv
  <2> QED
    BY <2>8, <2>10, <2>11, <2>12, <2>14, Zenon DEF CertificationInv
<1>5. CASE ~Stores(k.run)
  <2>1. call' = [call EXCEPT ![c].at = "refused"] /\ UNCHANGED reports
    BY <1>5 DEF SignAndCommit
  <2> QED
    BY Zenon, <1>2, <1>3, <2>1, StopStep
<1> QED
  BY <1>4, <1>5

LEMMA CrashInv ==
    ASSUME CertificationInv, NEW c \in Calls, Crash(c)
    PROVE  CertificationInv'
<1>1. Live(call[c])
  BY DEF Crash, Live
<1>2. call[c].run \in Runs
  BY <1>1 DEF CertificationInv, Holds
<1>3. call' = [call EXCEPT ![c].at = "dead"] /\ UNCHANGED <<runs, traces, reports>>
  BY DEF Crash
<1>4. crashes' \in 0..MaxCrashes
  BY CrashAssumption DEF CertificationInv, TypeOK, Crash
<1> QED
  BY Zenon, <1>2, <1>3, <1>4, StopStep

LEMMA CertificationStep ==
    ASSUME CertificationInv, [Next]_vars
    PROVE  CertificationInv'
<1>1. CASE UNCHANGED vars
  BY <1>1 DEF CertificationInv, TypeOK, vars
<1>2. CASE Next
  BY <1>2, CertifyInv, ExecuteCaseInv, CompleteInv, SignAndCommitInv, CrashInv DEF Next, Step
<1> QED
  BY <1>1, <1>2

LEMMA CertificationInvariant == Spec => []CertificationInv
BY CertificationInit, CertificationStep, PTL DEF Spec

(* A stored report is the only one of its run and says what the run row    *)
(* says, however many calls name the run and wherever they die.            *)
THEOREM ReportsAreTheirRuns == Spec => []ReportsMatchRuns
<1>1. CertificationInv => ReportsMatchRuns
  BY Zenon DEF CertificationInv, Filed, ReportsMatchRuns
<1> QED
  BY <1>1, CertificationInvariant, PTL

(* A report reads PASSED only when it has a case for each scenario of the  *)
(* suite and each passed on a lawful trace of its own, recorded under the  *)
(* report's run and adapter: whatever drivers answer, for any suite.       *)
THEOREM PassedReportsAreBacked == Spec => []PassedIsBacked
<1>1. ASSUME CertificationInv PROVE PassedIsBacked
  <2> SUFFICES ASSUME NEW report \in reports, report.status = "PASSED"
               PROVE  /\ Len(report.cases) = Len(Suite)
                      /\ \A i \in DOMAIN report.cases : report.cases[i].scenario = Suite[i]
                      /\ \A i \in DOMAIN report.cases :
                          LET t == report.cases[i].trace
                          IN  /\ t \in traces /\ t.lawful /\ t.run = report.run
                              /\ t.adapter = report.adapter
                      /\ \A i, j \in DOMAIN report.cases :
                          report.cases[i].trace = report.cases[j].trace => i = j
    BY Zenon DEF PassedIsBacked
  <2>1. Filed(report, runs, traces)
    BY <1>1 DEF CertificationInv
  <2>2. \A i \in DOMAIN report.cases : report.cases[i].status = "PASSED"
    BY <2>1, StatusType, Zenon DEF Filed
  <2> QED
    BY <2>1, <2>2, Zenon DEF Filed, Follows, Stands, Apart, AsAsked
<1> QED
  BY <1>1, CertificationInvariant, PTL

(* What a step does to the evidence. *)
LEMMA EvidenceStep ==
    ASSUME CertificationInv, [Next]_vars
    PROVE  /\ traces \subseteq traces' /\ reports \subseteq reports'
           /\ \A r \in Runs : runs[r] # NoRun =>
                 /\ runs'[r].adapter = runs[r].adapter
                 /\ runs[r].status # "RUNNING" => runs'[r] = runs[r]
<1>1. runs \in [Runs -> RunRows]
  BY Zenon DEF CertificationInv, TypeOK, RunRows
<1>2. CASE UNCHANGED vars
  BY <1>2 DEF vars
<1>3. ASSUME NEW c \in Calls, NEW r \in Runs, NEW request \in Request, Certify(c, r, request)
      PROVE  /\ UNCHANGED <<traces, reports>>
             /\ \A x \in Runs : runs[x] # NoRun => runs'[x] = runs[x]
  <2>1. UNCHANGED <<traces, reports>> /\ (UNCHANGED runs \/ \E row : runs' = [runs EXCEPT ![r] = row] /\ runs[r] = NoRun)
    BY <1>3, Zenon DEF Certify, Begins
  <2> QED
    BY <1>1, <2>1, Zenon
<1>4. ASSUME NEW c \in Calls, ExecuteCase(c)
      PROVE  traces \subseteq traces' /\ UNCHANGED <<runs, reports>>
  BY <1>4, Zenon DEF ExecuteCase
<1>5. ASSUME NEW c \in Calls, Complete(c)
      PROVE  /\ UNCHANGED <<traces, reports>>
             /\ \A x \in Runs : runs[x] # NoRun =>
                   /\ runs'[x].adapter = runs[x].adapter
                   /\ runs[x].status # "RUNNING" => runs'[x] = runs[x]
  <2>1. UNCHANGED <<traces, reports>>
    BY <1>5, Zenon DEF Complete
  <2>2. PICK own, status : UNCHANGED runs \/ (runs[own].status = "RUNNING"
                                              /\ runs' = [runs EXCEPT ![own].status = status])
    BY <1>5, Zenon DEF Complete, Completes
  <2>3. ASSUME NEW x \in Runs, runs[x] # NoRun
        PROVE  /\ runs'[x].adapter = runs[x].adapter
               /\ runs[x].status # "RUNNING" => runs'[x] = runs[x]
    <3>1. CASE UNCHANGED runs
      BY <3>1
    <3>2. CASE runs[own].status = "RUNNING" /\ runs' = [runs EXCEPT ![own].status = status]
      <4>1. CASE x = own
        BY <1>1, <2>3, <3>2, <4>1 DEF RunRows
      <4>2. CASE x # own
        BY <1>1, <3>2, <4>2, Zenon
      <4> QED
        BY <4>1, <4>2
    <3> QED
      BY <2>2, <3>1, <3>2
  <2> QED
    BY <2>1, <2>3
<1>6. ASSUME NEW c \in Calls, SignAndCommit(c)
      PROVE  reports \subseteq reports' /\ UNCHANGED <<runs, traces>>
  BY <1>6, Zenon DEF SignAndCommit
<1>7. ASSUME NEW c \in Calls, Crash(c) PROVE UNCHANGED <<runs, traces, reports>>
  BY <1>7, Zenon DEF Crash
<1> QED
  BY <1>2, <1>3, <1>4, <1>5, <1>6, <1>7, Zenon DEF Next, Step

\* Certification evidence is append-only and a judged run is never judged
\* again, for any calls of certify that race for a run and any crashes.
THEOREM EvidenceStays == Spec => EvidenceIsKept
<1> DEFINE Kept ==
       /\ traces \subseteq traces' /\ reports \subseteq reports'
       /\ \A r \in Runs : runs[r] # NoRun =>
             /\ runs'[r].adapter = runs[r].adapter
             /\ runs[r].status # "RUNNING" => runs'[r] = runs[r]
<1>1. CertificationInv /\ [Next]_vars => [Kept]_vars
  BY EvidenceStep
<1> QED
  BY <1>1, CertificationInvariant, PTL DEF Spec, EvidenceIsKept

-----------------------------------------------------------------------------
(* Traces *)

EventRecords ==
    [type : EventTypes, scope : Scopes \cup {None}, utt : {"UTT-1", "UTT-2", None},
     rtt : {"RTT-1", "RTT-2", None}, hash : BOOLEAN, at : Nat]

TraceInv ==
    /\ scenario \in Scenarios
    /\ trace \in Seq(EventRecords)

LEMMA EventType ==
    ASSUME NEW type \in EventTypes, NEW scope \in Scopes \cup {None}
    PROVE  Event(type, scope) \in EventRecords
<1> DEFINE hash == type \in WithEvidence
           rtt == AttemptOf(type)
<1>1. hash \in BOOLEAN /\ rtt \in {"RTT-1", "RTT-2", None}
  BY DEF AttemptOf
<1>2. Event(type, scope) =
        [type |-> type, scope |-> scope, utt |-> "UTT-1", rtt |-> rtt, hash |-> hash, at |-> 1]
  BY DEF Event
<1>3. 1 \in Nat
  OBVIOUS
<1> HIDE DEF hash, rtt
<1> QED
  BY <1>1, <1>2, <1>3 DEF EventRecords

LEMMA EventsType ==
    ASSUME NEW types \in Seq(EventTypes)
    PROVE  Events(types) \in Seq(EventRecords)
<1>1. DOMAIN types = 1..Len(types) /\ Len(types) \in Nat /\ \A i \in 1..Len(types) : types[i] \in EventTypes
  OBVIOUS
<1>2. \A i \in 1..Len(types) : Event(types[i], None) \in EventRecords
  BY <1>1, EventType
<1>3. Events(types) \in [1..Len(types) -> EventRecords]
  BY <1>1, <1>2 DEF Events
<1> QED
  BY <1>1, <1>3

LEMMA ReadsType ==
    ASSUME NEW scopes \in Seq(Scopes)
    PROVE  Reads(scopes) \in Seq(EventRecords)
<1>1. /\ DOMAIN scopes = 1..Len(scopes) /\ Len(scopes) \in Nat
      /\ \A i \in 1..Len(scopes) : scopes[i] \in Scopes
  OBVIOUS
<1>2. "HISTORY_READ_ALLOWED" \in EventTypes
  BY DEF EventTypes
<1>3. \A i \in 1..Len(scopes) : Event("HISTORY_READ_ALLOWED", scopes[i]) \in EventRecords
  BY <1>1, <1>2, EventType
<1>4. Reads(scopes) \in [1..Len(scopes) -> EventRecords]
  BY <1>1, <1>3 DEF Reads
<1> QED
  BY <1>1, <1>4

LEMMA StampedType ==
    ASSUME NEW events \in Seq(EventRecords)
    PROVE  Stamped(events) \in Seq(EventRecords)
<1>1. /\ DOMAIN events = 1..Len(events) /\ Len(events) \in Nat
      /\ \A i \in 1..Len(events) : events[i] \in EventRecords
  OBVIOUS
<1> DEFINE at(i) == IF events[i].at = 0 THEN 0 ELSE i
<1>2. ASSUME NEW i \in 1..Len(events) PROVE [events[i] EXCEPT !.at = at(i)] \in EventRecords
  <2>1. at(i) \in Nat
    OBVIOUS
  <2> HIDE DEF at
  <2> QED
    BY <1>1, <2>1 DEF EventRecords
<1>3. Stamped(events) = [i \in 1..Len(events) |-> [events[i] EXCEPT !.at = at(i)]]
  BY <1>1 DEF Stamped
<1> HIDE DEF at
<1>4. Stamped(events) \in [1..Len(events) -> EventRecords]
  BY Zenon, <1>2, <1>3
<1> QED
  BY <1>1, <1>4

LEMMA ConcatType ==
    ASSUME NEW S, NEW a \in Seq(S), NEW b \in Seq(S)
    PROVE  a \o b \in Seq(S)
OBVIOUS

LEMMA TypesOfParts ==
    /\ Finish \in Seq(EventTypes) /\ BothSms \in Seq(EventTypes) /\ Birth \in Seq(EventTypes)
    /\ <<>> \in Seq(EventTypes) /\ <<"FX_QUOTE_BOUND">> \in Seq(EventTypes)
    /\ <<"CALLBACK_REJECTED">> \in Seq(EventTypes)
    /\ <<"CALLBACK_ACCEPTED">> \in Seq(EventTypes)
    /\ <<"SMS_BLOCKED_BEFORE_FINALITY">> \in Seq(EventTypes)
    /\ <<"CALLBACK_ACCEPTED", "EXTERNAL_EVIDENCE_REJECTED">> \in Seq(EventTypes)
    /\ <<"UTT_CREATED", "HISTORY_INDEXED">> \in Seq(EventTypes)
    /\ <<"INTENT_ACCEPTED", "UTT_CREATED">> \in Seq(EventTypes)
    /\ <<"PROVIDER_DISPATCHED", "PROVIDER_ACCEPTED", "IDEMPOTENT_REPLAY_RETURNED">> \in Seq(EventTypes)
    /\ <<"PROVIDER_DISPATCHED", "OUTCOME_UNKNOWN", "RECONCILIATION_REQUIRED">> \in Seq(EventTypes)
    /\ <<"ADAPTER_BINDING_VERIFIED", "PROVIDER_DISPATCHED",
         "ADAPTER_BINDING_MISMATCH_REJECTED">> \in Seq(EventTypes)
    /\ <<"HISTORY_INDEXED", "PLAN_CREATED", "RTT_CREATED", "ADAPTER_BINDING_VERIFIED",
         "PROVIDER_DISPATCHED", "PROVIDER_ACCEPTED">> \in Seq(EventTypes)
<1>1. /\ Finish \in Seq(EventTypes) /\ BothSms \in Seq(EventTypes) /\ Birth \in Seq(EventTypes)
  BY DEF Finish, BothSms, Birth, EventTypes
<1>2. /\ <<>> \in Seq(EventTypes) /\ <<"FX_QUOTE_BOUND">> \in Seq(EventTypes)
      /\ <<"CALLBACK_REJECTED">> \in Seq(EventTypes)
      /\ <<"CALLBACK_ACCEPTED">> \in Seq(EventTypes)
      /\ <<"SMS_BLOCKED_BEFORE_FINALITY">> \in Seq(EventTypes)
  BY DEF EventTypes
<1>3. /\ <<"CALLBACK_ACCEPTED", "EXTERNAL_EVIDENCE_REJECTED">> \in Seq(EventTypes)
      /\ <<"UTT_CREATED", "HISTORY_INDEXED">> \in Seq(EventTypes)
      /\ <<"INTENT_ACCEPTED", "UTT_CREATED">> \in Seq(EventTypes)
  BY DEF EventTypes
<1>4. /\ <<"PROVIDER_DISPATCHED", "PROVIDER_ACCEPTED", "IDEMPOTENT_REPLAY_RETURNED">> \in Seq(EventTypes)
      /\ <<"PROVIDER_DISPATCHED", "OUTCOME_UNKNOWN", "RECONCILIATION_REQUIRED">> \in Seq(EventTypes)
      /\ <<"ADAPTER_BINDING_VERIFIED", "PROVIDER_DISPATCHED",
           "ADAPTER_BINDING_MISMATCH_REJECTED">> \in Seq(EventTypes)
  BY DEF EventTypes
<1>5. <<"HISTORY_INDEXED", "PLAN_CREATED", "RTT_CREATED", "ADAPTER_BINDING_VERIFIED",
        "PROVIDER_DISPATCHED", "PROVIDER_ACCEPTED">> \in Seq(EventTypes)
  BY DEF EventTypes
<1> QED
  BY <1>1, <1>2, <1>3, <1>4, <1>5, Zenon

LEMMA SettledType ==
    ASSUME NEW fx \in {<<>>, <<"FX_QUOTE_BOUND">>}, NEW scopes \in Seq(Scopes)
    PROVE  SettledCase(fx, scopes) \in Seq(EventRecords)
<1> DEFINE start == <<"INTENT_ACCEPTED", "UTT_CREATED">>
           middle == <<"HISTORY_INDEXED", "PLAN_CREATED", "RTT_CREATED",
                       "ADAPTER_BINDING_VERIFIED", "PROVIDER_DISPATCHED", "PROVIDER_ACCEPTED">>
<1>1. start \in Seq(EventTypes) /\ middle \in Seq(EventTypes) /\ fx \in Seq(EventTypes)
  BY TypesOfParts, Zenon
<1>2. SettledCase(fx, scopes) = Events(start \o fx \o middle \o Finish \o BothSms) \o Reads(scopes)
  BY DEF SettledCase
<1> HIDE DEF start, middle
<1>3. start \o fx \o middle \o Finish \o BothSms \in Seq(EventTypes)
  <2>1. start \o fx \in Seq(EventTypes)
    BY <1>1, ConcatType, Zenon
  <2>2. start \o fx \o middle \in Seq(EventTypes)
    BY <1>1, <2>1, ConcatType, Zenon
  <2>3. start \o fx \o middle \o Finish \in Seq(EventTypes)
    BY <2>2, TypesOfParts, ConcatType, Zenon
  <2> QED
    BY <2>3, TypesOfParts, ConcatType, Zenon
<1>4. /\ Events(start \o fx \o middle \o Finish \o BothSms) \in Seq(EventRecords)
      /\ Reads(scopes) \in Seq(EventRecords)
  BY <1>3, EventsType, ReadsType, Zenon
<1> QED
  BY <1>2, <1>4, ConcatType, Zenon

LEMMA ScopePairs ==
    <<"SENDER", "RECEIVER">> \in Seq(Scopes) /\ <<"MERCHANT", "BRANCH">> \in Seq(Scopes)
BY DEF Scopes

LEMMA BirthType ==
    ASSUME NEW types \in Seq(EventTypes)
    PROVE  /\ Events(Birth \o types) \in Seq(EventRecords)
           /\ Events(Birth \o types \o Finish) \in Seq(EventRecords)
           /\ Events(Birth \o types \o Finish \o BothSms) \in Seq(EventRecords)
           /\ Events(Birth \o types \o Finish \o BothSms \o <<"CALLBACK_ACCEPTED">>) \in Seq(EventRecords)
<1>1. Birth \o types \in Seq(EventTypes)
  BY TypesOfParts, ConcatType, Zenon
<1>2. Birth \o types \o Finish \in Seq(EventTypes)
  BY <1>1, TypesOfParts, ConcatType, Zenon
<1>3. Birth \o types \o Finish \o BothSms \in Seq(EventTypes)
  BY <1>2, TypesOfParts, ConcatType, Zenon
<1>4. Birth \o types \o Finish \o BothSms \o <<"CALLBACK_ACCEPTED">> \in Seq(EventTypes)
  BY <1>3, TypesOfParts, ConcatType, Zenon
<1> QED
  BY <1>1, <1>2, <1>3, <1>4, EventsType, Zenon

(* The reference driver's trace of every scenario is made of events. *)
LEMMA ReferenceType ==
    ASSUME NEW s \in Scenarios
    PROVE  Reference[s] \in Seq(EventRecords)
<1>1. ASSUME NEW e \in Seq(EventRecords), Reference[s] = Stamped(e)
      PROVE  Reference[s] \in Seq(EventRecords)
  BY <1>1, StampedType, Zenon
<1>2. CASE s = "P2P_SETTLED"
  <2> DEFINE told == SettledCase(<<>>, <<"SENDER", "RECEIVER">>)
  <2>1. Reference[s] = Stamped(told)
    BY <1>2 DEF Reference
  <2>2. told \in Seq(EventRecords)
    BY SettledType, ScopePairs, Zenon
  <2> QED
    BY <1>1, <2>1, <2>2, Zenon
<1>3. CASE s = "MERCHANT_SUPPLIER_SETTLED"
  <2> DEFINE told == SettledCase(<<>>, <<"MERCHANT", "BRANCH">>)
  <2>1. Reference[s] = Stamped(told)
    BY <1>3 DEF Reference
  <2>2. told \in Seq(EventRecords)
    BY SettledType, ScopePairs, Zenon
  <2> QED
    BY <1>1, <2>1, <2>2, Zenon
<1>4. CASE s = "CROSS_BORDER_SETTLED"
  <2> DEFINE told == SettledCase(<<"FX_QUOTE_BOUND">>, <<"SENDER", "RECEIVER">>)
  <2>1. Reference[s] = Stamped(told)
    BY <1>4 DEF Reference
  <2>2. told \in Seq(EventRecords)
    BY SettledType, ScopePairs, Zenon
  <2> QED
    BY <1>1, <2>1, <2>2, Zenon
<1>5. CASE s = "DUPLICATE_SUBMISSION"
  <2> DEFINE told == Events(Birth \o <<"PROVIDER_DISPATCHED", "PROVIDER_ACCEPTED",
                           "IDEMPOTENT_REPLAY_RETURNED">>)
  <2>1. Reference[s] = Stamped(told)
    BY <1>5 DEF Reference
  <2>2. told \in Seq(EventRecords)
    BY TypesOfParts, BirthType, Zenon
  <2> QED
    BY <1>1, <2>1, <2>2, Zenon
<1>6. CASE s = "UNKNOWN_THEN_RECONCILED"
  <2> DEFINE told == Events(Birth \o <<"PROVIDER_DISPATCHED", "OUTCOME_UNKNOWN",
                           "RECONCILIATION_REQUIRED">> \o Finish)
  <2>1. Reference[s] = Stamped(told)
    BY <1>6 DEF Reference
  <2>2. told \in Seq(EventRecords)
    BY TypesOfParts, BirthType, Zenon
  <2> QED
    BY <1>1, <2>1, <2>2, Zenon
<1>7. CASE s = "TAMPERED_CALLBACK_REJECTED"
  <2> DEFINE told == Events(Birth \o <<"CALLBACK_REJECTED">>)
  <2>1. Reference[s] = Stamped(told)
    BY <1>7 DEF Reference
  <2>2. told \in Seq(EventRecords)
    BY TypesOfParts, BirthType, Zenon
  <2> QED
    BY <1>1, <2>1, <2>2, Zenon
<1>8. CASE s = "DUPLICATE_CALLBACK_EXACTLY_ONCE"
  <2> DEFINE told == Events(Birth \o <<"CALLBACK_ACCEPTED">> \o Finish \o BothSms
                       \o <<"CALLBACK_ACCEPTED">>)
  <2>1. Reference[s] = Stamped(told)
    BY <1>8 DEF Reference
  <2>2. told \in Seq(EventRecords)
    BY TypesOfParts, BirthType, Zenon
  <2> QED
    BY <1>1, <2>1, <2>2, Zenon
<1>9. CASE s = "SETTLEMENT_AMOUNT_MISMATCH_REJECTED"
  <2> DEFINE told == Events(Birth \o <<"CALLBACK_ACCEPTED", "EXTERNAL_EVIDENCE_REJECTED">>)
  <2>1. Reference[s] = Stamped(told)
    BY <1>9 DEF Reference
  <2>2. told \in Seq(EventRecords)
    BY TypesOfParts, BirthType, Zenon
  <2> QED
    BY <1>1, <2>1, <2>2, Zenon
<1>10. CASE s = "HISTORY_ACCESS_CONTROL"
  <2> DEFINE indexed == Events(<<"UTT_CREATED", "HISTORY_INDEXED">>)
             read == Reads(<<"SENDER", "RECEIVER">>)
             denied == Event("HISTORY_READ_DENIED", "UNRELATED")
  <2>1. Reference[s] = Stamped(indexed \o read \o <<denied>>)
    BY <1>10 DEF Reference
  <2>2. indexed \in Seq(EventRecords) /\ read \in Seq(EventRecords)
    BY TypesOfParts, ScopePairs, EventsType, ReadsType, Zenon
  <2>3. denied \in EventRecords
    BY EventType DEF EventTypes, Scopes
  <2> HIDE DEF indexed, read, denied
  <2>4. <<denied>> \in Seq(EventRecords)
    BY <2>3
  <2>5. indexed \o read \in Seq(EventRecords)
    BY <2>2, ConcatType, Zenon
  <2>6. indexed \o read \o <<denied>> \in Seq(EventRecords)
    BY <2>4, <2>5, ConcatType, Zenon
  <2> QED
    BY <1>1, <2>1, <2>6, Zenon
<1>11. CASE s = "SMS_FINALITY_GATE"
  <2> DEFINE told == Events(Birth \o <<"SMS_BLOCKED_BEFORE_FINALITY">> \o Finish \o BothSms)
  <2>1. Reference[s] = Stamped(told)
    BY <1>11 DEF Reference
  <2>2. told \in Seq(EventRecords)
    BY TypesOfParts, BirthType, Zenon
  <2> QED
    BY <1>1, <2>1, <2>2, Zenon
<1>12. CASE s = "ADAPTER_VERSION_PIN"
  <2> DEFINE told == Events(Birth \o <<"ADAPTER_BINDING_VERIFIED", "PROVIDER_DISPATCHED",
                           "ADAPTER_BINDING_MISMATCH_REJECTED">>)
  <2>1. Reference[s] = Stamped(told)
    BY <1>12 DEF Reference
  <2>2. told \in Seq(EventRecords)
    BY TypesOfParts, BirthType, Zenon
  <2> QED
    BY <1>1, <2>1, <2>2, Zenon
<1> QED
  BY <1>2, <1>3, <1>4, <1>5, <1>6, <1>7, <1>8, <1>9, <1>10, <1>11, <1>12 DEF Scenarios, Settled

LEMMA TraceInitInv == TraceInit => TraceInv
<1> SUFFICES ASSUME TraceInit PROVE TraceInv
  OBVIOUS
<1>1. scenario \in Scenarios
  BY JudgedAssumption DEF TraceInit
<1> QED
  BY <1>1, ReferenceType DEF TraceInit, TraceInv

LEMMA RemoveType ==
    ASSUME NEW S, NEW t \in Seq(S), NEW i \in DOMAIN t
    PROVE  Without(t, i) \in Seq(S) /\ Len(Without(t, i)) = Len(t) - 1
BY SMTT(30) DEF Without

LEMMA InsertType ==
    ASSUME NEW S, NEW t \in Seq(S), NEW i \in 1..(Len(t) + 1), NEW e \in S
    PROVE  With(t, i, e) \in Seq(S)
BY DEF With

LEMMA ChangeType ==
    ASSUME NEW S, NEW t \in Seq(S), NEW i \in DOMAIN t, NEW e \in S
    PROVE  [t EXCEPT ![i] = e] \in Seq(S)
OBVIOUS

(* What the system under test does instead is still made of events. *)
LEMMA TraceStepInv ==
    ASSUME TraceInv, [TraceNext]_traceVars
    PROVE  TraceInv'
<1>1. CASE UNCHANGED traceVars
  BY <1>1 DEF TraceInv, traceVars
<1>2. ASSUME NEW t \in Seq(EventRecords), Edit(t) PROVE TraceInv'
  BY <1>2, StampedType DEF Edit, TraceInv
<1>3. CASE TraceNext
  <2>1. trace \in Seq(EventRecords) /\ DOMAIN trace = 1..Len(trace) /\ Len(trace) \in Nat
    BY DEF TraceInv
  <2>2. PICK i \in DOMAIN trace :
          \/ Omit(i)
          \/ \E type \in Injected : Add(i, type)
          \/ \E j \in DOMAIN trace : Move(i, j)
          \/ LoseHash(i)
          \/ OtherTransaction(i)
          \/ OtherAttempt(i)
          \/ NoTransaction(i)
          \/ NoAttempt(i)
          \/ Backdate(i)
    BY <1>3, Zenon DEF TraceNext
  <2>3. trace[i] \in EventRecords /\ i \in 1..(Len(trace) + 1)
    BY <2>1, <2>2
  <2>4. CASE Omit(i)
    BY <1>2, <2>1, <2>4, RemoveType, Zenon DEF Omit
  <2>5. ASSUME NEW type \in Injected, Add(i, type) PROVE TraceInv'
    <3>1. Event(type, None) \in EventRecords
      BY EditsAssumption, EventType
    <3> QED
      BY <1>2, <2>1, <2>3, <2>5, <3>1, InsertType, Zenon DEF Add
  <2>6. ASSUME NEW j \in DOMAIN trace, Move(i, j) PROVE TraceInv'
    <3>1. PICK rest : rest = Without(trace, i)
      OBVIOUS
    <3>2. rest \in Seq(EventRecords) /\ Len(rest) = Len(trace) - 1
      BY Zenon, <2>1, <3>1, RemoveType
    <3>3. j \in 1..(Len(rest) + 1)
      BY <2>1, <3>2
    <3>4. With(rest, j, trace[i]) \in Seq(EventRecords)
      BY <2>3, <3>2, <3>3, InsertType
    <3> QED
      BY <1>2, <2>6, <3>1, <3>4, Zenon DEF Move
  <2>7. ASSUME NEW e \in EventRecords, Edit([trace EXCEPT ![i] = e]) PROVE TraceInv'
    BY <1>2, <2>1, <2>7, ChangeType, Zenon
  <2>8. CASE LoseHash(i)
    <3>1. [trace[i] EXCEPT !.hash = FALSE] \in EventRecords
      BY Zenon, <2>3 DEF EventRecords
    <3>2. Edit([trace EXCEPT ![i] = [trace[i] EXCEPT !.hash = FALSE]])
      BY <2>8 DEF LoseHash
    <3> QED
      BY <2>7, <3>1, <3>2, Zenon
  <2>9. CASE OtherTransaction(i)
    <3>1. [trace[i] EXCEPT !.utt = "UTT-2"] \in EventRecords
      BY <2>3 DEF EventRecords
    <3>2. Edit([trace EXCEPT ![i] = [trace[i] EXCEPT !.utt = "UTT-2"]])
      BY <2>9 DEF OtherTransaction
    <3> QED
      BY <2>7, <3>1, <3>2, Zenon
  <2>10. CASE OtherAttempt(i)
    <3>1. [trace[i] EXCEPT !.rtt = "RTT-2"] \in EventRecords
      BY <2>3 DEF EventRecords
    <3>2. Edit([trace EXCEPT ![i] = [trace[i] EXCEPT !.rtt = "RTT-2"]])
      BY <2>10 DEF OtherAttempt
    <3> QED
      BY <2>7, <3>1, <3>2, Zenon
  <2>11. CASE Backdate(i)
    <3>1. [trace[i] EXCEPT !.at = 0] \in EventRecords
      BY <2>3 DEF EventRecords
    <3>2. Edit([trace EXCEPT ![i] = [trace[i] EXCEPT !.at = 0]])
      BY <2>11 DEF Backdate
    <3> QED
      BY <2>7, <3>1, <3>2, Zenon
  <2>12. CASE NoTransaction(i)
    <3>1. [trace[i] EXCEPT !.utt = None] \in EventRecords
      BY <2>3 DEF EventRecords
    <3>2. Edit([trace EXCEPT ![i] = [trace[i] EXCEPT !.utt = None]])
      BY <2>12 DEF NoTransaction
    <3> QED
      BY <2>7, <3>1, <3>2, Zenon
  <2>13. CASE NoAttempt(i)
    <3>1. [trace[i] EXCEPT !.rtt = None] \in EventRecords
      BY <2>3 DEF EventRecords
    <3>2. Edit([trace EXCEPT ![i] = [trace[i] EXCEPT !.rtt = None]])
      BY <2>13 DEF NoAttempt
    <3> QED
      BY <2>7, <3>1, <3>2, Zenon
  <2> QED
    BY <2>2, <2>4, <2>5, <2>6, <2>8, <2>9, <2>10, <2>11, <2>12, <2>13, Zenon
<1> QED
  BY <1>1, <1>3

LEMMA TraceInvariant == TraceSpec => []TraceInv
BY TraceInitInv, TraceStepInv, PTL DEF TraceSpec

-----------------------------------------------------------------------------
(* Verdicts *)

LEMMA LeastNumber ==
    ASSUME NEW T \in SUBSET Nat, T # {}
    PROVE  \E n \in T : \A m \in T : n <= m
<1> DEFINE R == OpToRel(<, Nat)
<1>1. IsWellFoundedOn(R, Nat)
  BY NatLessThanWellFounded, Zenon
<1>2. PICK n \in T : \A m \in T : ~(<<m, n>> \in R)
  <2> HIDE DEF R
  <2> QED
    BY <1>1, WFMin, Zenon
<1>3. \A m \in T : ~(m < n)
  BY <1>2, Zenon DEF OpToRel
<1> QED
  BY <1>3

LEMMA FirstIsLeast ==
    ASSUME NEW t \in Seq(EventRecords), NEW type, Has(t, type)
    PROVE  /\ First(t, type) \in Positions(t, type)
           /\ \A i \in Positions(t, type) : First(t, type) <= i
<1>1. Positions(t, type) \in SUBSET Nat /\ Positions(t, type) # {}
  BY DEF Positions, Has
<1>2. \E n \in Positions(t, type) : \A i \in Positions(t, type) : n <= i
  BY <1>1, LeastNumber, Zenon
<1> QED
  BY <1>2, Zenon DEF First, Min

(* The evaluator compares first occurrences, yet every occurrence of the   *)
(* later type has one of the earlier type before it.                       *)
LEMMA OrderedMeansPreceded ==
    ASSUME NEW t \in Seq(EventRecords), NEW a, NEW b, InOrder(t, a, b), Has(t, a),
           NEW i \in Positions(t, b)
    PROVE  \E j \in Positions(t, a) : j < i
<1>1. Has(t, b)
  BY DEF Has
<1>2. First(t, a) < First(t, b)
  BY <1>1 DEF InOrder
<1>3. /\ First(t, a) \in Positions(t, a) /\ First(t, b) \in Positions(t, b)
      /\ First(t, b) <= i
  BY <1>1, FirstIsLeast
<1>4. \A c : Positions(t, c) \in SUBSET Nat
  BY DEF Positions
<1>5. First(t, a) \in Nat /\ First(t, b) \in Nat /\ i \in Nat
  BY <1>3, <1>4
<1>6. First(t, a) < i
  BY <1>2, <1>3, <1>5
<1> QED
  BY <1>3, <1>6

LEMMA CountedOccurs ==
    ASSUME NEW t, NEW type, Count(t, type) = 1
    PROVE  Has(t, type)
<1>1. Cardinality({}) = 0
  BY FS_EmptySet
<1> QED
  BY <1>1 DEF Count, Has

(* The pairs of _HAPPY_ORDER that a settlement is told by. *)
CausalPairs ==
    {<<"RTT_CREATED", "PROVIDER_DISPATCHED">>, <<"PROVIDER_DISPATCHED", "PROVIDER_ACCEPTED">>,
     <<"PROVIDER_ACCEPTED", "EXTERNAL_EVIDENCE_VERIFIED">>,
     <<"EXTERNAL_EVIDENCE_VERIFIED", "RTT_SUCCEEDED">>, <<"RTT_SUCCEEDED", "PLAN_FINALIZED">>,
     <<"PLAN_FINALIZED", "SMS_PREPARED">>}

Causes == {pair[1] : pair \in CausalPairs}

LEMMA HappyPairs == CausalPairs \subseteq HappyOrder
<1> DEFINE types == <<"UTT_CREATED", "RTT_CREATED", "PROVIDER_DISPATCHED",
                      "PROVIDER_ACCEPTED">> \o Finish \o <<"SMS_PREPARED">>
<1>1. /\ Len(types) = 8
      /\ types[2] = "RTT_CREATED" /\ types[3] = "PROVIDER_DISPATCHED"
      /\ types[4] = "PROVIDER_ACCEPTED" /\ types[5] = "EXTERNAL_EVIDENCE_VERIFIED"
      /\ types[6] = "RTT_SUCCEEDED" /\ types[7] = "PLAN_FINALIZED"
      /\ types[8] = "SMS_PREPARED"
  BY DEF Finish
<1>2. HappyOrder = Chain(types)
  BY DEF HappyOrder
<1> HIDE DEF types
<1>3. ASSUME NEW i \in 1..7 PROVE <<types[i], types[i + 1]>> \in Chain(types)
  <2>1. i \in 1..(Len(types) - 1)
    BY <1>1
  <2> QED
    BY <2>1, Zenon DEF Chain
<1>4. /\ <<types[2], types[3]>> \in Chain(types) /\ <<types[3], types[4]>> \in Chain(types)
      /\ <<types[4], types[5]>> \in Chain(types) /\ <<types[5], types[6]>> \in Chain(types)
      /\ <<types[6], types[7]>> \in Chain(types) /\ <<types[7], types[8]>> \in Chain(types)
  <2>1. /\ 2 \in 1..7 /\ 3 \in 1..7 /\ 4 \in 1..7 /\ 5 \in 1..7 /\ 6 \in 1..7 /\ 7 \in 1..7
        /\ 2 + 1 = 3 /\ 3 + 1 = 4 /\ 4 + 1 = 5 /\ 5 + 1 = 6 /\ 6 + 1 = 7 /\ 7 + 1 = 8
    OBVIOUS
  <2> HIDE DEF Chain
  <2> QED
    BY <1>3, <2>1
<1> QED
  BY <1>1, <1>2, <1>4, Zenon DEF CausalPairs

(* What _EXPECTATIONS asks of a settlement scenario. *)
LEMMA SettlementExpected ==
    ASSUME NEW s \in Settled
    PROVE  /\ CausalPairs \subseteq Expectations[s].ordered
           /\ \A type \in Causes :
                 type \in DOMAIN Expectations[s].exact /\ Expectations[s].exact[type] = 1
<1>1. ASSUME NEW types, Causes \subseteq types
      PROVE  \A type \in Causes : type \in DOMAIN Once(types) /\ Once(types)[type] = 1
  BY <1>1 DEF Causes, CausalPairs, Once
<1>2. /\ Causes \subseteq DOMAIN HappyExact /\ \A type \in Causes : HappyExact[type] = 1
  BY DEF Causes, CausalPairs, HappyExact, Once
<1>4. CASE s = "P2P_SETTLED"
  <2>1. Expectations[s] = Expect(HappyExact, TwoReads, {}, HappyOrder, {"SENDER", "RECEIVER"})
    BY <1>4 DEF Expectations, Scenarios, Settled
  <2>2. Expectations[s].exact = HappyExact /\ Expectations[s].ordered = HappyOrder
    BY <2>1 DEF Expect
  <2> QED
    BY <1>2, <2>2, HappyPairs, Zenon
<1>5. CASE s = "MERCHANT_SUPPLIER_SETTLED"
  <2>1. Expectations[s] = Expect(HappyExact, TwoReads, {}, HappyOrder, {"MERCHANT", "BRANCH"})
    BY <1>5 DEF Expectations, Scenarios, Settled
  <2>2. Expectations[s].exact = HappyExact /\ Expectations[s].ordered = HappyOrder
    BY <2>1 DEF Expect
  <2> QED
    BY <1>2, <2>2, HappyPairs, Zenon
<1>6. CASE s = "CROSS_BORDER_SETTLED"
  <2> DEFINE types == DOMAIN HappyExact \cup {"FX_QUOTE_BOUND"}
             ordered == HappyOrder \cup {<<"UTT_CREATED", "FX_QUOTE_BOUND">>}
  <2>1. Expectations[s] = Expect(Once(types), TwoReads, {}, ordered, {"SENDER", "RECEIVER"})
    BY <1>6 DEF Expectations, Scenarios, Settled
  <2>2. Expectations[s].exact = Once(types) /\ Expectations[s].ordered = ordered
    BY <2>1 DEF Expect
  <2>3. Causes \subseteq types /\ CausalPairs \subseteq ordered
    BY <1>2, HappyPairs, Zenon
  <2> QED
    BY <1>1, <2>2, <2>3, ZenonT(30)
<1> QED
  BY <1>4, <1>5, <1>6 DEF Settled

(* A settlement case passes only with the whole story told in order, for   *)
(* traces that deviate from the reference any number of times: nothing is  *)
(* assumed of the edits but that they leave a sequence of events.          *)
THEOREM PassingSettlementsAreCausal == TraceSpec => []SettlementIsCausal
<1>1. ASSUME TraceInv, Accepted, scenario \in Settled, NEW pair \in CausalPairs,
             NEW i \in Positions(trace, pair[2])
      PROVE  After(i, pair[1])
  <2>1. trace \in Seq(EventRecords)
    BY <1>1 DEF TraceInv
  <2>2. MeetsExpectation(trace, Expectations[scenario])
    BY <1>1 DEF Accepted, Passes
  <2>3. pair \in Expectations[scenario].ordered /\ pair[1] \in Causes
    BY <1>1, SettlementExpected DEF Causes
  <2>4. InOrder(trace, pair[1], pair[2])
    BY <2>2, <2>3, Zenon DEF MeetsExpectation
  <2>5. Count(trace, pair[1]) = 1
    BY <1>1, <2>2, <2>3, SettlementExpected, Zenon DEF MeetsExpectation
  <2>6. Has(trace, pair[1])
    BY <2>5, CountedOccurs
  <2> QED
    BY <2>1, <2>4, <2>6, OrderedMeansPreceded, Zenon DEF After
<1>2. ASSUME TraceInv, Accepted, scenario \in Settled, NEW i \in DOMAIN trace,
             NEW a, NEW b, <<a, b>> \in CausalPairs, trace[i].type = b
      PROVE  After(i, a)
  <2> DEFINE pair == <<a, b>>
  <2>1. pair[1] = a /\ pair[2] = b /\ pair \in CausalPairs
    BY <1>2
  <2> HIDE DEF pair
  <2>2. i \in Positions(trace, pair[2])
    BY <1>2, <2>1 DEF Positions
  <2>3. After(i, pair[1])
    BY <1>1, <1>2, <2>1, <2>2, Zenon
  <2> QED
    BY <2>1, <2>3, Zenon
<1>3. /\ <<"PLAN_FINALIZED", "SMS_PREPARED">> \in CausalPairs
      /\ <<"RTT_SUCCEEDED", "PLAN_FINALIZED">> \in CausalPairs
      /\ <<"EXTERNAL_EVIDENCE_VERIFIED", "RTT_SUCCEEDED">> \in CausalPairs
      /\ <<"PROVIDER_ACCEPTED", "EXTERNAL_EVIDENCE_VERIFIED">> \in CausalPairs
      /\ <<"PROVIDER_DISPATCHED", "PROVIDER_ACCEPTED">> \in CausalPairs
      /\ <<"RTT_CREATED", "PROVIDER_DISPATCHED">> \in CausalPairs
  BY Zenon DEF CausalPairs
<1>4. ASSUME TraceInv PROVE SettlementIsCausal
  <2> SUFFICES ASSUME Accepted, scenario \in Settled, NEW i \in DOMAIN trace
               PROVE  CASE trace[i].type = "SMS_PREPARED" -> After(i, "PLAN_FINALIZED")
                        [] trace[i].type = "PLAN_FINALIZED" -> After(i, "RTT_SUCCEEDED")
                        [] trace[i].type = "RTT_SUCCEEDED" ->
                              After(i, "EXTERNAL_EVIDENCE_VERIFIED")
                        [] trace[i].type = "EXTERNAL_EVIDENCE_VERIFIED" ->
                              After(i, "PROVIDER_ACCEPTED")
                        [] trace[i].type = "PROVIDER_ACCEPTED" ->
                              After(i, "PROVIDER_DISPATCHED")
                        [] trace[i].type = "PROVIDER_DISPATCHED" -> After(i, "RTT_CREATED")
                        [] OTHER -> TRUE
    BY Zenon DEF SettlementIsCausal
  <2>1. /\ trace[i].type = "SMS_PREPARED" => After(i, "PLAN_FINALIZED")
        /\ trace[i].type = "PLAN_FINALIZED" => After(i, "RTT_SUCCEEDED")
        /\ trace[i].type = "RTT_SUCCEEDED" => After(i, "EXTERNAL_EVIDENCE_VERIFIED")
        /\ trace[i].type = "EXTERNAL_EVIDENCE_VERIFIED" => After(i, "PROVIDER_ACCEPTED")
        /\ trace[i].type = "PROVIDER_ACCEPTED" => After(i, "PROVIDER_DISPATCHED")
        /\ trace[i].type = "PROVIDER_DISPATCHED" => After(i, "RTT_CREATED")
    BY <1>2, <1>3, <1>4, Zenon
  <2> QED
    BY <2>1
<1> QED
  BY <1>4, TraceInvariant, PTL

LEMMA OneOfAtMostOne ==
    ASSUME NEW S, IsFiniteSet(S), Cardinality(S) <= 1, NEW x \in S, NEW y \in S
    PROVE  x = y
<1> SUFFICES ASSUME x # y PROVE FALSE
  OBVIOUS
<1>1. IsFiniteSet({x}) /\ Cardinality({x}) = 1
  BY FS_Singleton, Zenon
<1>2. Cardinality({x} \cup {y}) = Cardinality({x}) + 1
  <2>1. y \notin {x}
    OBVIOUS
  <2> QED
    BY <1>1, <2>1, FS_AddElement, Zenon
<1>3. {x} \cup {y} \in SUBSET S
  OBVIOUS
<1>4. Cardinality({x} \cup {y}) <= Cardinality(S) /\ Cardinality(S) \in Nat
  BY <1>3, FS_Subset, FS_CardinalityType
<1> QED
  BY <1>1, <1>2, <1>4

(* No scenario passes with an effect for which the trace shows no external *)
(* evidence, or with evidence that is not hashed or names another          *)
(* transaction than an event of the trace does: EffectsAreEvidenced for    *)
(* any number of deviations from the reference trace.                      *)
THEOREM PassingEffectsAreEvidenced == TraceSpec => []EffectsAreEvidenced
<1>1. ASSUME TraceInv PROVE EffectsAreEvidenced
  <2> SUFFICES ASSUME Accepted, \/ Has(trace, "SMS_PREPARED") \/ Has(trace, "PLAN_FINALIZED")
                                \/ Has(trace, "RTT_SUCCEEDED")
               PROVE  /\ Has(trace, "EXTERNAL_EVIDENCE_VERIFIED")
                      /\ \A i \in Positions(trace, "EXTERNAL_EVIDENCE_VERIFIED") :
                            /\ trace[i].hash
                            /\ \A j \in DOMAIN trace : SameTransaction(trace[i], trace[j])
    BY Zenon DEF EffectsAreEvidenced
  <2>1. GlobalInvariants(trace, scenario)
    BY DEF Accepted, Passes
  <2>2. Has(trace, "EXTERNAL_EVIDENCE_VERIFIED")
    BY <2>1, Zenon DEF GlobalInvariants
  <2>3. \A i \in Positions(trace, "EXTERNAL_EVIDENCE_VERIFIED") : i \in DOMAIN trace /\ trace[i].hash
    BY <2>1, Zenon DEF GlobalInvariants, EvidenceHashed, Positions
  <2> DEFINE utts == {trace[j].utt : j \in DOMAIN trace} \ {None}
  <2>4. \A j \in DOMAIN trace : trace[j].utt \in {"UTT-1", "UTT-2", None}
    <3>1. \A j \in DOMAIN trace : trace[j] \in EventRecords
      BY <1>1 DEF TraceInv
    <3>2. \A e \in EventRecords : e.utt \in {"UTT-1", "UTT-2", None}
      BY DEF EventRecords
    <3> QED
      BY <3>1, <3>2, Zenon
  <2>5. \A j \in DOMAIN trace : trace[j].utt # None => trace[j].utt \in utts
    BY Zenon
  <2>6. IsFiniteSet(utts)
    <3>1. utts \in SUBSET {"UTT-1", "UTT-2"}
      BY <2>4
    <3>2. IsFiniteSet({"UTT-1"} \cup {"UTT-2"}) /\ {"UTT-1"} \cup {"UTT-2"} = {"UTT-1", "UTT-2"}
      BY Zenon, FS_Singleton, FS_AddElement
    <3> HIDE DEF utts
    <3> QED
      BY Zenon, <3>1, <3>2, FS_Subset
  <2>7. Cardinality(utts) <= 1
    BY <2>1, Zenon DEF GlobalInvariants
  <2> HIDE DEF utts
  <2>8. ASSUME NEW i \in DOMAIN trace, NEW j \in DOMAIN trace
        PROVE  SameTransaction(trace[i], trace[j])
    <3>1. CASE trace[i].utt = None \/ trace[j].utt = None
      BY <3>1 DEF SameTransaction
    <3>2. CASE trace[i].utt # None /\ trace[j].utt # None
      <4>1. trace[i].utt \in utts /\ trace[j].utt \in utts
        BY <2>5, <3>2, Zenon
      <4>2. trace[i].utt = trace[j].utt
        BY <2>6, <2>7, <4>1, OneOfAtMostOne, Zenon
      <4> QED
        BY <4>2 DEF SameTransaction
    <3> QED
      BY <3>1, <3>2
  <2> QED
    BY <2>2, <2>3, <2>8, Zenon
<1> QED
  BY <1>1, TraceInvariant, PTL

-----------------------------------------------------------------------------
(* The reference driver passes *)

(* A trace whose events are the driver's own, of the given types in turn. *)
Tells(t, types) ==
    /\ DOMAIN t = 1..Len(types)
    /\ \A i \in 1..Len(types) :
          /\ t[i].type = types[i] /\ t[i].utt = "UTT-1" /\ t[i].rtt = AttemptOf(types[i])
          /\ types[i] \in WithEvidence => t[i].hash
          /\ t[i].at = i

Places(types, type) == {i \in 1..Len(types) : types[i] = type}

LEMMA PlacesAre ==
    ASSUME NEW t, NEW types, Tells(t, types), NEW type
    PROVE  Positions(t, type) = Places(types, type)
BY DEF Tells, Positions, Places

LEMMA OncePlaced ==
    ASSUME NEW t, NEW type, NEW k \in Nat, Positions(t, type) = {k}
    PROVE  Count(t, type) = 1 /\ Has(t, type) /\ First(t, type) = k
<1>1. Count(t, type) = 1
  BY FS_Singleton, Zenon DEF Count
<1>2. First(t, type) = k
  BY DEF First, Min
<1> QED
  BY <1>1, <1>2, Zenon DEF Has

LEMMA TwicePlaced ==
    ASSUME NEW t, NEW type, NEW k \in Nat, NEW l \in Nat, k < l, Positions(t, type) = {k, l}
    PROVE  Count(t, type) = 2 /\ Has(t, type) /\ First(t, type) = k
<1>1. Cardinality({k}) = 1 /\ IsFiniteSet({k})
  BY FS_Singleton, Zenon
<1>2. {k, l} = {k} \cup {l} /\ l \notin {k}
  OBVIOUS
<1>3. Cardinality({k} \cup {l}) = Cardinality({k}) + 1
  BY <1>1, <1>2, FS_AddElement
<1>4. Count(t, type) = 2
  BY <1>1, <1>2, <1>3 DEF Count
<1>5. First(t, type) = k
  BY DEF First, Min
<1> QED
  BY <1>4, <1>5, Zenon DEF Has

(* How often a type occurs, and where first. *)
Seen(t, type, n, k) == Count(t, type) = n /\ Has(t, type) /\ First(t, type) = k

(* Two history reads meet the only minimum of the table. *)
LEMMA ReadTwice ==
    ASSUME NEW t, NEW k, Seen(t, "HISTORY_READ_ALLOWED", 2, k)
    PROVE  \A type \in DOMAIN TwoReads : Count(t, type) >= TwoReads[type]
<1>1. Count(t, "HISTORY_READ_ALLOWED") = 2
  BY Zenon DEF Seen
<1>2. DOMAIN TwoReads = {"HISTORY_READ_ALLOWED"} /\ TwoReads["HISTORY_READ_ALLOWED"] = 2
  BY Zenon DEF TwoReads
<1>3. 2 >= 2
  OBVIOUS
<1> QED
  BY Zenon, <1>1, <1>2, <1>3

LEMMA SeenOnce ==
    ASSUME NEW t, NEW types, Tells(t, types), NEW type, NEW k \in Nat, Places(types, type) = {k}
    PROVE  Seen(t, type, 1, k)
<1>1. Positions(t, type) = {k}
  BY PlacesAre, Zenon
<1> QED
  BY <1>1, OncePlaced, Zenon DEF Seen

LEMMA SeenTwice ==
    ASSUME NEW t, NEW types, Tells(t, types), NEW type, NEW k \in Nat, NEW l \in Nat, k < l,
           Places(types, type) = {k, l}
    PROVE  Seen(t, type, 2, k)
<1>1. Positions(t, type) = {k, l}
  BY PlacesAre, Zenon
<1> QED
  BY <1>1, TwicePlaced DEF Seen

LEMMA NotSeen ==
    ASSUME NEW t, NEW types, Tells(t, types), NEW type, Places(types, type) = {}
    PROVE  ~Has(t, type)
BY PlacesAre, Zenon DEF Has

LEMMA SeenInOrder ==
    ASSUME NEW t, NEW a, NEW b, NEW k \in Nat, NEW l \in Nat, NEW m, NEW n,
           Seen(t, a, m, k), Seen(t, b, n, l), k < l
    PROVE  InOrder(t, a, b)
BY Zenon DEF Seen, InOrder

(* What the invariants common to all scenarios leave to the types. *)
LEMMA ToldInOrder ==
    ASSUME NEW t, NEW types \in Seq(EventTypes), Tells(t, types)
    PROVE  /\ \A i, j \in DOMAIN t : i < j => t[i].at <= t[j].at
           /\ Cardinality({t[i].utt : i \in DOMAIN t} \ {None}) <= 1
           /\ Cardinality({t[i].rtt : i \in DOMAIN t} \ {None}) <= 1
           /\ EvidenceHashed(t)
<1>1. Len(types) \in Nat /\ DOMAIN t = 1..Len(types)
  BY DEF Tells
<1>2. \A i, j \in DOMAIN t : i < j => t[i].at <= t[j].at
  BY <1>1 DEF Tells
<1>3. ASSUME NEW S, NEW x, S \subseteq {x} PROVE Cardinality(S) <= 1
  <2>1. S = {} \/ S = {x}
    BY <1>3, Zenon
  <2>2. Cardinality(S) \in {0, 1}
    BY <2>1, FS_Singleton, FS_EmptySet, Zenon
  <2> QED
    BY <2>2
<1>4. Cardinality({t[i].utt : i \in DOMAIN t} \ {None}) <= 1
  <2>1. {t[i].utt : i \in DOMAIN t} \ {None} \subseteq {"UTT-1"}
    BY DEF Tells
  <2> QED
    BY <1>3, <2>1, Zenon
<1>5. Cardinality({t[i].rtt : i \in DOMAIN t} \ {None}) <= 1
  <2>1. {t[i].rtt : i \in DOMAIN t} \ {None} \subseteq {"RTT-1"}
    BY DEF Tells, AttemptOf
  <2> QED
    BY <1>3, <2>1, Zenon
<1>6. EvidenceHashed(t)
  <2>1. "EXTERNAL_EVIDENCE_VERIFIED" \in WithEvidence
    BY Zenon DEF WithEvidence
  <2> QED
    BY <2>1 DEF EvidenceHashed, Positions, Tells
<1> QED
  BY <1>2, <1>4, <1>5, <1>6

(* Before the driver stamps them. *)
Told(events, types) ==
    /\ types \in Seq(EventTypes) /\ events \in Seq(EventRecords)
    /\ Len(events) = Len(types)
    /\ \A i \in 1..Len(types) : \E scope : events[i] = Event(types[i], scope)

LEMMA EventIs ==
    ASSUME NEW type, NEW scope
    PROVE  LET e == Event(type, scope)
           IN  /\ e.type = type /\ e.utt = "UTT-1" /\ e.rtt = AttemptOf(type) /\ e.at = 1
               /\ type \in WithEvidence => e.hash
<1>1. LET e == Event(type, scope)
      IN  e.type = type /\ e.utt = "UTT-1" /\ e.rtt = AttemptOf(type) /\ e.at = 1
  BY DEF Event
<1>2. ASSUME type \in WithEvidence PROVE Event(type, scope).hash
  BY <1>2, Zenon DEF Event
<1> QED
  BY <1>1, <1>2, Zenon

LEMMA StampedTells ==
    ASSUME NEW events, NEW types, Told(events, types)
    PROVE  Tells(Stamped(events), types)
<1>1. DOMAIN events = 1..Len(types) /\ Len(types) \in Nat
  BY DEF Told
<1>2. DOMAIN Stamped(events) = 1..Len(types)
  BY <1>1, Zenon DEF Stamped
<1>3. ASSUME NEW i \in 1..Len(types)
      PROVE  LET e == Stamped(events)[i]
             IN  /\ e.type = types[i] /\ e.utt = "UTT-1" /\ e.rtt = AttemptOf(types[i])
                 /\ types[i] \in WithEvidence => e.hash
                 /\ e.at = i
  <2>1. PICK scope : events[i] = Event(types[i], scope)
    BY DEF Told
  <2>2. /\ events[i] \in EventRecords
        /\ events[i].type = types[i] /\ events[i].utt = "UTT-1"
        /\ events[i].rtt = AttemptOf(types[i]) /\ events[i].at = 1
        /\ types[i] \in WithEvidence => events[i].hash
    <3>1. events[i] \in EventRecords
      BY <1>1 DEF Told
    <3> QED
      BY <2>1, <3>1, EventIs
  <2>3. Stamped(events)[i] = [events[i] EXCEPT !.at = IF @ = 0 THEN 0 ELSE i]
    BY <1>1, Zenon DEF Stamped
  <2>4. (IF events[i].at = 0 THEN 0 ELSE i) = i
    BY <2>2
  <2>5. Stamped(events)[i] = [events[i] EXCEPT !.at = i]
    BY <2>3, <2>4, Zenon
  <2> QED
    BY <2>2, <2>5 DEF EventRecords
<1> QED
  BY <1>2, <1>3, Zenon DEF Tells

LEMMA EventsTold ==
    ASSUME NEW types \in Seq(EventTypes)
    PROVE  Told(Events(types), types)
<1>1. DOMAIN types = 1..Len(types) /\ Len(types) \in Nat /\ Events(types) \in Seq(EventRecords)
  BY EventsType
<1>2. DOMAIN Events(types) = 1..Len(types) /\ \A i \in 1..Len(types) : Events(types)[i] = Event(types[i], None)
  BY <1>1, Zenon DEF Events
<1>3. Len(Events(types)) = Len(types)
  BY <1>1, <1>2
<1> QED
  BY <1>1, <1>2, <1>3, Zenon DEF Told

LEMMA ReadsTold ==
    ASSUME NEW a \in Scopes, NEW b \in Scopes
    PROVE  Told(Reads(<<a, b>>), <<"HISTORY_READ_ALLOWED", "HISTORY_READ_ALLOWED">>)
<1> DEFINE H == "HISTORY_READ_ALLOWED"
<1>1. PICK scopes : scopes = <<a, b>>
  BY Zenon
<1>2. scopes \in Seq(Scopes) /\ DOMAIN scopes = 1..2
  BY <1>1
<1>3. Reads(scopes) \in Seq(EventRecords)
  BY <1>2, ReadsType
<1>4. DOMAIN Reads(scopes) = 1..2 /\ \A i \in 1..2 : Reads(scopes)[i] = Event(H, scopes[i])
  BY <1>2, Zenon DEF Reads
<1>5. Len(Reads(scopes)) = 2
  BY <1>3, <1>4
<1>6. H \in EventTypes
  BY Zenon DEF EventTypes
<1>7. <<H, H>> \in Seq(EventTypes) /\ Len(<<H, H>>) = 2 /\ \A i \in 1..2 : <<H, H>>[i] = H
  BY <1>6
<1> QED
  BY <1>1, <1>3, <1>4, <1>5, <1>7, Zenon DEF Told

LEMMA ConcatTold ==
    ASSUME NEW a, NEW ta, Told(a, ta), NEW b, NEW tb, Told(b, tb)
    PROVE  Told(a \o b, ta \o tb)
<1>1. /\ ta \in Seq(EventTypes) /\ a \in Seq(EventRecords) /\ Len(a) = Len(ta)
      /\ tb \in Seq(EventTypes) /\ b \in Seq(EventRecords) /\ Len(b) = Len(tb)
  BY Zenon DEF Told
<1>2. /\ ta \o tb \in Seq(EventTypes) /\ a \o b \in Seq(EventRecords)
      /\ Len(a \o b) = Len(a) + Len(b) /\ Len(ta \o tb) = Len(a) + Len(b)
  BY <1>1
<1>3. ASSUME NEW i \in 1..Len(ta \o tb) PROVE \E scope : (a \o b)[i] = Event((ta \o tb)[i], scope)
  <2>1. CASE i <= Len(a)
    <3>1. i \in 1..Len(ta) /\ (a \o b)[i] = a[i] /\ (ta \o tb)[i] = ta[i]
      BY <1>1, <1>2, <2>1
    <3> QED
      BY <3>1, Zenon DEF Told
  <2>2. CASE i > Len(a)
    <3>1. i - Len(a) \in 1..Len(tb) /\ (a \o b)[i] = b[i - Len(a)] /\ (ta \o tb)[i] = tb[i - Len(a)]
      BY <1>1, <1>2, <2>2
    <3> QED
      BY <3>1, Zenon DEF Told
  <2> QED
    BY <1>1, <1>2, <2>1, <2>2
<1> QED
  BY <1>2, <1>3, Zenon DEF Told

(* Nothing else is asked of the driver's own events than their types. *)
LEMMA ToldPasses ==
    ASSUME NEW s \in Scenarios, NEW t, NEW types \in Seq(EventTypes), Tells(t, types),
           MeetsExpectation(t, Expectations[s]),
           Has(t, "RTT_CREATED") => Has(t, "UTT_CREATED"),
           Has(t, "RTT_SUCCEEDED") => Has(t, "EXTERNAL_EVIDENCE_VERIFIED"),
           Has(t, "PLAN_FINALIZED") => Has(t, "RTT_SUCCEEDED"),
           Has(t, "SMS_PREPARED") => Has(t, "PLAN_FINALIZED"),
           Has(t, "OUTCOME_UNKNOWN") => Count(t, "PROVIDER_DISPATCHED") = 1
    PROVE  Passes(t, s)
<1>1. Count(t, "PROVIDER_DISPATCHED") = 1 => Count(t, "PROVIDER_DISPATCHED") <= 1
  OBVIOUS
<1>2. NoRedispatch(t)
  BY <1>1, Zenon DEF NoRedispatch
<1> QED
  BY <1>2, ToldInOrder, Zenon DEF Passes, GlobalInvariants

(* The scopes that history was read for. *)
ReadBy(t) ==
    {t[i].scope : i \in {j \in DOMAIN t :
        t[j].type \in {"HISTORY_READ_ALLOWED", "HISTORY_READ_DENIED"}}}

LEMMA MeetsRow ==
    ASSUME NEW t, NEW exact, NEW minimum, NEW forbidden, NEW ordered, NEW scopes,
           \A type \in DOMAIN exact : Count(t, type) = exact[type],
           \A type \in DOMAIN minimum : Count(t, type) >= minimum[type],
           \A type \in forbidden : ~Has(t, type),
           \A pair \in ordered : InOrder(t, pair[1], pair[2]),
           scopes \subseteq ReadBy(t)
    PROVE  MeetsExpectation(t, Expect(exact, minimum, forbidden, ordered, scopes))
<1> DEFINE e == Expect(exact, minimum, forbidden, ordered, scopes)
<1>1. /\ e.exact = exact /\ e.minimum = minimum /\ e.forbidden = forbidden
      /\ e.ordered = ordered /\ e.scopes = scopes
  BY DEF Expect
<1> HIDE DEF e
<1>2. MeetsExpectation(t, e)
  BY <1>1, Zenon DEF MeetsExpectation, ReadBy
<1> QED
  BY <1>2 DEF e

LEMMA DuplicateSubmissionPasses ==
    Passes(Reference["DUPLICATE_SUBMISSION"], "DUPLICATE_SUBMISSION")
<1> DEFINE s == "DUPLICATE_SUBMISSION"
           types == Birth \o
                    <<"PROVIDER_DISPATCHED", "PROVIDER_ACCEPTED", "IDEMPOTENT_REPLAY_RETURNED">>
<1>1. /\ Len(types) = 5 /\ types[1] = "UTT_CREATED" /\ types[2] = "RTT_CREATED"
      /\ types[3] = "PROVIDER_DISPATCHED" /\ types[4] = "PROVIDER_ACCEPTED"
      /\ types[5] = "IDEMPOTENT_REPLAY_RETURNED"
  BY DEF Birth
<1>2. types \in Seq(EventTypes) /\ s \in Scenarios
  BY TypesOfParts, ConcatType DEF Scenarios
<1>3. PICK t : t = Reference[s] /\ Tells(t, types)
  <2>1. Reference[s] = Stamped(Events(types))
    BY <1>2 DEF Reference
  <2> HIDE DEF types
  <2> QED
    BY <1>2, <2>1, EventsTold, StampedTells, Zenon
<1> HIDE DEF types
<1>4. /\ Places(types, "UTT_CREATED") = {1} /\ Places(types, "RTT_CREATED") = {2}
      /\ Places(types, "PROVIDER_DISPATCHED") = {3} /\ Places(types, "PROVIDER_ACCEPTED") = {4}
      /\ Places(types, "IDEMPOTENT_REPLAY_RETURNED") = {5}
      /\ Places(types, "EXTERNAL_EVIDENCE_VERIFIED") = {} /\ Places(types, "RTT_SUCCEEDED") = {}
      /\ Places(types, "PLAN_FINALIZED") = {} /\ Places(types, "SMS_PREPARED") = {}
      /\ Places(types, "OUTCOME_UNKNOWN") = {}
  BY <1>1 DEF Places
<1>5. /\ Seen(t, "UTT_CREATED", 1, 1) /\ Seen(t, "RTT_CREATED", 1, 2)
      /\ Seen(t, "PROVIDER_DISPATCHED", 1, 3) /\ Seen(t, "PROVIDER_ACCEPTED", 1, 4)
      /\ Seen(t, "IDEMPOTENT_REPLAY_RETURNED", 1, 5)
  BY <1>3, <1>4, SeenOnce
<1>6. /\ ~Has(t, "EXTERNAL_EVIDENCE_VERIFIED") /\ ~Has(t, "RTT_SUCCEEDED")
      /\ ~Has(t, "PLAN_FINALIZED") /\ ~Has(t, "SMS_PREPARED") /\ ~Has(t, "OUTCOME_UNKNOWN")
  BY <1>3, <1>4, NotSeen
<1> DEFINE exact == Once({"UTT_CREATED", "RTT_CREATED", "PROVIDER_DISPATCHED",
                           "PROVIDER_ACCEPTED", "IDEMPOTENT_REPLAY_RETURNED"})
           ordered == {<<"PROVIDER_DISPATCHED", "IDEMPOTENT_REPLAY_RETURNED">>}
<1>7. Expectations[s] = Expect(exact, NoMinimum, {}, ordered, {})
  BY <1>2 DEF Expectations
<1>8. MeetsExpectation(t, Expectations[s])
  <2>1. \A type \in DOMAIN exact : Count(t, type) = exact[type]
    BY <1>5 DEF Seen, Once
  <2>2. \A type \in DOMAIN NoMinimum : Count(t, type) >= NoMinimum[type]
    BY DEF NoMinimum
  <2>3. ASSUME NEW pair \in ordered PROVE InOrder(t, pair[1], pair[2])
    <3>1. /\ InOrder(t, "PROVIDER_DISPATCHED", "IDEMPOTENT_REPLAY_RETURNED")
      BY <1>5, SeenInOrder
    <3> QED
      BY <3>1
  <2>4. \A type \in {} : ~Has(t, type)
    OBVIOUS
  <2> HIDE DEF exact, ordered
  <2> QED
    BY <1>7, <2>1, <2>2, <2>3, <2>4, MeetsRow, Zenon
<1> QED
  BY <1>2, <1>3, <1>5, <1>6, <1>8, ToldPasses, Zenon DEF Seen

LEMMA UnknownPasses == Passes(Reference["UNKNOWN_THEN_RECONCILED"], "UNKNOWN_THEN_RECONCILED")
<1> DEFINE s == "UNKNOWN_THEN_RECONCILED"
           types == Birth \o <<"PROVIDER_DISPATCHED", "OUTCOME_UNKNOWN", "RECONCILIATION_REQUIRED">>
                       \o Finish
<1>1. /\ Len(types) = 8 /\ types[1] = "UTT_CREATED" /\ types[2] = "RTT_CREATED"
      /\ types[3] = "PROVIDER_DISPATCHED" /\ types[4] = "OUTCOME_UNKNOWN"
      /\ types[5] = "RECONCILIATION_REQUIRED" /\ types[6] = "EXTERNAL_EVIDENCE_VERIFIED"
      /\ types[7] = "RTT_SUCCEEDED" /\ types[8] = "PLAN_FINALIZED"
  BY DEF Birth, Finish
<1>2. types \in Seq(EventTypes) /\ s \in Scenarios
  BY TypesOfParts, ConcatType DEF Scenarios
<1>3. PICK t : t = Reference[s] /\ Tells(t, types)
  <2>1. Reference[s] = Stamped(Events(types))
    BY <1>2 DEF Reference
  <2> HIDE DEF types
  <2> QED
    BY <1>2, <2>1, EventsTold, StampedTells, Zenon
<1> HIDE DEF types
<1>4. /\ Places(types, "UTT_CREATED") = {1} /\ Places(types, "RTT_CREATED") = {2}
      /\ Places(types, "PROVIDER_DISPATCHED") = {3} /\ Places(types, "OUTCOME_UNKNOWN") = {4}
      /\ Places(types, "RECONCILIATION_REQUIRED") = {5}
      /\ Places(types, "EXTERNAL_EVIDENCE_VERIFIED") = {6}
      /\ Places(types, "RTT_SUCCEEDED") = {7} /\ Places(types, "PLAN_FINALIZED") = {8}
      /\ Places(types, "SMS_PREPARED") = {}
  BY <1>1 DEF Places
<1>5. /\ Seen(t, "UTT_CREATED", 1, 1) /\ Seen(t, "RTT_CREATED", 1, 2)
      /\ Seen(t, "PROVIDER_DISPATCHED", 1, 3) /\ Seen(t, "OUTCOME_UNKNOWN", 1, 4)
      /\ Seen(t, "RECONCILIATION_REQUIRED", 1, 5) /\ Seen(t, "EXTERNAL_EVIDENCE_VERIFIED", 1, 6)
      /\ Seen(t, "RTT_SUCCEEDED", 1, 7) /\ Seen(t, "PLAN_FINALIZED", 1, 8)
  BY <1>3, <1>4, SeenOnce
<1>6. /\ ~Has(t, "SMS_PREPARED")
  BY <1>3, <1>4, NotSeen
<1> DEFINE exact == Once({"UTT_CREATED", "RTT_CREATED", "PROVIDER_DISPATCHED",
                           "OUTCOME_UNKNOWN", "RECONCILIATION_REQUIRED",
                           "EXTERNAL_EVIDENCE_VERIFIED", "RTT_SUCCEEDED",
                           "PLAN_FINALIZED"})
           chain == <<"PROVIDER_DISPATCHED", "OUTCOME_UNKNOWN",
                      "RECONCILIATION_REQUIRED", "EXTERNAL_EVIDENCE_VERIFIED",
                      "RTT_SUCCEEDED">>
<1>7. Expectations[s] = Expect(exact, NoMinimum, {}, Chain(chain), {})
  BY <1>2 DEF Expectations
<1>8. MeetsExpectation(t, Expectations[s])
  <2>1. \A type \in DOMAIN exact : Count(t, type) = exact[type]
    BY <1>5 DEF Seen, Once
  <2>2. \A type \in DOMAIN NoMinimum : Count(t, type) >= NoMinimum[type]
    BY DEF NoMinimum
  <2>3. ASSUME NEW pair \in Chain(chain) PROVE InOrder(t, pair[1], pair[2])
    <3>1. /\ InOrder(t, "PROVIDER_DISPATCHED", "OUTCOME_UNKNOWN")
          /\ InOrder(t, "OUTCOME_UNKNOWN", "RECONCILIATION_REQUIRED")
          /\ InOrder(t, "RECONCILIATION_REQUIRED", "EXTERNAL_EVIDENCE_VERIFIED")
          /\ InOrder(t, "EXTERNAL_EVIDENCE_VERIFIED", "RTT_SUCCEEDED")
      BY <1>5, SeenInOrder
    <3>2. PICK i \in 1..4 : pair = <<chain[i], chain[i + 1]>>
      BY DEF Chain
    <3> QED
      BY <3>1, <3>2
  <2>4. \A type \in {} : ~Has(t, type)
    OBVIOUS
  <2> HIDE DEF exact, chain
  <2> QED
    BY <1>7, <2>1, <2>2, <2>3, <2>4, MeetsRow, Zenon
<1> QED
  BY <1>2, <1>3, <1>5, <1>6, <1>8, ToldPasses, Zenon DEF Seen

LEMMA TamperedCallbackPasses ==
    Passes(Reference["TAMPERED_CALLBACK_REJECTED"], "TAMPERED_CALLBACK_REJECTED")
<1> DEFINE s == "TAMPERED_CALLBACK_REJECTED"
           types == Birth \o <<"CALLBACK_REJECTED">>
<1>1. /\ Len(types) = 3 /\ types[1] = "UTT_CREATED" /\ types[2] = "RTT_CREATED"
      /\ types[3] = "CALLBACK_REJECTED"
  BY DEF Birth
<1>2. types \in Seq(EventTypes) /\ s \in Scenarios
  BY TypesOfParts, ConcatType DEF Scenarios
<1>3. PICK t : t = Reference[s] /\ Tells(t, types)
  <2>1. Reference[s] = Stamped(Events(types))
    BY <1>2 DEF Reference
  <2> HIDE DEF types
  <2> QED
    BY <1>2, <2>1, EventsTold, StampedTells, Zenon
<1> HIDE DEF types
<1>4. /\ Places(types, "UTT_CREATED") = {1} /\ Places(types, "RTT_CREATED") = {2}
      /\ Places(types, "CALLBACK_REJECTED") = {3}
      /\ Places(types, "EXTERNAL_EVIDENCE_VERIFIED") = {} /\ Places(types, "RTT_SUCCEEDED") = {}
      /\ Places(types, "PLAN_FINALIZED") = {} /\ Places(types, "SMS_PREPARED") = {}
      /\ Places(types, "OUTCOME_UNKNOWN") = {} /\ Places(types, "PROVIDER_DISPATCHED") = {}
  BY <1>1 DEF Places
<1>5. /\ Seen(t, "UTT_CREATED", 1, 1) /\ Seen(t, "RTT_CREATED", 1, 2)
      /\ Seen(t, "CALLBACK_REJECTED", 1, 3)
  BY <1>3, <1>4, SeenOnce
<1>6. /\ ~Has(t, "EXTERNAL_EVIDENCE_VERIFIED") /\ ~Has(t, "RTT_SUCCEEDED")
      /\ ~Has(t, "PLAN_FINALIZED") /\ ~Has(t, "SMS_PREPARED") /\ ~Has(t, "OUTCOME_UNKNOWN")
      /\ ~Has(t, "PROVIDER_DISPATCHED")
  BY <1>3, <1>4, NotSeen
<1> DEFINE exact == Once({"CALLBACK_REJECTED"})
           ordered == {}
           forbidden == {"EXTERNAL_EVIDENCE_VERIFIED", "RTT_SUCCEEDED", "PLAN_FINALIZED", "SMS_PREPARED"}
<1>7. Expectations[s] = Expect(exact, NoMinimum, forbidden, ordered, {})
  BY <1>2 DEF Expectations
<1>8. MeetsExpectation(t, Expectations[s])
  <2>1. \A type \in DOMAIN exact : Count(t, type) = exact[type]
    BY <1>5 DEF Seen, Once
  <2>2. \A type \in DOMAIN NoMinimum : Count(t, type) >= NoMinimum[type]
    BY DEF NoMinimum
  <2>3. \A pair \in ordered : InOrder(t, pair[1], pair[2])
    OBVIOUS
  <2>4. \A type \in forbidden : ~Has(t, type)
    BY <1>6
  <2> HIDE DEF exact, ordered, forbidden
  <2> QED
    BY <1>7, <2>1, <2>2, <2>3, <2>4, MeetsRow, Zenon
<1> QED
  BY <1>2, <1>3, <1>5, <1>6, <1>8, ToldPasses, Zenon DEF Seen

LEMMA DuplicateCallbackPasses ==
    Passes(Reference["DUPLICATE_CALLBACK_EXACTLY_ONCE"], "DUPLICATE_CALLBACK_EXACTLY_ONCE")
<1> DEFINE s == "DUPLICATE_CALLBACK_EXACTLY_ONCE"
           types == Birth \o <<"CALLBACK_ACCEPTED">>
                       \o Finish \o BothSms \o <<"CALLBACK_ACCEPTED">>
<1>1. /\ Len(types) = 9 /\ types[1] = "UTT_CREATED" /\ types[2] = "RTT_CREATED"
      /\ types[3] = "CALLBACK_ACCEPTED" /\ types[4] = "EXTERNAL_EVIDENCE_VERIFIED"
      /\ types[5] = "RTT_SUCCEEDED" /\ types[6] = "PLAN_FINALIZED" /\ types[7] = "SMS_PREPARED"
      /\ types[8] = "SMS_PREPARED" /\ types[9] = "CALLBACK_ACCEPTED"
  BY DEF Birth, Finish, BothSms
<1>2. types \in Seq(EventTypes) /\ s \in Scenarios
  BY TypesOfParts, ConcatType DEF Scenarios
<1>3. PICK t : t = Reference[s] /\ Tells(t, types)
  <2>1. Reference[s] = Stamped(Events(types))
    BY <1>2 DEF Reference
  <2> HIDE DEF types
  <2> QED
    BY <1>2, <2>1, EventsTold, StampedTells, Zenon
<1> HIDE DEF types
<1>4. /\ Places(types, "UTT_CREATED") = {1} /\ Places(types, "RTT_CREATED") = {2}
      /\ Places(types, "CALLBACK_ACCEPTED") = {3, 9}
      /\ Places(types, "EXTERNAL_EVIDENCE_VERIFIED") = {4}
      /\ Places(types, "RTT_SUCCEEDED") = {5} /\ Places(types, "PLAN_FINALIZED") = {6}
      /\ Places(types, "SMS_PREPARED") = {7, 8} /\ Places(types, "OUTCOME_UNKNOWN") = {}
      /\ Places(types, "PROVIDER_DISPATCHED") = {}
  BY <1>1 DEF Places
<1>5. /\ Seen(t, "UTT_CREATED", 1, 1) /\ Seen(t, "RTT_CREATED", 1, 2)
      /\ Seen(t, "CALLBACK_ACCEPTED", 2, 3) /\ Seen(t, "EXTERNAL_EVIDENCE_VERIFIED", 1, 4)
      /\ Seen(t, "RTT_SUCCEEDED", 1, 5) /\ Seen(t, "PLAN_FINALIZED", 1, 6)
      /\ Seen(t, "SMS_PREPARED", 2, 7)
  BY <1>3, <1>4, SeenOnce, SeenTwice
<1>6. /\ ~Has(t, "OUTCOME_UNKNOWN") /\ ~Has(t, "PROVIDER_DISPATCHED")
  BY <1>3, <1>4, NotSeen
<1> DEFINE exact == [type \in {"CALLBACK_ACCEPTED", "EXTERNAL_EVIDENCE_VERIFIED",
                                    "RTT_SUCCEEDED", "PLAN_FINALIZED", "SMS_PREPARED"} |->
                         IF type \in {"CALLBACK_ACCEPTED", "SMS_PREPARED"} THEN 2 ELSE 1]
           ordered == {<<"CALLBACK_ACCEPTED", "EXTERNAL_EVIDENCE_VERIFIED">>}
<1>7. Expectations[s] = Expect(exact, NoMinimum, {}, ordered, {})
  BY <1>2 DEF Expectations
<1>8. MeetsExpectation(t, Expectations[s])
  <2>1. \A type \in DOMAIN exact : Count(t, type) = exact[type]
    BY <1>5 DEF Seen
  <2>2. \A type \in DOMAIN NoMinimum : Count(t, type) >= NoMinimum[type]
    BY DEF NoMinimum
  <2>3. ASSUME NEW pair \in ordered PROVE InOrder(t, pair[1], pair[2])
    <3>1. /\ InOrder(t, "CALLBACK_ACCEPTED", "EXTERNAL_EVIDENCE_VERIFIED")
      BY <1>5, SeenInOrder
    <3> QED
      BY <3>1
  <2>4. \A type \in {} : ~Has(t, type)
    OBVIOUS
  <2> HIDE DEF exact, ordered
  <2> QED
    BY <1>7, <2>1, <2>2, <2>3, <2>4, MeetsRow, Zenon
<1> QED
  BY <1>2, <1>3, <1>5, <1>6, <1>8, ToldPasses, Zenon DEF Seen

LEMMA AmountMismatchPasses ==
    Passes(Reference["SETTLEMENT_AMOUNT_MISMATCH_REJECTED"], "SETTLEMENT_AMOUNT_MISMATCH_REJECTED")
<1> DEFINE s == "SETTLEMENT_AMOUNT_MISMATCH_REJECTED"
           types == Birth \o <<"CALLBACK_ACCEPTED", "EXTERNAL_EVIDENCE_REJECTED">>
<1>1. /\ Len(types) = 4 /\ types[1] = "UTT_CREATED" /\ types[2] = "RTT_CREATED"
      /\ types[3] = "CALLBACK_ACCEPTED" /\ types[4] = "EXTERNAL_EVIDENCE_REJECTED"
  BY DEF Birth
<1>2. types \in Seq(EventTypes) /\ s \in Scenarios
  BY TypesOfParts, ConcatType DEF Scenarios
<1>3. PICK t : t = Reference[s] /\ Tells(t, types)
  <2>1. Reference[s] = Stamped(Events(types))
    BY <1>2 DEF Reference
  <2> HIDE DEF types
  <2> QED
    BY <1>2, <2>1, EventsTold, StampedTells, Zenon
<1> HIDE DEF types
<1>4. /\ Places(types, "UTT_CREATED") = {1} /\ Places(types, "RTT_CREATED") = {2}
      /\ Places(types, "EXTERNAL_EVIDENCE_REJECTED") = {4}
      /\ Places(types, "EXTERNAL_EVIDENCE_VERIFIED") = {} /\ Places(types, "RTT_SUCCEEDED") = {}
      /\ Places(types, "PLAN_FINALIZED") = {} /\ Places(types, "SMS_PREPARED") = {}
      /\ Places(types, "OUTCOME_UNKNOWN") = {} /\ Places(types, "PROVIDER_DISPATCHED") = {}
  BY <1>1 DEF Places
<1>5. /\ Seen(t, "UTT_CREATED", 1, 1) /\ Seen(t, "RTT_CREATED", 1, 2)
      /\ Seen(t, "EXTERNAL_EVIDENCE_REJECTED", 1, 4)
  BY <1>3, <1>4, SeenOnce
<1>6. /\ ~Has(t, "EXTERNAL_EVIDENCE_VERIFIED") /\ ~Has(t, "RTT_SUCCEEDED")
      /\ ~Has(t, "PLAN_FINALIZED") /\ ~Has(t, "SMS_PREPARED") /\ ~Has(t, "OUTCOME_UNKNOWN")
      /\ ~Has(t, "PROVIDER_DISPATCHED")
  BY <1>3, <1>4, NotSeen
<1> DEFINE exact == Once({"EXTERNAL_EVIDENCE_REJECTED"})
           ordered == {}
           forbidden == {"RTT_SUCCEEDED", "PLAN_FINALIZED", "SMS_PREPARED"}
<1>7. Expectations[s] = Expect(exact, NoMinimum, forbidden, ordered, {})
  BY <1>2 DEF Expectations
<1>8. MeetsExpectation(t, Expectations[s])
  <2>1. \A type \in DOMAIN exact : Count(t, type) = exact[type]
    BY <1>5 DEF Seen, Once
  <2>2. \A type \in DOMAIN NoMinimum : Count(t, type) >= NoMinimum[type]
    BY DEF NoMinimum
  <2>3. \A pair \in ordered : InOrder(t, pair[1], pair[2])
    OBVIOUS
  <2>4. \A type \in forbidden : ~Has(t, type)
    BY <1>6
  <2> HIDE DEF exact, ordered, forbidden
  <2> QED
    BY <1>7, <2>1, <2>2, <2>3, <2>4, MeetsRow, Zenon
<1> QED
  BY <1>2, <1>3, <1>5, <1>6, <1>8, ToldPasses, Zenon DEF Seen

LEMMA FinalityGatePasses == Passes(Reference["SMS_FINALITY_GATE"], "SMS_FINALITY_GATE")
<1> DEFINE s == "SMS_FINALITY_GATE"
           types == Birth \o <<"SMS_BLOCKED_BEFORE_FINALITY">> \o Finish \o BothSms
<1>1. /\ Len(types) = 8 /\ types[1] = "UTT_CREATED" /\ types[2] = "RTT_CREATED"
      /\ types[3] = "SMS_BLOCKED_BEFORE_FINALITY" /\ types[4] = "EXTERNAL_EVIDENCE_VERIFIED"
      /\ types[5] = "RTT_SUCCEEDED" /\ types[6] = "PLAN_FINALIZED" /\ types[7] = "SMS_PREPARED"
      /\ types[8] = "SMS_PREPARED"
  BY DEF Birth, Finish, BothSms
<1>2. types \in Seq(EventTypes) /\ s \in Scenarios
  BY TypesOfParts, ConcatType DEF Scenarios
<1>3. PICK t : t = Reference[s] /\ Tells(t, types)
  <2>1. Reference[s] = Stamped(Events(types))
    BY <1>2 DEF Reference
  <2> HIDE DEF types
  <2> QED
    BY <1>2, <2>1, EventsTold, StampedTells, Zenon
<1> HIDE DEF types
<1>4. /\ Places(types, "UTT_CREATED") = {1} /\ Places(types, "RTT_CREATED") = {2}
      /\ Places(types, "SMS_BLOCKED_BEFORE_FINALITY") = {3}
      /\ Places(types, "EXTERNAL_EVIDENCE_VERIFIED") = {4}
      /\ Places(types, "RTT_SUCCEEDED") = {5} /\ Places(types, "PLAN_FINALIZED") = {6}
      /\ Places(types, "SMS_PREPARED") = {7, 8} /\ Places(types, "OUTCOME_UNKNOWN") = {}
      /\ Places(types, "PROVIDER_DISPATCHED") = {}
  BY <1>1 DEF Places
<1>5. /\ Seen(t, "UTT_CREATED", 1, 1) /\ Seen(t, "RTT_CREATED", 1, 2)
      /\ Seen(t, "SMS_BLOCKED_BEFORE_FINALITY", 1, 3)
      /\ Seen(t, "EXTERNAL_EVIDENCE_VERIFIED", 1, 4) /\ Seen(t, "RTT_SUCCEEDED", 1, 5)
      /\ Seen(t, "PLAN_FINALIZED", 1, 6) /\ Seen(t, "SMS_PREPARED", 2, 7)
  BY <1>3, <1>4, SeenOnce, SeenTwice
<1>6. /\ ~Has(t, "OUTCOME_UNKNOWN") /\ ~Has(t, "PROVIDER_DISPATCHED")
  BY <1>3, <1>4, NotSeen
<1> DEFINE exact == Once({"SMS_BLOCKED_BEFORE_FINALITY", "EXTERNAL_EVIDENCE_VERIFIED",
                           "RTT_SUCCEEDED", "PLAN_FINALIZED", "SMS_PREPARED"})
           ordered == {<<"SMS_BLOCKED_BEFORE_FINALITY", "EXTERNAL_EVIDENCE_VERIFIED">>,
                       <<"PLAN_FINALIZED", "SMS_PREPARED">>}
<1>7. Expectations[s] = Expect(exact, NoMinimum, {}, ordered, {})
  BY <1>2 DEF Expectations
<1>8. MeetsExpectation(t, Expectations[s])
  <2>1. \A type \in DOMAIN exact : Count(t, type) = exact[type]
    BY <1>5 DEF Seen, Once
  <2>2. \A type \in DOMAIN NoMinimum : Count(t, type) >= NoMinimum[type]
    BY DEF NoMinimum
  <2>3. ASSUME NEW pair \in ordered PROVE InOrder(t, pair[1], pair[2])
    <3>1. /\ InOrder(t, "SMS_BLOCKED_BEFORE_FINALITY", "EXTERNAL_EVIDENCE_VERIFIED")
          /\ InOrder(t, "PLAN_FINALIZED", "SMS_PREPARED")
      BY <1>5, SeenInOrder
    <3> QED
      BY <3>1
  <2>4. \A type \in {} : ~Has(t, type)
    OBVIOUS
  <2> HIDE DEF exact, ordered
  <2> QED
    BY <1>7, <2>1, <2>2, <2>3, <2>4, MeetsRow, Zenon
<1> QED
  BY <1>2, <1>3, <1>5, <1>6, <1>8, ToldPasses, Zenon DEF Seen

LEMMA VersionPinPasses == Passes(Reference["ADAPTER_VERSION_PIN"], "ADAPTER_VERSION_PIN")
<1> DEFINE s == "ADAPTER_VERSION_PIN"
           types == Birth \o
                    <<"ADAPTER_BINDING_VERIFIED", "PROVIDER_DISPATCHED", "ADAPTER_BINDING_MISMATCH_REJECTED">>
<1>1. /\ Len(types) = 5 /\ types[1] = "UTT_CREATED" /\ types[2] = "RTT_CREATED"
      /\ types[3] = "ADAPTER_BINDING_VERIFIED" /\ types[4] = "PROVIDER_DISPATCHED"
      /\ types[5] = "ADAPTER_BINDING_MISMATCH_REJECTED"
  BY DEF Birth
<1>2. types \in Seq(EventTypes) /\ s \in Scenarios
  BY TypesOfParts, ConcatType DEF Scenarios
<1>3. PICK t : t = Reference[s] /\ Tells(t, types)
  <2>1. Reference[s] = Stamped(Events(types))
    BY <1>2 DEF Reference
  <2> HIDE DEF types
  <2> QED
    BY <1>2, <2>1, EventsTold, StampedTells, Zenon
<1> HIDE DEF types
<1>4. /\ Places(types, "UTT_CREATED") = {1} /\ Places(types, "RTT_CREATED") = {2}
      /\ Places(types, "ADAPTER_BINDING_VERIFIED") = {3}
      /\ Places(types, "PROVIDER_DISPATCHED") = {4}
      /\ Places(types, "ADAPTER_BINDING_MISMATCH_REJECTED") = {5}
      /\ Places(types, "EXTERNAL_EVIDENCE_VERIFIED") = {} /\ Places(types, "RTT_SUCCEEDED") = {}
      /\ Places(types, "PLAN_FINALIZED") = {} /\ Places(types, "SMS_PREPARED") = {}
      /\ Places(types, "OUTCOME_UNKNOWN") = {}
  BY <1>1 DEF Places
<1>5. /\ Seen(t, "UTT_CREATED", 1, 1) /\ Seen(t, "RTT_CREATED", 1, 2)
      /\ Seen(t, "ADAPTER_BINDING_VERIFIED", 1, 3) /\ Seen(t, "PROVIDER_DISPATCHED", 1, 4)
      /\ Seen(t, "ADAPTER_BINDING_MISMATCH_REJECTED", 1, 5)
  BY <1>3, <1>4, SeenOnce
<1>6. /\ ~Has(t, "EXTERNAL_EVIDENCE_VERIFIED") /\ ~Has(t, "RTT_SUCCEEDED")
      /\ ~Has(t, "PLAN_FINALIZED") /\ ~Has(t, "SMS_PREPARED") /\ ~Has(t, "OUTCOME_UNKNOWN")
  BY <1>3, <1>4, NotSeen
<1> DEFINE exact == Once({"UTT_CREATED", "RTT_CREATED", "ADAPTER_BINDING_VERIFIED",
                           "ADAPTER_BINDING_MISMATCH_REJECTED", "PROVIDER_DISPATCHED"})
           chain == <<"RTT_CREATED", "ADAPTER_BINDING_VERIFIED", "PROVIDER_DISPATCHED">>
<1>7. Expectations[s] = Expect(exact, NoMinimum, {}, Chain(chain), {})
  BY <1>2 DEF Expectations
<1>8. MeetsExpectation(t, Expectations[s])
  <2>1. \A type \in DOMAIN exact : Count(t, type) = exact[type]
    BY <1>5 DEF Seen, Once
  <2>2. \A type \in DOMAIN NoMinimum : Count(t, type) >= NoMinimum[type]
    BY DEF NoMinimum
  <2>3. ASSUME NEW pair \in Chain(chain) PROVE InOrder(t, pair[1], pair[2])
    <3>1. /\ InOrder(t, "RTT_CREATED", "ADAPTER_BINDING_VERIFIED")
          /\ InOrder(t, "ADAPTER_BINDING_VERIFIED", "PROVIDER_DISPATCHED")
      BY <1>5, SeenInOrder
    <3>2. PICK i \in 1..2 : pair = <<chain[i], chain[i + 1]>>
      BY DEF Chain
    <3> QED
      BY <3>1, <3>2
  <2>4. \A type \in {} : ~Has(t, type)
    OBVIOUS
  <2> HIDE DEF exact, chain
  <2> QED
    BY <1>7, <2>1, <2>2, <2>3, <2>4, MeetsRow, Zenon
<1> QED
  BY <1>2, <1>3, <1>5, <1>6, <1>8, ToldPasses, Zenon DEF Seen

(* A read keeps its scope when it is stamped. *)
LEMMA ReadKept ==
    ASSUME NEW events \in Seq(EventRecords), NEW i \in 1..Len(events), NEW scope,
           NEW type \in {"HISTORY_READ_ALLOWED", "HISTORY_READ_DENIED"},
           events[i] = Event(type, scope)
    PROVE  scope \in ReadBy(Stamped(events))
<1>1. DOMAIN events = 1..Len(events) /\ events[i] \in EventRecords
  OBVIOUS
<1>2. DOMAIN Stamped(events) = 1..Len(events)
  BY <1>1, Zenon DEF Stamped
<1>3. Stamped(events)[i] = [events[i] EXCEPT !.at = IF @ = 0 THEN 0 ELSE i]
  BY <1>1, Zenon DEF Stamped
<1>4. events[i].type = type /\ events[i].scope = scope
  BY DEF Event
<1>5. PICK at : Stamped(events)[i] = [events[i] EXCEPT !.at = at]
  BY <1>3, Zenon
<1>6. Stamped(events)[i].type = type /\ Stamped(events)[i].scope = scope
  BY <1>1, <1>4, <1>5 DEF EventRecords
<1> QED
  BY <1>2, <1>6, Zenon DEF ReadBy

LEMMA Joined ==
    ASSUME NEW S, NEW a \in Seq(S), NEW b \in Seq(S)
    PROVE  /\ Len(a \o b) = Len(a) + Len(b)
           /\ \A i \in 1..Len(a) : (a \o b)[i] = a[i]
           /\ \A i \in 1..Len(b) : (a \o b)[Len(a) + i] = b[i]
OBVIOUS

LEMMA ReadsKept ==
    ASSUME NEW told \in Seq(EventRecords), NEW rest \in Seq(EventRecords),
           NEW a \in Scopes, NEW b \in Scopes
    PROVE  {a, b} \subseteq ReadBy(Stamped(told \o Reads(<<a, b>>) \o rest))
<1> DEFINE H == "HISTORY_READ_ALLOWED"
<1>1. PICK scopes : scopes = <<a, b>>
  BY Zenon
<1>2. scopes \in Seq(Scopes) /\ DOMAIN scopes = 1..2 /\ scopes[1] = a /\ scopes[2] = b
  BY <1>1
<1>3. PICK reads \in Seq(EventRecords) : reads = Reads(scopes)
  BY <1>2, ReadsType
<1>4. DOMAIN reads = 1..2 /\ \A i \in 1..2 : reads[i] = Event(H, scopes[i])
  BY <1>2, <1>3, Zenon DEF Reads
<1>5. Len(reads) = 2 /\ reads[1] = Event(H, a) /\ reads[2] = Event(H, b)
  BY <1>2, <1>4
<1>6. PICK start \in Seq(EventRecords) : start = told \o reads
  BY ConcatType, Zenon
<1>7. PICK all \in Seq(EventRecords) : all = start \o rest
  BY ConcatType, Zenon
<1>8. PICK n \in Nat : n = Len(told)
  OBVIOUS
<1>9. /\ n + 1 \in 1..Len(all) /\ all[n + 1] = reads[1]
      /\ n + 2 \in 1..Len(all) /\ all[n + 2] = reads[2]
  <2>1. /\ Len(start) = n + 2
        /\ \A i \in 1..2 : start[n + i] = reads[i]
    <3>1. /\ Len(start) = Len(told) + Len(reads)
          /\ \A i \in 1..Len(reads) : start[Len(told) + i] = reads[i]
      BY <1>6
    <3> QED
      BY <1>5, <1>8, <3>1
  <2>2. /\ Len(all) = Len(start) + Len(rest) /\ Len(rest) \in Nat
        /\ \A i \in 1..Len(start) : all[i] = start[i]
    BY <1>7, Joined
  <2>3. start[n + 1] = reads[1] /\ start[n + 2] = reads[2]
    BY <2>1
  <2>4. /\ n + 1 \in 1..Len(start) /\ n + 1 \in 1..Len(all)
        /\ n + 2 \in 1..Len(start) /\ n + 2 \in 1..Len(all)
    BY <2>1, <2>2
  <2> QED
    BY <2>2, <2>3, <2>4, Zenon
<1>10. a \in ReadBy(Stamped(all)) /\ b \in ReadBy(Stamped(all))
  BY <1>5, <1>9, ReadKept
<1> QED
  BY <1>1, <1>3, <1>6, <1>7, <1>10, Zenon

LEMMA SettledTold ==
    ASSUME NEW fx \in {<<>>, <<"FX_QUOTE_BOUND">>}, NEW a \in Scopes, NEW b \in Scopes
    PROVE  LET types == <<"INTENT_ACCEPTED", "UTT_CREATED">> \o fx \o
                        <<"HISTORY_INDEXED", "PLAN_CREATED", "RTT_CREATED",
                          "ADAPTER_BINDING_VERIFIED", "PROVIDER_DISPATCHED",
                          "PROVIDER_ACCEPTED">> \o Finish \o BothSms \o
                        <<"HISTORY_READ_ALLOWED", "HISTORY_READ_ALLOWED">>
               t == Stamped(SettledCase(fx, <<a, b>>))
           IN  types \in Seq(EventTypes) /\ Tells(t, types) /\ {a, b} \subseteq ReadBy(t)
<1> DEFINE start == <<"INTENT_ACCEPTED", "UTT_CREATED">>
           middle == <<"HISTORY_INDEXED", "PLAN_CREATED", "RTT_CREATED",
                       "ADAPTER_BINDING_VERIFIED", "PROVIDER_DISPATCHED", "PROVIDER_ACCEPTED">>
           told == start \o fx \o middle \o Finish \o BothSms
           reads == <<"HISTORY_READ_ALLOWED", "HISTORY_READ_ALLOWED">>
           events == Events(told) \o Reads(<<a, b>>)
<1>1. SettledCase(fx, <<a, b>>) = events
  BY DEF SettledCase
<1>2. told \in Seq(EventTypes)
  <2>1. start \in Seq(EventTypes) /\ middle \in Seq(EventTypes) /\ fx \in Seq(EventTypes)
    BY TypesOfParts, Zenon
  <2> HIDE DEF start, middle
  <2> QED
    BY <2>1, TypesOfParts, ConcatType, Zenon
<1> HIDE DEF told
<1>3. Told(Events(told), told) /\ Told(Reads(<<a, b>>), reads)
  BY <1>2, EventsTold, ReadsTold, Zenon
<1>4. Told(events, told \o reads)
  BY <1>3, ConcatTold, Zenon
<1>5. Events(told) \in Seq(EventRecords) /\ events \in Seq(EventRecords) /\ told \o reads \in Seq(EventTypes)
  BY <1>3, <1>4, Zenon DEF Told
<1>6. events \o <<>> = events /\ <<>> \in Seq(EventRecords)
  <2> HIDE DEF events
  <2> QED
    BY <1>5
<1>7. {a, b} \subseteq ReadBy(Stamped(events \o <<>>))
  BY <1>5, <1>6, ReadsKept, Zenon
<1>8. told \o reads \in Seq(EventTypes) /\ Tells(Stamped(events), told \o reads) /\ {a, b} \subseteq ReadBy(Stamped(events))
  BY <1>4, <1>5, <1>6, <1>7, StampedTells, Zenon
<1> QED
  BY <1>1, <1>8, Zenon DEF told

(* The pairs of _HAPPY_ORDER, all of them. *)
LEMMA HappyOrderMet ==
    ASSUME NEW t, NEW k \in [1..8 -> Nat], NEW n, \A i, j \in 1..8 : i < j => k[i] < k[j],
           Seen(t, "UTT_CREATED", 1, k[1]), Seen(t, "RTT_CREATED", 1, k[2]),
           Seen(t, "PROVIDER_DISPATCHED", 1, k[3]), Seen(t, "PROVIDER_ACCEPTED", 1, k[4]),
           Seen(t, "EXTERNAL_EVIDENCE_VERIFIED", 1, k[5]), Seen(t, "RTT_SUCCEEDED", 1, k[6]),
           Seen(t, "PLAN_FINALIZED", 1, k[7]), Seen(t, "SMS_PREPARED", n, k[8]),
           NEW pair \in HappyOrder
    PROVE  InOrder(t, pair[1], pair[2])
<1> DEFINE types == <<"UTT_CREATED", "RTT_CREATED", "PROVIDER_DISPATCHED",
                      "PROVIDER_ACCEPTED">> \o Finish \o <<"SMS_PREPARED">>
<1>1. /\ Len(types) = 8
      /\ types[1] = "UTT_CREATED" /\ types[2] = "RTT_CREATED" /\ types[3] = "PROVIDER_DISPATCHED"
      /\ types[4] = "PROVIDER_ACCEPTED" /\ types[5] = "EXTERNAL_EVIDENCE_VERIFIED"
      /\ types[6] = "RTT_SUCCEEDED" /\ types[7] = "PLAN_FINALIZED"
      /\ types[8] = "SMS_PREPARED"
  BY DEF Finish
<1>2. HappyOrder = Chain(types)
  BY DEF HappyOrder
<1> HIDE DEF types
<1>3. PICK i \in 1..7 : pair = <<types[i], types[i + 1]>>
  BY <1>1, <1>2 DEF Chain
<1>4. \A j \in 1..8 : \E m : Seen(t, types[j], m, k[j])
  BY <1>1
<1>5. i \in 1..8 /\ i + 1 \in 1..8 /\ i < i + 1
  OBVIOUS
<1>6. k[i] \in Nat /\ k[i + 1] \in Nat /\ k[i] < k[i + 1]
  BY <1>5
<1>7. PICK m, o : Seen(t, types[i], m, k[i]) /\ Seen(t, types[i + 1], o, k[i + 1])
  BY <1>4, <1>5, Zenon
<1>8. InOrder(t, types[i], types[i + 1])
  BY <1>6, <1>7, SeenInOrder, Zenon
<1> QED
  BY <1>3, <1>8

(* The two settlements in one currency differ in who reads the history. *)
LEMMA SettlementPasses ==
    ASSUME NEW s \in Scenarios, NEW a \in Scopes, NEW b \in Scopes,
           Reference[s] = Stamped(SettledCase(<<>>, <<a, b>>)),
           Expectations[s] = Expect(HappyExact, TwoReads, {}, HappyOrder, {a, b})
    PROVE  Passes(Reference[s], s)
<1> DEFINE types == <<"INTENT_ACCEPTED", "UTT_CREATED">> \o <<>> \o
                    <<"HISTORY_INDEXED", "PLAN_CREATED", "RTT_CREATED",
                      "ADAPTER_BINDING_VERIFIED", "PROVIDER_DISPATCHED",
                      "PROVIDER_ACCEPTED">> \o Finish \o BothSms \o
                    <<"HISTORY_READ_ALLOWED", "HISTORY_READ_ALLOWED">>
<1>1. /\ Len(types) = 15 /\ types[1] = "INTENT_ACCEPTED" /\ types[2] = "UTT_CREATED"
      /\ types[3] = "HISTORY_INDEXED" /\ types[4] = "PLAN_CREATED" /\ types[5] = "RTT_CREATED"
      /\ types[6] = "ADAPTER_BINDING_VERIFIED" /\ types[7] = "PROVIDER_DISPATCHED"
      /\ types[8] = "PROVIDER_ACCEPTED" /\ types[9] = "EXTERNAL_EVIDENCE_VERIFIED"
      /\ types[10] = "RTT_SUCCEEDED" /\ types[11] = "PLAN_FINALIZED"
      /\ types[12] = "SMS_PREPARED" /\ types[13] = "SMS_PREPARED"
      /\ types[14] = "HISTORY_READ_ALLOWED" /\ types[15] = "HISTORY_READ_ALLOWED"
  BY DEF Finish, BothSms
<1> DEFINE exact == HappyExact
           ordered == HappyOrder
<1>2. PICK t : t = Reference[s] /\ Tells(t, types) /\ types \in Seq(EventTypes) /\ {a, b} \subseteq ReadBy(t)
  BY SettledTold, Zenon
<1> HIDE DEF types
<1>3. /\ Places(types, "UTT_CREATED") = {2} /\ Places(types, "RTT_CREATED") = {5}
      /\ Places(types, "ADAPTER_BINDING_VERIFIED") = {6}
      /\ Places(types, "PROVIDER_DISPATCHED") = {7} /\ Places(types, "PROVIDER_ACCEPTED") = {8}
      /\ Places(types, "EXTERNAL_EVIDENCE_VERIFIED") = {9}
      /\ Places(types, "RTT_SUCCEEDED") = {10} /\ Places(types, "PLAN_FINALIZED") = {11}
      /\ Places(types, "SMS_PREPARED") = {12, 13}
      /\ Places(types, "HISTORY_READ_ALLOWED") = {14, 15}
      /\ Places(types, "OUTCOME_UNKNOWN") = {}
  BY <1>1 DEF Places
<1>4. /\ Seen(t, "UTT_CREATED", 1, 2) /\ Seen(t, "RTT_CREATED", 1, 5)
      /\ Seen(t, "ADAPTER_BINDING_VERIFIED", 1, 6) /\ Seen(t, "PROVIDER_DISPATCHED", 1, 7)
      /\ Seen(t, "PROVIDER_ACCEPTED", 1, 8) /\ Seen(t, "EXTERNAL_EVIDENCE_VERIFIED", 1, 9)
      /\ Seen(t, "RTT_SUCCEEDED", 1, 10) /\ Seen(t, "PLAN_FINALIZED", 1, 11)
      /\ Seen(t, "SMS_PREPARED", 2, 12) /\ Seen(t, "HISTORY_READ_ALLOWED", 2, 14)
  <2>1. /\ Seen(t, "UTT_CREATED", 1, 2) /\ Seen(t, "RTT_CREATED", 1, 5)
        /\ Seen(t, "ADAPTER_BINDING_VERIFIED", 1, 6) /\ Seen(t, "PROVIDER_DISPATCHED", 1, 7)
        /\ Seen(t, "PROVIDER_ACCEPTED", 1, 8) /\ Seen(t, "EXTERNAL_EVIDENCE_VERIFIED", 1, 9)
        /\ Seen(t, "RTT_SUCCEEDED", 1, 10) /\ Seen(t, "PLAN_FINALIZED", 1, 11)
    BY <1>2, <1>3, SeenOnce
  <2>2. /\ 12 \in Nat /\ 13 \in Nat /\ 12 < 13
        /\ 14 \in Nat /\ 15 \in Nat /\ 14 < 15
    OBVIOUS
  <2>3. /\ Seen(t, "SMS_PREPARED", 2, 12) /\ Seen(t, "HISTORY_READ_ALLOWED", 2, 14)
    BY <1>2, <1>3, <2>2, SeenTwice, Zenon
  <2> QED
    BY <2>1, <2>3, Zenon
<1>5. ~Has(t, "OUTCOME_UNKNOWN")
  BY <1>2, <1>3, NotSeen
<1>6. MeetsExpectation(t, Expectations[s])
  <2>1. \A type \in DOMAIN exact : Count(t, type) = exact[type]
    BY <1>4 DEF Seen, HappyExact, Once
  <2>2. \A type \in DOMAIN TwoReads : Count(t, type) >= TwoReads[type]
    BY <1>4, ReadTwice, Zenon
  <2>3. ASSUME NEW pair \in HappyOrder PROVE InOrder(t, pair[1], pair[2])
    <3> DEFINE k == <<2, 5, 7, 8, 9, 10, 11, 12>>
    <3>1. k \in [1..8 -> Nat] /\ \A i, j \in 1..8 : i < j => k[i] < k[j]
      OBVIOUS
    <3>2. /\ k[1] = 2 /\ k[2] = 5 /\ k[3] = 7 /\ k[4] = 8 /\ k[5] = 9 /\ k[6] = 10 /\ k[7] = 11
          /\ k[8] = 12
      OBVIOUS
    <3> HIDE DEF k
    <3> QED
      BY <1>4, <3>1, <3>2, HappyOrderMet, Zenon
  <2>4. \A type \in {} : ~Has(t, type)
    OBVIOUS
  <2> QED
    BY <1>2, <2>1, <2>2, <2>3, <2>4, MeetsRow, Zenon
<1> QED
  BY <1>2, <1>4, <1>5, <1>6, ToldPasses, Zenon DEF Seen

LEMMA CrossBorderPasses == Passes(Reference["CROSS_BORDER_SETTLED"], "CROSS_BORDER_SETTLED")
<1> DEFINE s == "CROSS_BORDER_SETTLED"
           a == "SENDER"
           b == "RECEIVER"
           types == <<"INTENT_ACCEPTED", "UTT_CREATED">> \o <<"FX_QUOTE_BOUND">> \o
                    <<"HISTORY_INDEXED", "PLAN_CREATED", "RTT_CREATED",
                      "ADAPTER_BINDING_VERIFIED", "PROVIDER_DISPATCHED",
                      "PROVIDER_ACCEPTED">> \o Finish \o BothSms \o
                    <<"HISTORY_READ_ALLOWED", "HISTORY_READ_ALLOWED">>
<1>1. /\ Len(types) = 16 /\ types[1] = "INTENT_ACCEPTED" /\ types[2] = "UTT_CREATED"
      /\ types[3] = "FX_QUOTE_BOUND" /\ types[4] = "HISTORY_INDEXED"
      /\ types[5] = "PLAN_CREATED" /\ types[6] = "RTT_CREATED"
      /\ types[7] = "ADAPTER_BINDING_VERIFIED" /\ types[8] = "PROVIDER_DISPATCHED"
      /\ types[9] = "PROVIDER_ACCEPTED" /\ types[10] = "EXTERNAL_EVIDENCE_VERIFIED"
      /\ types[11] = "RTT_SUCCEEDED" /\ types[12] = "PLAN_FINALIZED"
      /\ types[13] = "SMS_PREPARED" /\ types[14] = "SMS_PREPARED"
      /\ types[15] = "HISTORY_READ_ALLOWED" /\ types[16] = "HISTORY_READ_ALLOWED"
  BY DEF Finish, BothSms
<1>2. s \in Scenarios /\ a \in Scopes /\ b \in Scopes
  BY DEF Scenarios, Settled, Scopes
<1>3. Reference[s] = Stamped(SettledCase(<<"FX_QUOTE_BOUND">>, <<a, b>>))
  BY <1>2 DEF Reference
<1> DEFINE exact == Once(DOMAIN HappyExact \cup {"FX_QUOTE_BOUND"})
           ordered == HappyOrder \cup {<<"UTT_CREATED", "FX_QUOTE_BOUND">>}
<1>4. Expectations[s] = Expect(exact, TwoReads, {}, ordered, {a, b})
  BY <1>2 DEF Expectations
<1>5. PICK t : t = Reference[s] /\ Tells(t, types) /\ types \in Seq(EventTypes) /\ {a, b} \subseteq ReadBy(t)
  BY <1>2, <1>3, SettledTold, Zenon
<1> HIDE DEF types
<1>6. /\ Places(types, "UTT_CREATED") = {2} /\ Places(types, "FX_QUOTE_BOUND") = {3}
      /\ Places(types, "RTT_CREATED") = {6} /\ Places(types, "ADAPTER_BINDING_VERIFIED") = {7}
      /\ Places(types, "PROVIDER_DISPATCHED") = {8} /\ Places(types, "PROVIDER_ACCEPTED") = {9}
      /\ Places(types, "EXTERNAL_EVIDENCE_VERIFIED") = {10}
      /\ Places(types, "RTT_SUCCEEDED") = {11} /\ Places(types, "PLAN_FINALIZED") = {12}
      /\ Places(types, "SMS_PREPARED") = {13, 14}
      /\ Places(types, "HISTORY_READ_ALLOWED") = {15, 16}
      /\ Places(types, "OUTCOME_UNKNOWN") = {}
  BY <1>1 DEF Places
<1>7. /\ Seen(t, "UTT_CREATED", 1, 2) /\ Seen(t, "FX_QUOTE_BOUND", 1, 3)
      /\ Seen(t, "RTT_CREATED", 1, 6) /\ Seen(t, "ADAPTER_BINDING_VERIFIED", 1, 7)
      /\ Seen(t, "PROVIDER_DISPATCHED", 1, 8) /\ Seen(t, "PROVIDER_ACCEPTED", 1, 9)
      /\ Seen(t, "EXTERNAL_EVIDENCE_VERIFIED", 1, 10) /\ Seen(t, "RTT_SUCCEEDED", 1, 11)
      /\ Seen(t, "PLAN_FINALIZED", 1, 12) /\ Seen(t, "SMS_PREPARED", 2, 13)
      /\ Seen(t, "HISTORY_READ_ALLOWED", 2, 15)
  <2>1. /\ Seen(t, "UTT_CREATED", 1, 2) /\ Seen(t, "FX_QUOTE_BOUND", 1, 3)
        /\ Seen(t, "RTT_CREATED", 1, 6) /\ Seen(t, "ADAPTER_BINDING_VERIFIED", 1, 7)
        /\ Seen(t, "PROVIDER_DISPATCHED", 1, 8) /\ Seen(t, "PROVIDER_ACCEPTED", 1, 9)
        /\ Seen(t, "EXTERNAL_EVIDENCE_VERIFIED", 1, 10) /\ Seen(t, "RTT_SUCCEEDED", 1, 11)
        /\ Seen(t, "PLAN_FINALIZED", 1, 12)
    BY <1>5, <1>6, SeenOnce
  <2>2. /\ 13 \in Nat /\ 14 \in Nat /\ 13 < 14
        /\ 15 \in Nat /\ 16 \in Nat /\ 15 < 16
    OBVIOUS
  <2>3. /\ Seen(t, "SMS_PREPARED", 2, 13) /\ Seen(t, "HISTORY_READ_ALLOWED", 2, 15)
    BY <1>5, <1>6, <2>2, SeenTwice, Zenon
  <2> QED
    BY <2>1, <2>3, Zenon
<1>8. ~Has(t, "OUTCOME_UNKNOWN")
  BY <1>5, <1>6, NotSeen
<1>9. MeetsExpectation(t, Expectations[s])
  <2>1. \A type \in DOMAIN exact : Count(t, type) = exact[type]
    BY <1>7 DEF Seen, HappyExact, Once
  <2>2. \A type \in DOMAIN TwoReads : Count(t, type) >= TwoReads[type]
    BY <1>7, ReadTwice, Zenon
  <2>3. ASSUME NEW pair \in HappyOrder PROVE InOrder(t, pair[1], pair[2])
    <3> DEFINE k == <<2, 6, 8, 9, 10, 11, 12, 13>>
    <3>1. k \in [1..8 -> Nat] /\ \A i, j \in 1..8 : i < j => k[i] < k[j]
      OBVIOUS
    <3>2. /\ k[1] = 2 /\ k[2] = 6 /\ k[3] = 8 /\ k[4] = 9 /\ k[5] = 10 /\ k[6] = 11 /\ k[7] = 12
          /\ k[8] = 13
      OBVIOUS
    <3> HIDE DEF k
    <3> QED
      BY <1>7, <3>1, <3>2, HappyOrderMet, Zenon
  <2>4. InOrder(t, "UTT_CREATED", "FX_QUOTE_BOUND")
    BY <1>7, SeenInOrder
  <2>5. \A pair \in ordered : InOrder(t, pair[1], pair[2])
    BY <2>3, <2>4
  <2>6. \A type \in {} : ~Has(t, type)
    OBVIOUS
  <2> HIDE DEF exact, ordered
  <2> QED
    BY <1>4, <1>5, <2>1, <2>2, <2>5, <2>6, MeetsRow, Zenon
<1> QED
  BY <1>2, <1>5, <1>7, <1>8, <1>9, ToldPasses, Zenon DEF Seen

LEMMA HistoryAccessPasses ==
    Passes(Reference["HISTORY_ACCESS_CONTROL"], "HISTORY_ACCESS_CONTROL")
<1> DEFINE s == "HISTORY_ACCESS_CONTROL"
           born == <<"UTT_CREATED", "HISTORY_INDEXED">>
           reads == <<"HISTORY_READ_ALLOWED", "HISTORY_READ_ALLOWED">>
           types == born \o reads \o <<"HISTORY_READ_DENIED">>
<1>1. /\ Len(types) = 5 /\ types[1] = "UTT_CREATED" /\ types[2] = "HISTORY_INDEXED"
      /\ types[3] = "HISTORY_READ_ALLOWED" /\ types[4] = "HISTORY_READ_ALLOWED"
      /\ types[5] = "HISTORY_READ_DENIED"
  OBVIOUS
<1>2. types \in Seq(EventTypes) /\ s \in Scenarios
  <2>1. born \in Seq(EventTypes) /\ reads \in Seq(EventTypes) /\ <<"HISTORY_READ_DENIED">> \in Seq(EventTypes)
    BY DEF EventTypes
  <2> HIDE DEF born, reads
  <2> QED
    BY <2>1, ConcatType DEF Scenarios
<1>3. PICK t : t = Reference[s] /\ Tells(t, types)
                                     /\ {"SENDER", "RECEIVER", "UNRELATED"} \subseteq ReadBy(t)
  <2> DEFINE indexed == Events(born)
             read == Reads(<<"SENDER", "RECEIVER">>)
             denied == Event("HISTORY_READ_DENIED", "UNRELATED")
             events == indexed \o read \o <<denied>>
  <2>1. Reference[s] = Stamped(events)
    BY <1>2 DEF Reference
  <2>2. "SENDER" \in Scopes /\ "RECEIVER" \in Scopes
    BY DEF Scopes
  <2>3. Told(indexed, born) /\ Told(read, reads)
    BY <2>2, TypesOfParts, EventsTold, ReadsTold, Zenon
  <2>4. denied \in EventRecords
    BY EventType DEF EventTypes, Scopes
  <2>5. Told(<<denied>>, <<"HISTORY_READ_DENIED">>)
    <3>1. "HISTORY_READ_DENIED" \in EventTypes
      BY DEF EventTypes
    <3> HIDE DEF denied
    <3>2. /\ <<"HISTORY_READ_DENIED">> \in Seq(EventTypes) /\ <<denied>> \in Seq(EventRecords)
          /\ Len(<<denied>>) = Len(<<"HISTORY_READ_DENIED">>)
      BY <2>4, <3>1
    <3>3. ASSUME NEW i \in 1..Len(<<"HISTORY_READ_DENIED">>)
          PROVE  <<denied>>[i] = Event(<<"HISTORY_READ_DENIED">>[i], "UNRELATED")
      BY DEF denied
    <3> QED
      BY <3>2, <3>3, Zenon DEF Told
  <2> HIDE DEF born, reads
  <2>6. Told(events, types)
    BY <2>3, <2>5, ConcatTold, Zenon
  <2>7. /\ indexed \in Seq(EventRecords) /\ <<denied>> \in Seq(EventRecords)
        /\ events \in Seq(EventRecords) /\ Len(events) = Len(types)
    BY <2>3, <2>5, <2>6, Zenon DEF Told
  <2>8. {"SENDER", "RECEIVER"} \subseteq ReadBy(Stamped(events))
    BY <2>2, <2>7, ReadsKept, Zenon
  <2>9. "UNRELATED" \in ReadBy(Stamped(events))
    <3>1. 5 \in 1..Len(events)
      BY <1>1, <2>7
    <3>2. indexed \o read \in Seq(EventRecords) /\ Len(indexed \o read) = 4
      <4>1. indexed \in Seq(EventRecords) /\ read \in Seq(EventRecords)
        BY <2>3, Zenon DEF Told
      <4>2. Len(indexed) = 2 /\ Len(read) = 2
        BY <2>3 DEF Told, born, reads
      <4> HIDE DEF indexed, read
      <4>3. Len(indexed \o read) = Len(indexed) + Len(read) /\ indexed \o read \in Seq(EventRecords)
        BY <4>1
      <4> QED
        BY <4>2, <4>3
    <3>3. events[5] = denied
      <4> HIDE DEF indexed, read, denied
      <4> QED
        BY <2>4, <3>2
    <3> HIDE DEF events
    <3> QED
      BY <2>7, <3>1, <3>3, ReadKept, Zenon
  <2> HIDE DEF events, types
  <2> QED
    BY <2>1, <2>6, <2>8, <2>9, StampedTells, Zenon
<1> HIDE DEF types
<1>4. /\ Places(types, "UTT_CREATED") = {1} /\ Places(types, "HISTORY_READ_ALLOWED") = {3, 4}
      /\ Places(types, "HISTORY_READ_DENIED") = {5} /\ Places(types, "RTT_CREATED") = {}
      /\ Places(types, "EXTERNAL_EVIDENCE_VERIFIED") = {} /\ Places(types, "RTT_SUCCEEDED") = {}
      /\ Places(types, "PLAN_FINALIZED") = {} /\ Places(types, "SMS_PREPARED") = {}
      /\ Places(types, "OUTCOME_UNKNOWN") = {} /\ Places(types, "PROVIDER_DISPATCHED") = {}
  BY <1>1 DEF Places
<1>5. /\ Seen(t, "UTT_CREATED", 1, 1) /\ Seen(t, "HISTORY_READ_ALLOWED", 2, 3)
      /\ Seen(t, "HISTORY_READ_DENIED", 1, 5)
  BY <1>3, <1>4, SeenOnce, SeenTwice
<1>6. /\ ~Has(t, "RTT_CREATED") /\ ~Has(t, "EXTERNAL_EVIDENCE_VERIFIED")
      /\ ~Has(t, "RTT_SUCCEEDED") /\ ~Has(t, "PLAN_FINALIZED") /\ ~Has(t, "SMS_PREPARED")
      /\ ~Has(t, "OUTCOME_UNKNOWN") /\ ~Has(t, "PROVIDER_DISPATCHED")
  BY <1>3, <1>4, NotSeen
<1> DEFINE exact == Once({"HISTORY_READ_DENIED"})
           ordered == {}
<1>7. Expectations[s] = Expect(exact, TwoReads, {}, ordered, {"SENDER", "RECEIVER", "UNRELATED"})
  BY <1>2 DEF Expectations
<1>8. MeetsExpectation(t, Expectations[s])
  <2>1. \A type \in DOMAIN exact : Count(t, type) = exact[type]
    BY <1>5 DEF Seen, Once
  <2>2. \A type \in DOMAIN TwoReads : Count(t, type) >= TwoReads[type]
    BY <1>5, ReadTwice, Zenon
  <2>3. \A pair \in ordered : InOrder(t, pair[1], pair[2])
    OBVIOUS
  <2>4. \A type \in {} : ~Has(t, type)
    OBVIOUS
  <2> HIDE DEF exact, ordered
  <2> QED
    BY <1>3, <1>7, <2>1, <2>2, <2>3, <2>4, MeetsRow, Zenon
<1> QED
  BY <1>2, <1>3, <1>5, <1>6, <1>8, ToldPasses, Zenon DEF Seen

(* As long as nothing is edited the trace is the reference driver's. *)
ReferenceInv ==
    /\ scenario \in Scenarios
    /\ edits \in Nat
    /\ edits = 0 => trace = Reference[scenario]

LEMMA ReferenceInvariant == TraceSpec => []ReferenceInv
<1>1. TraceInit => ReferenceInv
  BY JudgedAssumption DEF TraceInit, ReferenceInv
<1>2. ReferenceInv /\ [TraceNext]_traceVars => ReferenceInv'
  <2> SUFFICES ASSUME ReferenceInv, [TraceNext]_traceVars PROVE ReferenceInv'
    OBVIOUS
  <2>1. CASE UNCHANGED traceVars
    BY <2>1 DEF ReferenceInv, traceVars
  <2>2. CASE TraceNext
    <3>1. edits' = edits + 1 /\ UNCHANGED scenario
      BY <2>2, Zenon DEF TraceNext, Omit, Add, Move, LoseHash, OtherTransaction, OtherAttempt,
                         NoTransaction, NoAttempt, Backdate, Edit
    <3> QED
      BY <3>1 DEF ReferenceInv
  <2> QED
    BY <2>1, <2>2
<1> QED
  BY <1>1, <1>2, PTL DEF TraceSpec

LEMMA EveryReferencePasses ==
    ASSUME NEW s \in Scenarios
    PROVE  Passes(Reference[s], s)
<1>1. ASSUME NEW a \in Scopes, NEW b \in Scopes, Reference[s] = Stamped(SettledCase(<<>>, <<a, b>>)),
             Expectations[s] = Expect(HappyExact, TwoReads, {}, HappyOrder, {a, b})
      PROVE  Passes(Reference[s], s)
  BY <1>1, SettlementPasses, Zenon
<1>2. "SENDER" \in Scopes /\ "RECEIVER" \in Scopes /\ "MERCHANT" \in Scopes /\ "BRANCH" \in Scopes
  BY DEF Scopes
<1>3. CASE s = "P2P_SETTLED"
  <2>1. /\ Reference[s] = Stamped(SettledCase(<<>>, <<"SENDER", "RECEIVER">>))
        /\ Expectations[s] = Expect(HappyExact, TwoReads, {}, HappyOrder, {"SENDER", "RECEIVER"})
    BY <1>3 DEF Reference, Expectations
  <2> QED
    BY <1>1, <1>2, <2>1, Zenon
<1>4. CASE s = "MERCHANT_SUPPLIER_SETTLED"
  <2>1. /\ Reference[s] = Stamped(SettledCase(<<>>, <<"MERCHANT", "BRANCH">>))
        /\ Expectations[s] = Expect(HappyExact, TwoReads, {}, HappyOrder, {"MERCHANT", "BRANCH"})
    BY <1>4 DEF Reference, Expectations
  <2> QED
    BY <1>1, <1>2, <2>1, Zenon
<1>5. CASE s \notin {"P2P_SETTLED", "MERCHANT_SUPPLIER_SETTLED"}
  <2>1. s \in {"CROSS_BORDER_SETTLED", "DUPLICATE_SUBMISSION", "UNKNOWN_THEN_RECONCILED",
               "TAMPERED_CALLBACK_REJECTED", "DUPLICATE_CALLBACK_EXACTLY_ONCE",
               "SETTLEMENT_AMOUNT_MISMATCH_REJECTED", "HISTORY_ACCESS_CONTROL",
               "SMS_FINALITY_GATE", "ADAPTER_VERSION_PIN"}
    BY <1>5, Zenon DEF Scenarios, Settled
  <2> QED
    BY <2>1, CrossBorderPasses, DuplicateSubmissionPasses, UnknownPasses, TamperedCallbackPasses,
       DuplicateCallbackPasses, AmountMismatchPasses, HistoryAccessPasses, FinalityGatePasses,
       VersionPinPasses, Zenon
<1> QED
  BY <1>3, <1>4, <1>5

(* The evaluator accepts the reference driver: for every scenario of the    *)
(* suite and whatever part of it is judged, the table of expectations and   *)
(* the common invariants of CertificationTraceEvaluator.evaluate pass the   *)
(* trace that SyntheticReferenceCertificationDriver.execute_case records,   *)
(* counts, order, scopes, evidence and identities all at once.              *)
THEOREM ReferenceTracesPass == TraceSpec => []ReferencePasses
<1>1. ReferenceInv => ReferencePasses
  BY EveryReferencePasses, Zenon DEF ReferenceInv, ReferencePasses, Accepted
<1> QED
  BY <1>1, ReferenceInvariant, PTL
=============================================================================
