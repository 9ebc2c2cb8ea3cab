--------------------- MODULE SubmissionContextProofs ---------------------
(***************************************************************************)
(* ProviderSubmission among its neighbours.                                *)
(*                                                                         *)
(* Dispatch through the registries, for any processes, references and      *)
(* builds.  ProviderSubmission lets a call bring any adapter, so what a    *)
(* process has loaded only takes choices away: each step of the            *)
(* composition is a step of ProviderSubmission or changes none of its      *)
(* variables, and all that is proved of ProviderSubmission carries over    *)
(* under the same assumption on the adapters.                              *)
(*                                                                         *)
(* The way of an event from the outbox to the projection, for any number   *)
(* of workers, events and lease expiries.  The relay's invariant ties each *)
(* running lease to the row it was given for, and each acknowledgement to  *)
(* a publication; the projector's ties what is shown to an event that was  *)
(* consumed.  What the events say of the submission is ProviderSubmission's*)
(* invariant, which the composition keeps because it implements it.        *)
(***************************************************************************)
EXTENDS AdapterDispatch, EventDelivery, ProviderSubmissionProofs

-----------------------------------------------------------------------------
(* The adapter registry *)

(* Whatever a registry resolves is an adapter that dispatch() may bring.    *)
LEMMA DispatchStepImplements == [DispatchNext]_dispatchVars => [Next]_vars
<1> SUFFICES ASSUME [DispatchNext]_dispatchVars PROVE [Next]_vars
  OBVIOUS
<1>1. ASSUME NEW d \in Dispatchers, NEW n \in RttIds, NEW a \in Adapters, Dispatch(d, n, a)
      PROVE  Next
  BY <1>1 DEF Dispatch, Next, DispatcherStep, Enter
<1>2. CASE Environment
  BY <1>2 DEF Environment, Next
<1>3. ASSUME NEW d \in Dispatchers, Work(d) \/ Abort(d) \/ RestartIdle(d) \/ \E b \in Builds : Load(d, b)
      PROVE  [Next]_vars
  BY <1>3 DEF Work, Abort, RestartIdle, Load, Next, DispatcherStep
<1>4. CASE UNCHANGED dispatchVars
  BY <1>4 DEF dispatchVars
<1> QED
  BY <1>1, <1>2, <1>3, <1>4 DEF DispatchNext

LEMMA DispatchImplementsSubmission == DispatchSpec => Spec
<1>1. DispatchInit => Init
  BY DEF DispatchInit
<1> QED
  BY <1>1, DispatchStepImplements, PTL DEF DispatchSpec, Spec

\* A provider without idempotency is called at most once, and its outcome is
\* recorded once and truthfully, whatever processes restart and whichever
\* builds they load, other builds of the pinned reference included.  The
\* registries do not see to it that those declare the same idempotency as the
\* build that was dispatched first: that is ReachingAssumption.
THEOREM DispatchIsOneShot == DispatchSpec => ImplementsOneShot
BY DispatchImplementsSubmission, OneShotRefinement, PTL

-----------------------------------------------------------------------------
(* The outbox, the relay and the projection *)

\* A row has the delivery columns; how long it waits and how often it was
\* claimed does not matter here.
RowShape(row) ==
    row \in [state : Relay!DeliveryState, attempts : {row.attempts}, wait : {row.wait},
             lease : Nat, owner : Workers \cup {NoWorker}]

Batches ==
    [batch : SUBSET outbox, event : outbox \cup {NoEvent},
     step : {"publish", "mark", "reschedule"}, lease : Nat, age : Nat]

\* A worker holds the rows of its batch while its lease runs, at least as long,
\* and acknowledges only what is on the bus.
HoldsLease(w) ==
    relay[w].lease > 0 =>
        \A e \in relay[w].batch :
            Relay!Owned(w, e) /\ Relay!Row(e).lease >= relay[w].lease

Acknowledges(w) ==
    relay[w].step = "mark" /\ relay[w].event # NoEvent => relay[w].event \in bus

RelayInv ==
    /\ DOMAIN delivery \subseteq outbox /\ bus \subseteq outbox
    /\ relay \in [Workers -> Batches]
    /\ \A e \in outbox :
          /\ RowShape(Relay!Row(e))
          /\ Relay!Row(e).state = "PUBLISHED" => e \in bus
    /\ \A w \in Workers : HoldsLease(w) /\ Acknowledges(w)

Shown == Projector!ProgressState \cup SubmissionState

\* What is shown is the latest event consumed.
ProjectionInv ==
    /\ consumed \subseteq bus
    /\ projection \in [RttIds -> [state : Shown, version : Nat]]
    /\ \A n \in RttIds :
          \/ projection[n].version = 0
          \/ \E e \in consumed : /\ e.rtt = n /\ e.version = projection[n].version
                                 /\ projection[n].state = Projector!StateByEvent(e.state)
    /\ \A e \in consumed : e.version <= projection[e.rtt].version

DeliveryInv == RelayInv /\ ProjectionInv

-----------------------------------------------------------------------------
(* The relay *)

LEMMA NoBatchFacts ==
    /\ Relay!NoBatch \in Batches /\ Relay!NoBatch.lease = 0
    /\ Relay!NoBatch.batch = {} /\ Relay!NoBatch.step = "publish"
BY DEF Relay!NoBatch, Batches

LEMMA WrittenRows ==
    ASSUME NEW e, NEW row, Relay!WriteRow(e, row)
    PROVE  /\ DOMAIN delivery' = DOMAIN delivery \cup {e}
           /\ Relay!Row(e)' = row
           /\ \A f : f # e => Relay!Row(f)' = Relay!Row(f)
BY DEF Relay!WriteRow, Relay!Row

(* A worker that drops its batch disturbs nobody. *)
LEMMA DropInv ==
    ASSUME RelayInv, NEW w \in Workers, relay' = [relay EXCEPT ![w] = Relay!NoBatch],
           UNCHANGED <<outbox, delivery, bus>>
    PROVE  RelayInv'
<1>1. /\ relay \in [Workers -> Batches] /\ Batches' = Batches
      /\ relay'[w] = Relay!NoBatch /\ \A v \in Workers \ {w} : relay'[v] = relay[v]
  BY DEF RelayInv, Batches
<1>2. relay' \in [Workers -> Batches]
  BY <1>1, NoBatchFacts
<1>3. \A e : Relay!Row(e)' = Relay!Row(e)
  BY DEF Relay!Row
<1>4. ASSUME NEW v \in Workers PROVE HoldsLease(v)' /\ Acknowledges(v)'
  <2>1. CASE v = w
    BY <1>1, <2>1, NoBatchFacts DEF HoldsLease, Acknowledges
  <2>2. CASE v # w
    BY <1>1, <1>3, <2>2 DEF RelayInv, HoldsLease, Acknowledges, Relay!Owned
  <2> QED
    BY <2>1, <2>2
<1> QED
  BY <1>1, <1>2, <1>3, <1>4 DEF RelayInv

(* A worker that goes on with its batch writes no row. *)
LEMMA PublishInv ==
    ASSUME RelayInv, NEW w \in Workers, NEW e \in relay[w].batch, NEW step \in {"mark", "reschedule"},
           relay' = [relay EXCEPT ![w].event = e, ![w].step = step],
           bus' \in {bus, bus \cup {e}}, step = "mark" => e \in bus',
           UNCHANGED <<outbox, delivery>>
    PROVE  RelayInv'
<1>1. /\ relay \in [Workers -> Batches] /\ Batches' = Batches
      /\ \A v \in Workers \ {w} : relay'[v] = relay[v]
  BY DEF RelayInv, Batches
<1>2. relay[w] \in Batches /\ e \in outbox /\ bus \subseteq bus' /\ bus' \subseteq outbox
  BY <1>1 DEF Batches, RelayInv
<1>3. /\ relay'[w] \in Batches /\ relay'[w].event = e /\ relay'[w].step = step
      /\ relay'[w].batch = relay[w].batch /\ relay'[w].lease = relay[w].lease
  BY Zenon, <1>1, <1>2 DEF Batches
<1>4. relay' \in [Workers -> Batches]
  BY <1>1, <1>3
<1>5. \A f : Relay!Row(f)' = Relay!Row(f)
  BY DEF Relay!Row
<1>6. ASSUME NEW v \in Workers PROVE HoldsLease(v)' /\ Acknowledges(v)'
  <2>1. HoldsLease(v) /\ Acknowledges(v)
    BY DEF RelayInv
  <2>2. CASE v = w
    BY ZenonT(30), <1>3, <1>5, <2>1, <2>2 DEF HoldsLease, Acknowledges, Relay!Owned
  <2>3. CASE v # w
    BY <1>1, <1>2, <1>5, <2>1, <2>3 DEF HoldsLease, Acknowledges, Relay!Owned
  <2> QED
    BY <2>2, <2>3
<1> QED
  BY <1>1, <1>2, <1>4, <1>5, <1>6 DEF RelayInv

(* mark_published and reschedule, by the owner of the row. *)
LEMMA FinishInv ==
    ASSUME RelayInv, NEW w \in Workers, NEW e, e = relay[w].event, e # NoEvent, Relay!Owned(w, e),
           NEW row, RowShape(row), row.state = "PUBLISHED" => e \in bus,
           Relay!WriteRow(e, row), Relay!NextInBatch(w), UNCHANGED <<outbox, bus>>
    PROVE  RelayInv'
<1> DEFINE rest == relay[w].batch \ {e}
<1>1. /\ relay \in [Workers -> Batches] /\ Batches' = Batches
      /\ relay[w] \in Batches
  BY DEF RelayInv, Batches
<1>2. e \in outbox /\ rest \in SUBSET outbox
  BY <1>1 DEF Batches
<1>3. /\ relay'[w] = IF rest = {} THEN Relay!NoBatch
                     ELSE [relay[w] EXCEPT !.batch = rest, !.event = NoEvent, !.step = "publish"]
      /\ \A v \in Workers \ {w} : relay'[v] = relay[v]
  BY <1>1 DEF Relay!NextInBatch
<1> HIDE DEF rest
<1>4. /\ relay'[w] \in Batches /\ relay'[w].step = "publish"
      /\ relay'[w].lease > 0 => relay'[w].batch = rest /\ relay'[w].lease = relay[w].lease
  <2>1. CASE rest = {}
    BY <1>3, <2>1, NoBatchFacts
  <2>2. CASE rest # {}
    <3>1. relay'[w] = [relay[w] EXCEPT !.batch = rest, !.event = NoEvent, !.step = "publish"]
      BY <1>3, <2>2
    <3> QED
      BY ZenonT(30), <1>1, <1>2, <3>1 DEF Batches
  <2> QED
    BY <2>1, <2>2
<1>5. relay' \in [Workers -> Batches]
  BY <1>1, <1>3, <1>4 DEF Relay!NextInBatch
<1>6. /\ DOMAIN delivery' = DOMAIN delivery \cup {e} /\ Relay!Row(e)' = row
      /\ \A f : f # e => Relay!Row(f)' = Relay!Row(f)
  BY ZenonT(30), WrittenRows
<1>7. ASSUME NEW v \in Workers PROVE HoldsLease(v)' /\ Acknowledges(v)'
  <2>1. HoldsLease(v) /\ Acknowledges(v)
    BY DEF RelayInv
  <2>2. CASE v = w
    <3>1. ASSUME relay'[w].lease > 0, NEW f \in relay'[w].batch
          PROVE  Relay!Owned(w, f)' /\ Relay!Row(f)'.lease >= relay'[w].lease
      <4>1. f \in relay[w].batch /\ f # e /\ relay'[w].lease = relay[w].lease
        BY <1>4, <3>1 DEF rest
      <4> QED
        BY <1>6, <2>1, <2>2, <3>1, <4>1 DEF HoldsLease, Relay!Owned
    <3> QED
      BY <1>4, <2>2, <3>1 DEF HoldsLease, Acknowledges
  <2>3. CASE v # w
    <3>1. relay[v].lease > 0 => e \notin relay[v].batch
      BY <2>1, <2>3 DEF HoldsLease, Relay!Owned
    <3> QED
      BY <1>3, <1>6, <2>1, <2>3, <3>1 DEF HoldsLease, Acknowledges, Relay!Owned
  <2> QED
    BY <2>2, <2>3
<1>8. ASSUME NEW f \in outbox
      PROVE  /\ RowShape(Relay!Row(f)')
             /\ Relay!Row(f)'.state = "PUBLISHED" => f \in bus
  BY <1>6 DEF RelayInv
<1> QED
  BY <1>1, <1>2, <1>5, <1>6, <1>7, <1>8 DEF RelayInv, RowShape

LEMMA RowPublished ==
    ASSUME NEW row, RowShape(row), NEW t,
           t = [row EXCEPT !.state = "PUBLISHED", !.owner = NoWorker, !.lease = 0]
    PROVE  RowShape(t)
<1>1. PICK a, x : row \in [state : Relay!DeliveryState, attempts : {a}, wait : {x}, lease : Nat,
                           owner : Workers \cup {NoWorker}]
  BY DEF RowShape
<1>2. t \in [state : Relay!DeliveryState, attempts : {a}, wait : {x}, lease : Nat,
             owner : Workers \cup {NoWorker}]
  BY Zenon, <1>1 DEF Relay!DeliveryState
<1> QED
  BY Zenon, <1>2 DEF RowShape

\* The row reschedule writes.
Rescheduled(row, state, wait) ==
    [row EXCEPT !.state = state, !.owner = NoWorker, !.lease = 0, !.wait = wait]

LEMMA RowRescheduled ==
    ASSUME NEW row, RowShape(row), NEW state \in Relay!DeliveryState, NEW wait
    PROVE  RowShape(Rescheduled(row, state, wait)) /\ Rescheduled(row, state, wait).state = state
<1>0. PICK t : t = Rescheduled(row, state, wait)
  OBVIOUS
<1>1. PICK a, x : row \in [state : Relay!DeliveryState, attempts : {a}, wait : {x}, lease : Nat,
                           owner : Workers \cup {NoWorker}]
  BY DEF RowShape
<1>2. t \in [state : Relay!DeliveryState, attempts : {a}, wait : {wait}, lease : Nat,
             owner : Workers \cup {NoWorker}]
  BY Zenon, <1>0, <1>1 DEF Rescheduled
<1>3. t.state = state
  BY <1>0, <1>1 DEF Rescheduled
<1>4. RowShape(t)
  BY <1>2 DEF RowShape
<1> QED
  BY <1>0, <1>3, <1>4

LEMMA MarkPublishedInv ==
    ASSUME RelayInv, NEW w \in Workers, Relay!MarkPublished(w) PROVE RelayInv'
<1>1. PICK e : e = relay[w].event
  OBVIOUS
<1> DEFINE row == [Relay!Row(e) EXCEPT !.state = "PUBLISHED", !.owner = NoWorker, !.lease = 0]
<1>2. /\ e # NoEvent /\ relay[w].step = "mark" /\ Relay!Owned(w, e) /\ Relay!WriteRow(e, row)
      /\ Relay!NextInBatch(w) /\ UNCHANGED <<outbox, bus>>
  BY <1>1 DEF Relay!MarkPublished
<1>3. e \in bus /\ RowShape(Relay!Row(e))
  BY <1>1, <1>2 DEF RelayInv, Acknowledges
<1>4. RowShape(row)
  BY Zenon, <1>3, RowPublished
<1> HIDE DEF row
<1> QED
  BY <1>1, <1>2, <1>3, <1>4, FinishInv

LEMMA RescheduleInv ==
    ASSUME RelayInv, NEW w \in Workers, Relay!Reschedule(w) PROVE RelayInv'
<1>1. PICK e : e = relay[w].event
  OBVIOUS
<1>2. PICK old : old = Relay!Row(e)
  OBVIOUS
<1>3. PICK state : state = Relay!StateAfterFailure(old)
  OBVIOUS
<1>4. PICK delay : delay = Relay!Backoff(old.attempts) - relay[w].age
  OBVIOUS
<1>5. PICK wait : wait = IF delay > 0 THEN delay ELSE 0
  OBVIOUS
<1>6. PICK row : row = Rescheduled(old, state, wait)
  OBVIOUS
<1>7. /\ e # NoEvent /\ Relay!Owned(w, e) /\ Relay!WriteRow(e, row)
      /\ Relay!NextInBatch(w) /\ UNCHANGED <<outbox, bus>>
  BY <1>1, <1>2, <1>3, <1>4, <1>5, <1>6 DEF Relay!Reschedule, Rescheduled
<1>8. state \in Relay!DeliveryState /\ state # "PUBLISHED"
  BY <1>3 DEF Relay!StateAfterFailure, Relay!DeliveryState
<1>9. relay[w] \in Batches
  BY DEF RelayInv
<1>10. e \in outbox
  BY <1>1, <1>7, <1>9 DEF Batches
<1>11. RowShape(old)
  BY <1>2, <1>10 DEF RelayInv
<1>12. RowShape(row) /\ row.state = state
  BY <1>6, <1>8, <1>11, RowRescheduled
<1> QED
  BY <1>1, <1>7, <1>8, <1>12, FinishInv

LEMMA ClaimInv ==
    ASSUME RelayInv, NEW w \in Workers, Relay!ClaimOutbox(w), LeaseTicks \in Nat
    PROVE  RelayInv'
<1>1. PICK claimed \in SUBSET {e \in outbox : Relay!Claimable(e)} :
         /\ delivery' = [e \in DOMAIN delivery \cup claimed |->
                           IF e \in claimed
                           THEN [Relay!Row(e) EXCEPT !.state = "IN_FLIGHT",
                                                     !.attempts = Relay!OneMore(@),
                                                     !.owner = w, !.lease = LeaseTicks]
                           ELSE delivery[e]]
         /\ relay' = [relay EXCEPT ![w] = [Relay!NoBatch EXCEPT !.batch = claimed,
                                                                !.lease = LeaseTicks]]
  BY ZenonT(30) DEF Relay!ClaimOutbox
<1>2. UNCHANGED <<outbox, bus>> /\ claimed \subseteq outbox /\ \A e \in claimed : Relay!Claimable(e)
  BY ZenonT(30), <1>1 DEF Relay!ClaimOutbox
<1>3. /\ relay \in [Workers -> Batches] /\ Batches' = Batches
      /\ relay'[w] = [Relay!NoBatch EXCEPT !.batch = claimed, !.lease = LeaseTicks]
      /\ \A v \in Workers \ {w} : relay'[v] = relay[v]
  BY Zenon, <1>1, <1>2 DEF RelayInv, Batches
<1>4. /\ relay'[w] \in Batches /\ relay'[w].batch = claimed /\ relay'[w].lease = LeaseTicks
      /\ relay'[w].step = "publish"
  BY ZenonT(30), <1>2, <1>3 DEF Relay!NoBatch, Batches
<1>5. relay' \in [Workers -> Batches]
  BY Zenon, <1>1, <1>3, <1>4
<1>6. ASSUME NEW e \in outbox, e \in claimed
      PROVE  /\ RowShape(Relay!Row(e)') /\ Relay!Row(e)'.state = "IN_FLIGHT"
             /\ Relay!Row(e)'.owner = w /\ Relay!Row(e)'.lease = LeaseTicks
  <2>1. PICK row : row = Relay!Row(e)
    OBVIOUS
  <2>2. RowShape(row)
    BY <2>1 DEF RelayInv
  <2>3. PICK n : n = Relay!OneMore(row.attempts)
    OBVIOUS
  <2>4. Relay!Row(e)' = [row EXCEPT !.state = "IN_FLIGHT", !.attempts = n, !.owner = w,
                                    !.lease = LeaseTicks]
    BY Zenon, <1>1, <1>6, <2>1, <2>2, <2>3 DEF Relay!Row, RowShape
  <2> QED
    BY ZenonT(30), <2>2, <2>4 DEF RowShape, Relay!DeliveryState
<1>7. \A e : e \notin claimed => Relay!Row(e)' = Relay!Row(e)
  BY ZenonT(30), <1>1 DEF Relay!Row
<1>8. DOMAIN delivery' \subseteq outbox
  BY Zenon, <1>1, <1>2 DEF RelayInv
<1>9. ASSUME NEW v \in Workers PROVE HoldsLease(v)' /\ Acknowledges(v)'
  <2>1. HoldsLease(v) /\ Acknowledges(v)
    BY DEF RelayInv
  <2>2. CASE v = w
    BY <1>2, <1>4, <1>6, <2>2 DEF HoldsLease, Acknowledges, Relay!Owned
  <2>3. CASE v # w
    <3>1. relay[v] \in Batches /\ relay'[v] = relay[v]
      BY <1>3, <2>3
    <3>2. ASSUME relay[v].lease > 0, NEW e \in relay[v].batch PROVE e \notin claimed
      <4>1. e \in outbox /\ relay[v].lease \in Nat
        BY <3>1 DEF Batches
      <4>2. Relay!Row(e).lease \in Nat
        BY <4>1 DEF RelayInv, RowShape
      <4>3. Relay!Row(e).state = "IN_FLIGHT" /\ Relay!Row(e).lease >= relay[v].lease
        BY <2>1, <3>2 DEF HoldsLease, Relay!Owned
      <4> QED
        BY <1>2, <3>2, <4>1, <4>2, <4>3 DEF Relay!Claimable
    <3> QED
      BY <1>2, <1>7, <2>1, <3>1, <3>2 DEF HoldsLease, Acknowledges, Relay!Owned
  <2> QED
    BY <2>2, <2>3
<1>10. ASSUME NEW e \in outbox
       PROVE  RowShape(Relay!Row(e)') /\ (Relay!Row(e)'.state = "PUBLISHED" => e \in bus)
  BY <1>6, <1>7 DEF RelayInv
<1> QED
  BY ZenonT(30), <1>2, <1>3, <1>5, <1>8, <1>9, <1>10 DEF RelayInv, RowShape

LEMMA TickInv == ASSUME RelayInv, Relay!Tick PROVE RelayInv'
<1>1. /\ UNCHANGED <<outbox, bus>> /\ Batches' = Batches /\ relay \in [Workers -> Batches]
      /\ DOMAIN delivery' = DOMAIN delivery
  BY ZenonT(30) DEF Relay!Tick, RelayInv, Batches
<1>2. ASSUME NEW e \in outbox
      PROVE  /\ RowShape(Relay!Row(e)') /\ Relay!Row(e)'.state = Relay!Row(e).state
             /\ Relay!Row(e)'.owner = Relay!Row(e).owner
             /\ Relay!Row(e)'.lease = Relay!Less(Relay!Row(e).lease)
  <2>1. CASE e \in DOMAIN delivery
    <3>1. PICK row : row = Relay!Row(e) /\ row = delivery[e]
      BY <2>1 DEF Relay!Row
    <3>2. PICK wait, less : wait = Relay!Less(row.wait) /\ less = Relay!Less(row.lease)
      OBVIOUS
    <3>3. RowShape(row)
      BY Zenon, <3>1 DEF RelayInv
    <3>4. Relay!Row(e)' = [row EXCEPT !.wait = wait, !.lease = less]
      BY Zenon, <2>1, <3>1, <3>2, <3>3 DEF Relay!Tick, Relay!Row, RowShape
    <3>5. less \in Nat
      BY <3>2, <3>3 DEF RowShape, Relay!Less
    <3>6. PICK a, x : row \in [state : Relay!DeliveryState, attempts : {a}, wait : {x}, lease : Nat,
                               owner : Workers \cup {NoWorker}]
      BY <3>3 DEF RowShape
    <3>7. PICK t : t = [row EXCEPT !.wait = wait, !.lease = less]
      OBVIOUS
    <3>8. /\ t \in [state : Relay!DeliveryState, attempts : {a}, wait : {wait}, lease : Nat,
                    owner : Workers \cup {NoWorker}]
          /\ t.state = row.state /\ t.owner = row.owner /\ t.lease = less
      BY Zenon, <3>5, <3>6, <3>7
    <3>9. RowShape(t)
      BY <3>8 DEF RowShape
    <3> QED
      BY <3>1, <3>2, <3>4, <3>7, <3>8, <3>9
  <2>2. CASE e \notin DOMAIN delivery
    <3>1. Relay!Row(e)' = Relay!Fresh /\ Relay!Row(e) = Relay!Fresh
      BY <1>1, <2>2 DEF Relay!Row
    <3>2. Relay!Fresh.lease = 0 /\ Relay!Less(0) = 0 /\ RowShape(Relay!Fresh)
      BY DEF Relay!Fresh, Relay!Less, RowShape, Relay!DeliveryState
    <3> QED
      BY <3>1, <3>2
  <2> QED
    BY <2>1, <2>2
<1>3. ASSUME NEW w \in Workers
      PROVE  /\ relay'[w] \in Batches /\ relay'[w].batch = relay[w].batch
             /\ relay'[w].step = relay[w].step /\ relay'[w].event = relay[w].event
             /\ relay[w].batch # {} => relay'[w].lease = Relay!Less(relay[w].lease)
  <2>1. relay[w] \in Batches
    BY <1>1
  <2>2. CASE relay[w].batch = {}
    BY Zenon, <2>1, <2>2 DEF Relay!Tick
  <2>3. CASE relay[w].batch # {}
    <3>1. PICK less, age : /\ less = Relay!Less(relay[w].lease)
                           /\ age = IF relay[w].age < BackoffCap THEN relay[w].age + 1 ELSE relay[w].age
      OBVIOUS
    <3>2. less \in Nat /\ age \in Nat
      BY <2>1, <3>1 DEF Batches, Relay!Less
    <3>3. relay'[w] = [relay[w] EXCEPT !.lease = less, !.age = age]
      BY Zenon, <2>1, <2>3, <3>1 DEF Relay!Tick, Batches
    <3> QED
      BY Zenon, <2>1, <3>1, <3>2, <3>3 DEF Batches
  <2> QED
    BY <2>2, <2>3
<1>4. relay' \in [Workers -> Batches]
  <2>1. relay' = [w \in Workers |-> relay'[w]]
    BY ZenonT(30) DEF Relay!Tick
  <2> QED
    BY ZenonT(30), <1>3, <2>1
<1>5. ASSUME NEW w \in Workers PROVE HoldsLease(w)' /\ Acknowledges(w)'
  <2>1. HoldsLease(w) /\ Acknowledges(w) /\ relay[w] \in Batches
    BY <1>1 DEF RelayInv
  <2>2. ASSUME relay'[w].lease > 0, NEW e \in relay'[w].batch
        PROVE  Relay!Owned(w, e)' /\ Relay!Row(e)'.lease >= relay'[w].lease
    <3>1. /\ e \in relay[w].batch /\ e \in outbox /\ relay[w].lease \in Nat
          /\ relay'[w].lease = Relay!Less(relay[w].lease)
      BY <1>3, <2>1, <2>2 DEF Batches
    <3>2. relay[w].lease > 0
      BY <2>2, <3>1 DEF Relay!Less
    <3>3. Relay!Owned(w, e) /\ Relay!Row(e).lease >= relay[w].lease
      BY <2>1, <3>1, <3>2 DEF HoldsLease
    <3>4. Relay!Row(e).lease \in Nat
      BY <3>1 DEF RelayInv, RowShape
    <3> QED
      BY <1>2, <3>1, <3>3, <3>4 DEF Relay!Owned, Relay!Less
  <2> QED
    BY <1>1, <1>3, <2>1, <2>2 DEF HoldsLease, Acknowledges
<1> QED
  BY ZenonT(30), <1>1, <1>2, <1>4, <1>5 DEF RelayInv, RowShape

LEMMA RelayStepInv ==
    ASSUME RelayInv, NEW w \in Workers, Relay!RelayStep(w) PROVE RelayInv'
<1>1. LeaseTicks \in Nat
  BY RelayAssumption
<1>2. CASE Relay!ClaimOutbox(w)
  BY <1>1, <1>2, ClaimInv
<1>3. CASE Relay!Publish(w)
  <2>1. PICK e \in relay[w].batch :
           /\ bus' = bus \cup {e} /\ UNCHANGED <<outbox, delivery>>
           /\ relay' = [relay EXCEPT ![w].event = e, ![w].step = "mark"]
    BY Zenon, <1>3 DEF Relay!Publish
  <2> QED
    BY Zenon, <2>1, PublishInv
<1>4. CASE Relay!PublishFails(w)
  <2>1. PICK e \in relay[w].batch :
           /\ bus' \in {bus, bus \cup {e}} /\ UNCHANGED <<outbox, delivery>>
           /\ relay' = [relay EXCEPT ![w].event = e, ![w].step = "reschedule"]
    BY ZenonT(30), <1>4 DEF Relay!PublishFails, Relay!AfterFault
  <2> QED
    BY Zenon, <2>1, PublishInv
<1>5. CASE Relay!MarkPublished(w) \/ Relay!Reschedule(w)
  BY <1>5, MarkPublishedInv, RescheduleInv
<1>6. CASE Relay!LostLease(w) \/ Relay!RelayCrash(w)
  BY ZenonT(30), <1>6, DropInv DEF Relay!LostLease, Relay!RelayCrash
<1> QED
  BY <1>2, <1>3, <1>4, <1>5, <1>6 DEF Relay!RelayStep, Relay!RelayProceed

(* The dispatchers only add events, and an added one is a fresh row. *)
LEMMA OutboxGrows == ASSUME [Next]_vars PROVE outbox \subseteq outbox'
BY ZenonT(30) DEF Next, RttMoves, DispatcherStep, Enter, Proceed, vars, ReadAttempt, ReadPlan, Prepare,
       StartDispatch, Complete, Write, Submit, Conflict, BridgeRefuses, Crash

LEMMA WritingKeepsRelay ==
    ASSUME RelayInv, outbox \subseteq outbox', UNCHANGED <<delivery, relay, bus>>
    PROVE  RelayInv'
<1>1. Batches \subseteq Batches'
  BY DEF Batches
<1>2. \A e : Relay!Row(e)' = Relay!Row(e)
  BY DEF Relay!Row
<1>3. relay' \in [Workers -> Batches']
  BY <1>1 DEF RelayInv
<1>4. ASSUME NEW e \in outbox'
      PROVE  /\ RowShape(Relay!Row(e))
             /\ Relay!Row(e).state = "PUBLISHED" => e \in bus
  <2>1. CASE e \in outbox
    BY <2>1 DEF RelayInv
  <2>2. CASE e \notin outbox
    <3>1. Relay!Row(e) = Relay!Fresh
      BY <2>2 DEF RelayInv, Relay!Row
    <3> QED
      BY <3>1 DEF Relay!Fresh, RowShape, Relay!DeliveryState
  <2> QED
    BY <2>1, <2>2
<1>5. \A w \in Workers : HoldsLease(w)' /\ Acknowledges(w)'
  BY <1>2 DEF RelayInv, HoldsLease, Acknowledges, Relay!Owned
<1>6. DOMAIN delivery' \subseteq outbox' /\ bus' \subseteq outbox'
  BY ZenonT(30) DEF RelayInv
<1> QED
  BY <1>2, <1>3, <1>4, <1>5, <1>6 DEF RelayInv, RowShape

(* The broker forgets nothing. *)
LEMMA BusGrows ==
    ASSUME NEW w, Relay!RelayStep(w) PROVE bus \subseteq bus'
BY Zenon DEF Relay!RelayStep, Relay!RelayProceed, Relay!ClaimOutbox, Relay!Publish, Relay!PublishFails,
       Relay!MarkPublished, Relay!Reschedule, Relay!LostLease, Relay!RelayCrash

-----------------------------------------------------------------------------
(* The projection *)

LEMMA ProjectInv ==
    ASSUME IInv, RelayInv, ProjectionInv, NEW e \in bus, Projector!Project(e)
    PROVE  ProjectionInv'
<1>1. e \in Events /\ e.rtt \in RttIds /\ e.version \in Nat /\ e.state \in SubmissionState
  BY DEF RelayInv, IInv, TypeOK, Events
<1>2. CASE e \in consumed
  <2>1. UNCHANGED <<bus, consumed, projection>>
    BY <1>2 DEF Projector!Project
  <2> QED
    BY <2>1 DEF ProjectionInv
<1>3. CASE e \notin consumed
  <2>1. consumed' = consumed \cup {e} /\ bus' = bus /\ consumed' \subseteq bus
    BY <1>3 DEF Projector!Project, ProjectionInv
  <2>2. \A f \in consumed : f.rtt \in RttIds /\ f.version \in Nat
    BY DEF ProjectionInv, RelayInv, IInv, TypeOK, Events
  <2>3. \A n \in RttIds : projection[n].version \in Nat
    BY ZenonT(30) DEF ProjectionInv
  <2>4. CASE Projector!Replaces(e)
    <3>1. PICK state : state = Projector!StateByEvent(e.state)
      OBVIOUS
    <3>2. state \in Shown
      BY <1>1, <3>1 DEF Projector!StateByEvent, Shown, Projector!ProgressState
    <3>3. projection' = [projection EXCEPT ![e.rtt] = [state |-> state, version |-> e.version]]
      BY <1>3, <2>4, <3>1 DEF Projector!Project
    <3>4. projection' \in [RttIds -> [state : Shown, version : Nat]]
      BY <1>1, <3>2, <3>3 DEF ProjectionInv
    <3>5. /\ projection'[e.rtt].state = state /\ projection'[e.rtt].version = e.version
          /\ \A n \in RttIds : n # e.rtt => projection'[n] = projection[n]
      BY <1>1, <3>3 DEF ProjectionInv
    <3>6. \A n \in RttIds :
             \/ projection'[n].version = 0
             \/ \E f \in consumed' : /\ f.rtt = n /\ f.version = projection'[n].version
                                     /\ projection'[n].state = Projector!StateByEvent(f.state)
      BY <1>1, <2>1, <3>1, <3>5 DEF ProjectionInv
    <3>7. ASSUME NEW f \in consumed' PROVE f.version <= projection'[f.rtt].version
      <4>1. CASE f = e
        BY <1>1, <3>5, <4>1
      <4>2. CASE f # e
        <5>1. f \in consumed /\ f.version <= projection[f.rtt].version
          BY <2>1, <4>2 DEF ProjectionInv
        <5>2. projection[e.rtt].version < e.version
          BY <2>3, <1>1, <2>4 DEF Projector!Replaces
        <5> QED
          BY <1>1, <2>2, <2>3, <3>5, <5>1, <5>2
      <4> QED
        BY <4>1, <4>2
    <3> QED
      BY <2>1, <3>4, <3>6, <3>7 DEF ProjectionInv, Shown
  <2>5. CASE ~Projector!Replaces(e)
    <3>1. projection' = projection
      BY <1>3, <2>5 DEF Projector!Project
    <3>2. e.version <= projection[e.rtt].version
      BY <1>1, <2>3, <2>5 DEF Projector!Replaces
    <3> QED
      BY <2>1, <3>1, <3>2 DEF ProjectionInv, Shown
  <2> QED
    BY <2>4, <2>5
<1> QED
  BY <1>2, <1>3

LEMMA ReadingIsSafe ==
    ASSUME ProjectionInv, bus \subseteq bus', UNCHANGED <<consumed, projection>>
    PROVE  ProjectionInv'
BY ZenonT(30) DEF ProjectionInv, Shown

-----------------------------------------------------------------------------
(* The composition *)

LEMMA DeliveryStepImplements == [DeliveryNext]_deliveryVars => [Next]_vars
BY ZenonT(30) DEF DeliveryNext, deliveryVars, Dispatching, Relaying, TimePasses, Projecting, Next, vars,
       submissionVars, Relay!RelayStep, Relay!RelayProceed, Relay!ClaimOutbox, Relay!Publish,
       Relay!PublishFails, Relay!MarkPublished, Relay!Reschedule, Relay!LostLease,
       Relay!RelayCrash, Relay!Tick

LEMMA DeliveryInitInv == DeliveryInit => DeliveryInv
<1> SUFFICES ASSUME DeliveryInit PROVE DeliveryInv
  OBVIOUS
<1>1. /\ outbox = {} /\ delivery = << >> /\ bus = {} /\ consumed = {}
      /\ relay = [w \in Workers |-> Relay!NoBatch]
      /\ projection = [n \in RttIds |-> [state |-> "NONE", version |-> 0]]
  BY DEF DeliveryInit, Init, Relay!RelayInit, Projector!ProjectionInit
<1>2. RelayInv
  <2>1. relay \in [Workers -> Batches]
    BY <1>1, NoBatchFacts
  <2>2. DOMAIN delivery = {}
    BY <1>1
  <2>3. \A w \in Workers : HoldsLease(w) /\ Acknowledges(w)
    BY <1>1, NoBatchFacts DEF HoldsLease, Acknowledges
  <2> QED
    BY <1>1, <2>1, <2>2, <2>3 DEF RelayInv
<1>3. ProjectionInv
  BY <1>1 DEF ProjectionInv, Shown, Projector!ProgressState
<1> QED
  BY <1>2, <1>3 DEF DeliveryInv

LEMMA DeliveryStepInv == IInv /\ DeliveryInv /\ [DeliveryNext]_deliveryVars => DeliveryInv'
<1> SUFFICES ASSUME IInv, RelayInv, ProjectionInv, [DeliveryNext]_deliveryVars
             PROVE  RelayInv' /\ ProjectionInv'
  BY DEF DeliveryInv
<1>1. CASE Dispatching \/ UNCHANGED deliveryVars
  <2>1. outbox \subseteq outbox'
    BY DeliveryStepImplements, OutboxGrows
  <2>2. UNCHANGED <<delivery, relay, bus, consumed, projection>>
    BY <1>1 DEF Dispatching, relayVars, deliveryVars
  <2> QED
    BY <2>1, <2>2, WritingKeepsRelay, ReadingIsSafe
<1>2. ASSUME NEW w \in Workers, Relaying(w) PROVE RelayInv' /\ ProjectionInv'
  BY ZenonT(30), <1>2, RelayStepInv, BusGrows, ReadingIsSafe DEF Relaying
<1>3. CASE TimePasses
  BY ZenonT(30), <1>3, TickInv, ReadingIsSafe DEF TimePasses, Relay!Tick
<1>4. CASE Projecting
  <2>1. PICK e \in bus : Projector!Project(e)
    BY <1>4 DEF Projecting
  <2>2. UNCHANGED <<outbox, delivery, relay, bus>>
    BY <1>4, <2>1 DEF Projecting, Projector!Project
  <2> QED
    BY <2>1, <2>2, ProjectInv, WritingKeepsRelay
<1> QED
  BY <1>1, <1>2, <1>3, <1>4 DEF DeliveryNext

\* Relaying and projecting do not disturb the submissions: what holds of the
\* dispatchers alone holds of the whole.
THEOREM DeliveryImplementsSubmission == DeliverySpec => Spec
<1>1. DeliveryInit => Init
  BY DEF DeliveryInit
<1> QED
  BY <1>1, DeliveryStepImplements, PTL DEF DeliverySpec, Spec

\* The invariants of the submissions, the relay and the projection hold
\* together, for any number of workers, events, lease expiries and faults.
THEOREM DeliveryInvariant == DeliverySpec => [](IInv /\ DeliveryInv)
<1>1. DeliverySpec => []IInv
  BY DeliveryImplementsSubmission, InvariantHolds, PTL
<1> QED
  BY <1>1, DeliveryInitInv, DeliveryStepInv, PTL DEF DeliverySpec

\* A worker whose lease runs is the only owner of the rows it claimed.
THEOREM LeasesExclude == DeliverySpec => []LeaseIsExclusive
<1>1. DeliveryInv => LeaseIsExclusive
  BY DEF DeliveryInv, RelayInv, HoldsLease, LeaseIsExclusive, Relay!LeaseIsExclusive
<1> QED
  BY <1>1, DeliveryInvariant, PTL

\* An event that mark_published recorded is on the bus.
THEOREM PublishedIsOnTheBus == DeliverySpec => []PublishedReachedTheBus
<1>1. DeliveryInv => PublishedReachedTheBus
  BY DEF DeliveryInv, RelayInv, Relay!Row, PublishedReachedTheBus, Relay!PublishedReachedTheBus
<1> QED
  BY <1>1, DeliveryInvariant, PTL

\* What project() shows is true of the submission, in whatever order and
\* however often the broker delivers its events.
THEOREM ProjectionTellsTheTruth == DeliverySpec => []ProjectionIsTrue
<1>1. ASSUME IInv, DeliveryInv PROVE ProjectionIsTrue
  <2>1. EventsTellTheStory /\ submission \in [RttIds -> Records] /\ outbox \subseteq Events
    BY <1>1 DEF IInv, TypeOK
  <2>2. RelayInv /\ ProjectionInv /\ consumed \subseteq outbox
    BY <1>1 DEF DeliveryInv, RelayInv, ProjectionInv
  <2>3. ASSUME NEW n \in RttIds
        PROVE  /\ projection[n].version <= submission[n].version
               /\ projection[n].version = submission[n].version /\ submission[n].version > 0 =>
                     projection[n].state = Projector!StateByEvent(submission[n].state)
               /\ {e \in outbox : e.rtt = n} \subseteq consumed =>
                     projection[n].version = submission[n].version
    <3>1. projection[n].version \in Nat /\ submission[n].version \in Nat
      BY <2>1, <2>2 DEF ProjectionInv, Records
    <3>2. projection[n].version <= submission[n].version
      <4>1. CASE projection[n].version = 0
        BY <3>1, <4>1
      <4>2. CASE projection[n].version # 0
        <5>1. PICK e \in consumed : e.rtt = n /\ e.version = projection[n].version
          BY <2>2, <4>2 DEF ProjectionInv
        <5>2. e \in outbox /\ e.version \in 1..submission[e.rtt].version
          BY <2>1, <2>2, <5>1 DEF EventsTellTheStory
        <5> QED
          BY <3>1, <5>1, <5>2
      <4> QED
        BY <4>1, <4>2
    <3>3. PICK now : now = Event(n, submission[n])
      OBVIOUS
    <3>4. now.rtt = n /\ now.version = submission[n].version /\ now.state = submission[n].state
      BY <3>3 DEF Event
    <3>5. submission[n].version > 0 => now \in outbox
      BY <2>1, <3>3 DEF EventsTellTheStory
    <3>6. ASSUME projection[n].version = submission[n].version, submission[n].version > 0
          PROVE  projection[n].state = Projector!StateByEvent(submission[n].state)
      <4>1. PICK e \in consumed : /\ e.rtt = n /\ e.version = projection[n].version
                                  /\ projection[n].state = Projector!StateByEvent(e.state)
        BY <2>2, <3>1, <3>6 DEF ProjectionInv
      <4>2. e = now
        BY <2>1, <2>2, <3>4, <3>5, <3>6, <4>1 DEF EventsTellTheStory
      <4> QED
        BY <3>4, <4>1, <4>2
    <3>7. ASSUME {e \in outbox : e.rtt = n} \subseteq consumed
          PROVE  projection[n].version = submission[n].version
      <4>1. CASE submission[n].version = 0
        BY <3>1, <3>2, <4>1
      <4>2. CASE submission[n].version > 0
        <5>1. now \in consumed
          BY <3>4, <3>5, <3>7, <4>2
        <5>2. submission[n].version <= projection[n].version
          BY <2>2, <3>4, <5>1 DEF ProjectionInv
        <5> QED
          BY <3>1, <3>2, <5>2
      <4> QED
        BY <3>1, <4>1, <4>2
    <3> QED
      BY <3>2, <3>6, <3>7
  <2> QED
    BY Zenon, <2>3 DEF ProjectionIsTrue
<1> QED
  BY <1>1, DeliveryInvariant, PTL

(* The rows that ended are in no claim and have no owner. *)
LEMMA EndedRowsStay ==
    ASSUME RelayInv, [DeliveryNext]_deliveryVars, NEW e \in DOMAIN delivery,
           delivery[e].state \in {"PUBLISHED", "DEAD_LETTER"}
    PROVE  delivery'[e].state = delivery[e].state
<1>1. Relay!Row(e) = delivery[e] /\ RowShape(delivery[e])
  BY DEF RelayInv, Relay!Row
<1>2. CASE UNCHANGED delivery
  BY <1>2
<1>3. ASSUME NEW w \in Workers, Relay!ClaimOutbox(w) PROVE delivery'[e] = delivery[e]
  <2>1. ~Relay!Claimable(e)
    BY <1>1 DEF Relay!Claimable
  <2> QED
    BY Zenon, <1>3, <2>1 DEF Relay!ClaimOutbox
<1>4. ASSUME NEW w \in Workers, Relay!MarkPublished(w) \/ Relay!Reschedule(w)
      PROVE  delivery'[e] = delivery[e]
  <2>1. PICK f, row : Relay!Owned(w, f) /\ Relay!WriteRow(f, row)
    BY <1>4 DEF Relay!MarkPublished, Relay!Reschedule
  <2>2. e # f
    BY ZenonT(30), <1>1, <2>1 DEF Relay!Owned
  <2> QED
    BY <2>1, <2>2 DEF Relay!WriteRow
<1>5. CASE Relay!Tick
  BY Zenon, <1>1, <1>5 DEF Relay!Tick, RowShape
<1> QED
  BY ZenonT(30), <1>2, <1>3, <1>4, <1>5 DEF DeliveryNext, deliveryVars, Dispatching, Relaying, TimePasses,
     Projecting, relayVars, Relay!RelayStep, Relay!RelayProceed, Relay!Publish,
     Relay!PublishFails, Relay!LostLease, Relay!RelayCrash

\* A late worker never overwrites how the delivery of an event ended.
THEOREM DeliveryIsFinal == DeliverySpec => DeliveryEndsOnce
<1> DEFINE A == \A e \in DOMAIN delivery :
                  delivery[e].state \in {"PUBLISHED", "DEAD_LETTER"} =>
                     delivery'[e].state = delivery[e].state
<1>1. DeliveryInv /\ [DeliveryNext]_deliveryVars => [A]_(Relay!outboxVars)
  BY EndedRowsStay DEF DeliveryInv
<1> QED
  BY <1>1, DeliveryInvariant, PTL DEF DeliverySpec, DeliveryEndsOnce, Relay!DeliveryEndsOnce
=============================================================================
