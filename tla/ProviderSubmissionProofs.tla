---------------------- MODULE ProviderSubmissionProofs ----------------------
(***************************************************************************)
(* Proofs about ProviderSubmission for any number of RTTs, dispatchers,    *)
(* dispatch attempts and crashes.  The argument rests on ReadsAreVersioned:*)
(* a dispatcher that passes the compare-and-set holds the stored row, so   *)
(* DISPATCHING is entered once from PREPARED when the adapter is not       *)
(* idempotent, and whoever entered it is the only one to call.             *)
(***************************************************************************)
EXTENDS ProviderSubmission, TLAPS

LEMMA Constants == MaxDispatches \in Nat /\ MaxCrashes \in Nat
BY SubmissionAssumption

(* An adapter that reaches the provider of an RTT is idempotent exactly     *)
(* when the RTT is none of those that may be submitted once only.           *)
LEMMA ReachingKind ==
    ASSUME NEW n \in RttIds, NEW a \in Adapters, SameProvider(n, a), Brings(n, a)
    PROVE  n \in OneShotRtts <=> a \notin Idempotent
<1>1. a \in Reaching(n)
  BY DEF Reaching, Brings
<1> QED
  BY <1>1, ReachingAssumption DEF OneShotRtts

(* A dispatcher that has read no row.                                       *)
LEMMA EnteredType ==
    ASSUME NEW n \in RttIds, NEW a \in Adapters, NEW at \in {"idle", "attempt_read"}
    PROVE  /\ Entered(n, a, at) \in DispatcherStates
           /\ Entered(n, a, at).at = at
BY DEF Entered, DispatcherStates, Records, SubmissionState, FinalStates, AbsentRecord

LEMMA RestingType == Resting \in DispatcherStates /\ Resting.at = "idle"
<1>1. (CHOOSE n \in RttIds : TRUE) \in RttIds /\ (CHOOSE a \in Adapters : TRUE) \in Adapters
  BY SubmissionAssumption, DescriptorAssumption
<1> QED
  BY <1>1, EnteredType DEF Resting

(* What is true initially. *)
LEMMA InitInv == Init => IInv
<1> SUFFICES ASSUME Init PROVE IInv
  OBVIOUS
<1> USE DEF Init, AbsentRecord
<1>1. TypeOK
  BY Constants, RestingType DEF TypeOK, RttStates, Records, SubmissionState, FinalStates
<1>2. ReadsAreVersioned /\ OneCaller /\ ResultsAreTrue
  BY RestingType DEF ReadsAreVersioned, Versioned, OneCaller, Calling, ResultsAreTrue
<1>3. UntouchedBeforeDispatch /\ SubmittedAtMostOnce /\ OutcomeIsTrue
  BY DEF UntouchedBeforeDispatch, SubmittedAtMostOnce, OutcomeIsTrue, OneShotRtts
<1>4. EventsTellTheStory
  BY DEF EventsTellTheStory
<1> QED
  BY <1>1, <1>2, <1>3, <1>4 DEF IInv

(* What is said of the rows, the events and the provider stands while none  *)
(* of them changes.                                                         *)
LEMMA TablesUnchanged ==
    ASSUME IInv, UNCHANGED <<submission, outbox, provider>>
    PROVE  /\ UntouchedBeforeDispatch' /\ SubmittedAtMostOnce'
           /\ OutcomeIsTrue' /\ EventsTellTheStory'
<1>1. UntouchedBeforeDispatch'
  BY DEF IInv, UntouchedBeforeDispatch
<1>2. SubmittedAtMostOnce'
  BY DEF IInv, SubmittedAtMostOnce
<1>3. OutcomeIsTrue'
  BY DEF IInv, OutcomeIsTrue
<1>4. EventsTellTheStory'
  BY DEF IInv, EventsTellTheStory, Event
<1> QED
  BY <1>1, <1>2, <1>3, <1>4

(* A step that touches no row, no event and not the provider, and after     *)
(* which the dispatcher holds no row.                                       *)
LEMMA ReadingStep ==
    ASSUME IInv, NEW d \in Dispatchers, NEW k \in DispatcherStates,
           k.at \in {"idle", "attempt_read", "checked"},
           dispatcher' = [dispatcher EXCEPT ![d] = k],
           rttState' \in [RttIds -> RttStates], crashes' \in 0..MaxCrashes,
           UNCHANGED <<submission, outbox, provider>>
    PROVE  IInv'
<1>1. dispatcher \in [Dispatchers -> DispatcherStates]
  BY DEF IInv, TypeOK
<1>2. dispatcher'[d] = k /\ \A e \in Dispatchers : e # d => dispatcher'[e] = dispatcher[e]
  BY <1>1
<1>3. TypeOK'
  BY <1>1 DEF IInv, TypeOK
<1>4. ReadsAreVersioned'
  BY <1>2 DEF IInv, ReadsAreVersioned, Versioned
<1>5. UntouchedBeforeDispatch' /\ SubmittedAtMostOnce' /\ OutcomeIsTrue' /\ EventsTellTheStory'
  BY TablesUnchanged
<1>6. OneCaller'
  BY <1>2 DEF IInv, OneCaller, Calling
<1>7. ResultsAreTrue'
  BY <1>2 DEF IInv, ResultsAreTrue
<1> QED
  BY <1>3, <1>4, <1>5, <1>6, <1>7 DEF IInv

LEMMA ReadAttemptInv ==
    ASSUME IInv, NEW d \in Dispatchers, NEW n \in RttIds, NEW a \in Adapters,
           ReadAttempt(d, n, a)
    PROVE  IInv'
<1>1. /\ dispatcher' = [dispatcher EXCEPT ![d] = Entered(n, a, "attempt_read")]
      /\ UNCHANGED <<rttState, submission, outbox, provider, crashes>>
  BY DEF ReadAttempt
<1>2. rttState' \in [RttIds -> RttStates] /\ crashes' \in 0..MaxCrashes
  BY <1>1 DEF IInv, TypeOK
<1> QED
  BY Zenon, <1>1, <1>2, EnteredType, ReadingStep

(* Leaving dispatch() keeps the invariant. *)
LEMMA LeaveInv ==
    ASSUME IInv, NEW d \in Dispatchers, Leave(d), crashes' \in 0..MaxCrashes,
           UNCHANGED <<rttState, submission, outbox, provider>>
    PROVE  IInv'
<1>1. rttState' \in [RttIds -> RttStates]
  BY DEF IInv, TypeOK
<1> QED
  BY Zenon, <1>1, RestingType, ReadingStep DEF Leave

LEMMA ReadPlanInv ==
    ASSUME IInv, NEW d \in Dispatchers, ReadPlan(d) PROVE IInv'
<1>1. UNCHANGED <<rttState, submission, outbox, provider, crashes>>
  BY DEF ReadPlan
<1>2. rttState' \in [RttIds -> RttStates] /\ crashes' \in 0..MaxCrashes
      /\ dispatcher[d] \in DispatcherStates
  BY <1>1 DEF IInv, TypeOK
<1>3. CASE Leave(d)
  BY <1>1, <1>2, <1>3, LeaveInv
<1>4. CASE dispatcher' = [dispatcher EXCEPT ![d] = [@ EXCEPT !.at = "checked"]]
  <2> DEFINE k == [dispatcher[d] EXCEPT !.at = "checked"]
  <2>1. k \in DispatcherStates /\ k.at = "checked"
    BY <1>2 DEF DispatcherStates
  <2>2. dispatcher' = [dispatcher EXCEPT ![d] = k]
    BY <1>4
  <2> HIDE DEF k
  <2> QED
    BY Zenon, <1>1, <1>2, <2>1, <2>2, ReadingStep
<1> QED
  BY <1>3, <1>4 DEF ReadPlan

LEMMA ConflictInv ==
    ASSUME IInv, NEW d \in Dispatchers, Conflict(d) PROVE IInv'
BY LeaveInv DEF Conflict, IInv, TypeOK

LEMMA CrashInv ==
    ASSUME IInv, NEW d \in Dispatchers, Crash(d) PROVE IInv'
<1>1. crashes' \in 0..MaxCrashes
  BY Constants DEF Crash, IInv, TypeOK
<1> QED
  BY <1>1, LeaveInv DEF Crash
LEMMA RttMovesInv ==
    ASSUME IInv, RttMoves PROVE IInv'
<1>1. UNCHANGED <<submission, outbox, dispatcher, provider, crashes>>
  BY DEF RttMoves
<1>2. rttState' \in [RttIds -> RttStates]
  BY DEF RttMoves, IInv, TypeOK, RttStates
<1>3. TypeOK'
  BY <1>1, <1>2 DEF IInv, TypeOK
<1>4. ReadsAreVersioned' /\ OneCaller' /\ ResultsAreTrue'
  BY <1>1 DEF IInv, ReadsAreVersioned, Versioned, OneCaller, Calling, ResultsAreTrue
<1>5. UntouchedBeforeDispatch' /\ SubmittedAtMostOnce' /\ OutcomeIsTrue' /\ EventsTellTheStory'
  BY <1>1, TablesUnchanged
<1> QED
  BY <1>3, <1>4, <1>5 DEF IInv

(* A row that is written at the next version keeps the events in order.     *)
LEMMA WrittenEvents ==
    ASSUME IInv, NEW n \in RttIds, NEW row \in Records,
           row.version = submission[n].version + 1, Write(n, row)
    PROVE  /\ EventsTellTheStory'
           /\ submission' \in [RttIds -> Records]
           /\ outbox' \subseteq Events
           /\ submission'[n] = row
           /\ \A m \in RttIds : m # n => submission'[m] = submission[m]
<1> DEFINE ev == Event(n, row)
<1>1. submission \in [RttIds -> Records] /\ outbox \subseteq Events
  BY DEF IInv, TypeOK
<1>2. submission'[n] = row /\ \A m \in RttIds : m # n => submission'[m] = submission[m]
  BY <1>1 DEF Write
<1>3. submission' \in [RttIds -> Records]
  BY <1>1 DEF Write
<1>4. ev \in Events /\ ev.rtt = n /\ ev.version = row.version /\ ev.version \in Nat
  BY DEF Event, Events, Records
<1>5. outbox' = outbox \cup {ev}
  BY DEF Write
<1>6. \A m \in RttIds : submission[m].version \in Nat
  BY <1>1 DEF Records
<1>7. \A e \in outbox : e.rtt \in RttIds /\ e.version \in 1..submission[e.rtt].version
  BY <1>1 DEF IInv, EventsTellTheStory, Events
<1> HIDE DEF ev
<1>8. \A e \in outbox : ~(e.rtt = n /\ e.version = ev.version)
  BY <1>4, <1>6, <1>7
<1>9. \A e \in outbox' : e.version \in 1..submission'[e.rtt].version
  <2> TAKE e \in outbox'
  <2>1. CASE e = ev
    BY <2>1, <1>2, <1>4, <1>6
  <2>2. CASE e \in outbox /\ e.rtt = n
    BY <2>2, <1>2, <1>6, <1>7
  <2>3. CASE e \in outbox /\ e.rtt # n
    BY <2>3, <1>2, <1>7
  <2> QED
    BY <2>1, <2>2, <2>3, <1>5
<1>10. \A e, f \in outbox' : e.rtt = f.rtt /\ e.version = f.version => e = f
  <2>1. \A e, f \in outbox : e.rtt = f.rtt /\ e.version = f.version => e = f
    BY DEF IInv, EventsTellTheStory
  <2> QED
    BY <2>1, <1>4, <1>5, <1>8
<1>11. ASSUME NEW m \in RttIds
       PROVE  /\ \A v \in 1..submission'[m].version :
                    \E e \in outbox' : e.rtt = m /\ e.version = v
              /\ submission'[m].version > 0 => Event(m, submission'[m]) \in outbox'
  <2>1. /\ \A v \in 1..submission[m].version :
             \E e \in outbox : e.rtt = m /\ e.version = v
        /\ submission[m].version > 0 => Event(m, submission[m]) \in outbox
    BY DEF IInv, EventsTellTheStory
  <2>2. CASE m # n
    BY <2>1, <2>2, <1>2, <1>5
  <2>3. CASE m = n
    <3>1. Event(m, submission'[m]) \in outbox'
      BY <2>3, <1>2, <1>5 DEF ev
    <3>2. \A v \in 1..row.version : v \in 1..submission[n].version \/ v = ev.version
      BY <1>4, <1>6
    <3> QED
      BY <2>1, <2>3, <3>1, <3>2, <1>2, <1>4, <1>5
  <2> QED
    BY <2>2, <2>3
<1>12. EventsTellTheStory'
  BY <1>9, <1>10, <1>11 DEF EventsTellTheStory
<1> QED
  BY <1>1, <1>2, <1>3, <1>4, <1>5, <1>12
(* prepare() inserts the row, or returns the stored one.                    *)
LEMMA PrepareInv ==
    ASSUME IInv, NEW d \in Dispatchers, Prepare(d) PROVE IInv'
<1> DEFINE n == dispatcher[d].rtt
           row == IF submission[n].state = "ABSENT" THEN Prepared ELSE submission[n]
           next == AfterPrepare(n, dispatcher[d].adapter, row)
           k == IF next = "idle" THEN Resting
                ELSE [dispatcher[d] EXCEPT !.at = next, !.read = row, !.result = "UNKNOWN"]
<1>1. /\ dispatcher \in [Dispatchers -> DispatcherStates] /\ dispatcher[d] \in DispatcherStates
      /\ n \in RttIds /\ submission \in [RttIds -> Records] /\ submission[n] \in Records
  BY DEF IInv, TypeOK, DispatcherStates
<1>2. /\ dispatcher' = [dispatcher EXCEPT ![d] = k]
      /\ UNCHANGED <<rttState, provider, crashes>>
  BY DEF Prepare, Leave
<1>3. Prepared \in Records /\ Prepared.state = "PREPARED" /\ Prepared.version = 1
  BY DEF Prepared, Records, SubmissionState
<1>4. row \in Records
  BY <1>1, <1>3
<1>5. row.state # "ABSENT"
  BY <1>3
<1>6. next \in {"idle", "dispatch", "complete"}
  BY DEF AfterPrepare
<1>7. /\ k \in DispatcherStates /\ k.at = next
      /\ next # "idle" => /\ k.rtt = n /\ k.adapter = dispatcher[d].adapter
                          /\ k.read = row /\ k.result = "UNKNOWN"
  <2> HIDE DEF next, row
  <2> QED
    BY Zenon, <1>1, <1>4, <1>6, RestingType DEF DispatcherStates, FinalStates
<1>8. /\ EventsTellTheStory' /\ submission' \in [RttIds -> Records] /\ outbox' \subseteq Events
      /\ submission'[n] = row
      /\ \A m \in RttIds : m # n => submission'[m] = submission[m]
  <2>1. CASE submission[n].state = "ABSENT"
    <3>1. submission[n].version = 0
      BY <1>1, <2>1 DEF IInv, UntouchedBeforeDispatch
    <3>2. row.version = submission[n].version + 1 /\ Write(n, row)
      BY <2>1, <3>1, <1>3 DEF Prepare
    <3> HIDE DEF row, n
    <3> QED
      BY <1>1, <1>4, <3>2, WrittenEvents
  <2>2. CASE submission[n].state # "ABSENT"
    <3>1. UNCHANGED <<submission, outbox>>
      BY <2>2 DEF Prepare
    <3> QED
      BY <1>1, <2>2, <3>1 DEF IInv, TypeOK, EventsTellTheStory, Event
  <2> QED
    BY <2>1, <2>2
<1>9. /\ submission[n].state = "ABSENT" => row.state = "PREPARED" /\ submission[n].version = 0
      /\ submission[n].state # "ABSENT" => row = submission[n]
      /\ row.version > 0
  BY <1>1, <1>3 DEF IInv, UntouchedBeforeDispatch, Records
<1>10. dispatcher'[d] = k /\ \A e \in Dispatchers : e # d => dispatcher'[e] = dispatcher[e]
  BY <1>1, <1>2
<1>11. /\ next = "dispatch" =>
             /\ row.state \in {"PREPARED", "DISPATCHING"}
             /\ dispatcher[d].adapter \notin Idempotent => row.state = "PREPARED"
             /\ SameProvider(n, dispatcher[d].adapter)
       /\ next = "complete" => row.state = "DISPATCHING"
  <2> HIDE DEF row
  <2> QED
    BY <1>4, <1>5 DEF AfterPrepare, Records, SubmissionState
<1>12. TypeOK'
  BY <1>1, <1>2, <1>7, <1>8 DEF IInv, TypeOK
<1> HIDE DEF k, next, row, n
<1>13. ReadsAreVersioned'
  <2> SUFFICES ASSUME NEW e \in Dispatchers
               PROVE  Versioned(dispatcher'[e], submission'[dispatcher'[e].rtt])
    BY DEF ReadsAreVersioned, Versioned
  <2>1. CASE e = d
    <3>1. dispatcher'[e] = k /\ (next # "idle" => submission'[k.rtt] = row)
      BY <2>1, <1>7, <1>8, <1>10
    <3>2. row.version <= row.version
      BY <1>4 DEF Records
    <3>3. CASE next = "idle"
      BY <3>1, <3>3, <1>7 DEF Versioned
    <3>4. CASE next # "idle"
      <4>1. Versioned(k, row)
        BY <3>2, <3>4, <1>6, <1>7, <1>9, <1>11 DEF Versioned
      <4> QED
        BY <3>1, <3>4, <4>1
    <3> QED
      BY <3>3, <3>4
  <2>2. CASE e # d
    <3>1. dispatcher'[e] = dispatcher[e] /\ dispatcher[e].rtt \in RttIds
      BY <2>2, <1>1, <1>10 DEF DispatcherStates
    <3>2. Versioned(dispatcher[e], submission[dispatcher[e].rtt])
      BY DEF IInv, ReadsAreVersioned
    <3>3. CASE submission'[dispatcher[e].rtt] = submission[dispatcher[e].rtt]
      BY <3>1, <3>2, <3>3
    <3>4. CASE submission'[dispatcher[e].rtt] # submission[dispatcher[e].rtt]
      <4>1. submission[dispatcher[e].rtt].version = 0
        BY <3>1, <3>4, <1>8, <1>9
      <4>2. dispatcher[e].read \in Records
        BY <1>1 DEF DispatcherStates
      <4>3. dispatcher[e].at \notin {"dispatch", "submit", "complete"}
        BY <3>2, <4>1, <4>2 DEF Versioned, Records
      <4> QED
        BY <3>1, <4>3 DEF Versioned
    <3> QED
      BY <3>3, <3>4
  <2> QED
    BY <2>1, <2>2
<1>14. UntouchedBeforeDispatch'
  BY <1>1, <1>2, <1>5, <1>8, <1>9 DEF IInv, UntouchedBeforeDispatch
<1>15. OneCaller'
  BY <1>2, <1>6, <1>7, <1>10 DEF IInv, OneCaller, Calling
<1>16. ResultsAreTrue'
  BY <1>2, <1>7, <1>10 DEF IInv, ResultsAreTrue
<1>17. SubmittedAtMostOnce'
  BY <1>2 DEF IInv, SubmittedAtMostOnce
<1>18. OutcomeIsTrue'
  BY <1>2, <1>8, <1>9 DEF IInv, OutcomeIsTrue
<1> QED
  BY <1>8, <1>12, <1>13, <1>14, <1>15, <1>16, <1>17, <1>18 DEF IInv
(* A dispatcher that passes the compare-and-set holds the stored row.       *)
LEMMA HoldsTheRow ==
    ASSUME IInv, NEW d \in Dispatchers, MayWrite(d),
           dispatcher[d].at \in {"dispatch", "complete"}
    PROVE  dispatcher[d].read = submission[dispatcher[d].rtt]
BY DEF IInv, ReadsAreVersioned, Versioned, MayWrite

(* Other dispatchers keep what they have read when a row moves on.          *)
LEMMA OthersStayVersioned ==
    ASSUME IInv, NEW e \in Dispatchers, NEW n \in RttIds, NEW row \in Records,
           row.version = submission[n].version + 1,
           row.state \notin {"ABSENT", "PREPARED"},
           NEW new, new = IF dispatcher[e].rtt = n THEN row ELSE submission[dispatcher[e].rtt]
    PROVE  Versioned(dispatcher[e], new)
<1>1. Versioned(dispatcher[e], submission[dispatcher[e].rtt])
  BY DEF IInv, ReadsAreVersioned
<1>2. dispatcher[e].read \in Records /\ submission[n] \in Records
  BY DEF IInv, TypeOK, DispatcherStates
<1>3. CASE dispatcher[e].rtt # n
  BY <1>1, <1>3
<1>4. CASE dispatcher[e].rtt = n
  <2>1. new = row
    BY <1>4
  <2>2. dispatcher[e].at \in {"dispatch", "submit", "complete"} =>
          dispatcher[e].read.version < row.version
    BY <1>1, <1>2, <1>4 DEF Versioned, Records
  <2>3. dispatcher[e].read.version \in Nat /\ row.version \in Nat
    BY <1>2 DEF Records
  <2> QED
    BY <1>1, <2>1, <2>2, <2>3 DEF Versioned
<1> QED
  BY <1>3, <1>4

(* DISPATCHING is committed: the dispatcher is now the only one to call.    *)
LEMMA StartDispatchInv ==
    ASSUME IInv, NEW d \in Dispatchers, StartDispatch(d) PROVE IInv'
<1> DEFINE n == dispatcher[d].rtt
           row == [state |-> "DISPATCHING",
                   dispatches |-> dispatcher[d].read.dispatches + 1,
                   version |-> dispatcher[d].read.version + 1]
           k == [dispatcher[d] EXCEPT !.at = "submit", !.read = row]
<1>1. /\ dispatcher \in [Dispatchers -> DispatcherStates] /\ dispatcher[d] \in DispatcherStates
      /\ n \in RttIds /\ submission \in [RttIds -> Records] /\ submission[n] \in Records
      /\ dispatcher[d].read \in Records
  BY DEF IInv, TypeOK, DispatcherStates
<1>2. /\ dispatcher[d].at = "dispatch" /\ MayWrite(d) /\ Write(n, row)
      /\ dispatcher' = [dispatcher EXCEPT ![d] = k]
      /\ UNCHANGED <<rttState, provider, crashes>>
  BY DEF StartDispatch
<1>3. dispatcher[d].read = submission[n]
  BY <1>2, HoldsTheRow
<1>4. row \in Records /\ row.version = submission[n].version + 1 /\ row.state = "DISPATCHING"
  BY <1>1, <1>3 DEF Records, SubmissionState
<1>5. /\ k \in DispatcherStates /\ k.at = "submit" /\ k.read = row /\ k.rtt = n
      /\ k.adapter = dispatcher[d].adapter /\ k.adapter \in Adapters
  <2> HIDE DEF row
  <2> QED
    BY Zenon, <1>1, <1>4 DEF DispatcherStates
<1>6. /\ submission[n].state \in {"PREPARED", "DISPATCHING"}
      /\ dispatcher[d].adapter \notin Idempotent => submission[n].state = "PREPARED"
      /\ SameProvider(n, dispatcher[d].adapter)
      /\ submission[n].version > 0
  BY <1>2, <1>3 DEF IInv, ReadsAreVersioned, Versioned
<1> HIDE DEF row, k, n
<1>7. /\ EventsTellTheStory' /\ submission' \in [RttIds -> Records] /\ outbox' \subseteq Events
      /\ submission'[n] = row
      /\ \A m \in RttIds : m # n => submission'[m] = submission[m]
  BY <1>1, <1>2, <1>4, WrittenEvents
<1>8. dispatcher'[d] = k /\ \A e \in Dispatchers : e # d => dispatcher'[e] = dispatcher[e]
  BY <1>1, <1>2
<1>9. \A e \in Dispatchers : dispatcher[e].rtt \in RttIds
  BY <1>1 DEF DispatcherStates
<1>10. TypeOK'
  BY <1>1, <1>2, <1>5, <1>7 DEF IInv, TypeOK
<1>11. ReadsAreVersioned'
  <2> SUFFICES ASSUME NEW e \in Dispatchers
               PROVE  Versioned(dispatcher'[e], submission'[dispatcher'[e].rtt])
    BY DEF ReadsAreVersioned, Versioned
  <2>1. CASE e = d
    <3>1. dispatcher'[e] = k /\ submission'[k.rtt] = row
      BY <2>1, <1>5, <1>7, <1>8
    <3>2. row.version <= row.version /\ row.version > 0
      BY <1>1, <1>4 DEF Records
    <3>3. Versioned(k, row)
      BY <3>2, <1>4, <1>5, <1>6 DEF Versioned
    <3> QED
      BY <3>1, <3>3
  <2>2. CASE e # d
    <3>1. submission'[dispatcher[e].rtt] =
             IF dispatcher[e].rtt = n THEN row ELSE submission[dispatcher[e].rtt]
      BY <1>7, <1>9
    <3>2. Versioned(dispatcher[e], submission'[dispatcher[e].rtt])
      BY <3>1, <1>1, <1>4, OthersStayVersioned
    <3> QED
      BY <2>2, <3>2, <1>8
  <2> QED
    BY <2>1, <2>2
<1>12. UntouchedBeforeDispatch'
  <2> SUFFICES ASSUME NEW m \in RttIds
               PROVE  /\ submission'[m].state \in {"ABSENT", "PREPARED"} => provider'[m].calls = 0
                      /\ provider'[m].calls = 0 => provider'[m].fate = "none"
                      /\ submission'[m].state = "ABSENT" <=> submission'[m].version = 0
    BY DEF UntouchedBeforeDispatch
  <2>1. CASE m = n
    BY <2>1, <1>1, <1>2, <1>4, <1>7 DEF IInv, UntouchedBeforeDispatch, Records
  <2>2. CASE m # n
    BY <2>2, <1>2, <1>7 DEF IInv, UntouchedBeforeDispatch
  <2> QED
    BY <2>1, <2>2
<1>13. OneCaller'
  <2>1. Calling(d)' /\ n \in OneShotRtts =>
          /\ provider[n].calls = 0
          /\ \A f \in Dispatchers : dispatcher[f].at = "submit" => dispatcher[f].rtt # n
    <3> SUFFICES ASSUME Calling(d)', n \in OneShotRtts
                 PROVE  /\ provider[n].calls = 0
                        /\ \A f \in Dispatchers : dispatcher[f].at = "submit" => dispatcher[f].rtt # n
      OBVIOUS
    <3>1. dispatcher[d].adapter \notin Idempotent
      BY <1>1, <1>5, <1>6, <1>8, ReachingKind DEF Calling
    <3>2. submission[n].state = "PREPARED"
      BY <3>1, <1>6
    <3> QED
      BY <3>2, <1>1 DEF IInv, UntouchedBeforeDispatch, ReadsAreVersioned, Versioned
  <2>2. \A f \in Dispatchers : f # d => (Calling(f)' <=> Calling(f))
    BY <1>8 DEF Calling
  <2>3. \A f \in Dispatchers : Calling(f) => dispatcher[f].at = "submit"
    BY DEF Calling
  <2>4. dispatcher'[d].rtt = n /\ provider' = provider
    BY <1>2, <1>5, <1>8
  <2> SUFFICES ASSUME NEW e \in Dispatchers, Calling(e)', dispatcher'[e].rtt \in OneShotRtts
               PROVE  /\ provider[dispatcher'[e].rtt].calls = 0
                      /\ \A f \in Dispatchers :
                            Calling(f)' /\ dispatcher'[f].rtt = dispatcher'[e].rtt => f = e
    BY <2>4 DEF OneCaller
  <2>5. CASE e = d
    BY <2>1, <2>2, <2>3, <2>4, <2>5, <1>8
  <2>6. CASE e # d
    <3>1. Calling(e) /\ dispatcher'[e].rtt = dispatcher[e].rtt
      BY <2>2, <2>6, <1>8
    <3>2. /\ provider[dispatcher[e].rtt].calls = 0
          /\ \A f \in Dispatchers : Calling(f) /\ dispatcher[f].rtt = dispatcher[e].rtt => f = e
      BY <3>1 DEF IInv, OneCaller
    <3>3. Calling(d)' => dispatcher[e].rtt # n
      BY <2>1, <2>3, <3>1
    <3> QED
      BY <2>2, <2>4, <3>1, <3>2, <3>3, <1>8
  <2> QED
    BY <2>5, <2>6
<1>14. ResultsAreTrue'
  BY <1>2, <1>5, <1>8 DEF IInv, ResultsAreTrue
<1>15. SubmittedAtMostOnce'
  BY <1>2 DEF IInv, SubmittedAtMostOnce
<1>16. OutcomeIsTrue'
  BY <1>2, <1>4, <1>7 DEF IInv, OutcomeIsTrue
<1> QED
  BY <1>7, <1>10, <1>11, <1>12, <1>13, <1>14, <1>15, <1>16 DEF IInv
(* The provider is called.  What it has decided before stays decided.       *)
LEMMA SubmitInv ==
    ASSUME IInv, NEW d \in Dispatchers, Submit(d) PROVE IInv'
<1> DEFINE n == dispatcher[d].rtt
<1>1. /\ dispatcher \in [Dispatchers -> DispatcherStates] /\ dispatcher[d] \in DispatcherStates
      /\ n \in RttIds
      /\ provider \in [RttIds -> [calls : Nat, fate : {"none", "ACCEPTED", "REJECTED"}]]
  BY DEF IInv, TypeOK, DispatcherStates
<1>2. /\ dispatcher[d].at = "submit" /\ Calling(d)
      /\ UNCHANGED <<rttState, submission, outbox, crashes>>
  BY DEF Submit, Calling
<1>2a. PICK fate \in Fates(n, dispatcher[d].adapter) :
         /\ provider' = [provider EXCEPT ![n] =
                           [calls |-> @.calls + 1,
                            fate |-> IF fate = "none" THEN @.fate ELSE fate]]
         /\ \E result \in Reports(fate) :
               dispatcher' = [dispatcher EXCEPT ![d] =
                                [@ EXCEPT !.at = "complete", !.result = result]]
  BY Zenon DEF Submit
<1>2b. PICK result \in Reports(fate) :
         dispatcher' = [dispatcher EXCEPT ![d] =
                          [@ EXCEPT !.at = "complete", !.result = result]]
  BY Zenon, <1>2a
<1> DEFINE new == IF fate = "none" THEN provider[n].fate ELSE fate
           k == [dispatcher[d] EXCEPT !.at = "complete", !.result = result]
<1>4. fate \in {"none", "ACCEPTED", "REJECTED"} /\ new \in {"none", "ACCEPTED", "REJECTED"}
  BY <1>1, <1>2a DEF Fates
<1>5. result \in FinalStates /\ (result # "UNKNOWN" => fate = result)
  BY <1>2b, <1>4 DEF Reports, FinalStates
<1>6. k \in DispatcherStates /\ k.at = "complete" /\ k.read = dispatcher[d].read
      /\ k.rtt = n /\ k.result = result
  BY Zenon, <1>1, <1>5 DEF DispatcherStates
<1>7. result # "UNKNOWN" => new = result
  BY <1>5 DEF FinalStates
<1>8. dispatcher' = [dispatcher EXCEPT ![d] = k]
  BY <1>2b
<1>9. provider' = [provider EXCEPT ![n] = [calls |-> provider[n].calls + 1, fate |-> new]]
  BY <1>2a
<1>10. provider[n].fate # "none" => new = provider[n].fate
  <2>1. CASE dispatcher[d].adapter \in Idempotent
    BY <1>2a, <2>1 DEF Fates
  <2>2. CASE dispatcher[d].adapter \notin Idempotent
    <3>0. dispatcher[d].adapter \in Adapters /\ SameProvider(n, dispatcher[d].adapter)
      BY <1>1, <1>2 DEF DispatcherStates, IInv, ReadsAreVersioned, Versioned
    <3>1. provider[n].calls = 0
      BY <3>0, <1>1, <1>2, <2>2, ReachingKind DEF IInv, OneCaller, Calling
    <3> QED
      BY <1>1, <3>1 DEF IInv, UntouchedBeforeDispatch
  <2> QED
    BY <2>1, <2>2
<1> HIDE DEF new, k, n
<1>11. dispatcher'[d] = k /\ \A e \in Dispatchers : e # d => dispatcher'[e] = dispatcher[e]
  BY <1>1, <1>8
<1>12. /\ provider'[n].calls = provider[n].calls + 1 /\ provider'[n].fate = new
       /\ \A m \in RttIds : m # n => provider'[m] = provider[m]
       /\ provider[n].calls \in Nat
  BY <1>1, <1>9
<1>13. provider' \in [RttIds -> [calls : Nat, fate : {"none", "ACCEPTED", "REJECTED"}]]
  BY <1>1, <1>4, <1>9
<1>14. TypeOK'
  BY <1>1, <1>2, <1>6, <1>8, <1>13 DEF IInv, TypeOK
<1>15. ReadsAreVersioned'
  <2> SUFFICES ASSUME NEW e \in Dispatchers
               PROVE  Versioned(dispatcher'[e], submission'[dispatcher'[e].rtt])
    BY DEF ReadsAreVersioned, Versioned
  <2>1. Versioned(dispatcher[e], submission[dispatcher[e].rtt])
    BY DEF IInv, ReadsAreVersioned
  <2>2. CASE e = d
    <3>1. Versioned(dispatcher[d], submission[n])
      BY <2>1, <2>2 DEF n
    <3>2. Versioned(k, submission[n])
      BY <3>1, <1>2, <1>6 DEF Versioned
    <3> QED
      BY <2>2, <3>2, <1>2, <1>6, <1>11
  <2>3. CASE e # d
    BY <2>1, <2>3, <1>2, <1>11
  <2> QED
    BY <2>2, <2>3
<1>16. UntouchedBeforeDispatch'
  <2> SUFFICES ASSUME NEW m \in RttIds
               PROVE  /\ submission[m].state \in {"ABSENT", "PREPARED"} => provider'[m].calls = 0
                      /\ provider'[m].calls = 0 => provider'[m].fate = "none"
                      /\ submission[m].state = "ABSENT" <=> submission[m].version = 0
    BY <1>2 DEF UntouchedBeforeDispatch
  <2>1. submission[n].state \notin {"ABSENT", "PREPARED"}
    BY <1>2 DEF n, IInv, ReadsAreVersioned, Versioned
  <2>2. provider'[n].calls # 0
    BY <1>12
  <2> QED
    BY <2>1, <2>2, <1>12 DEF IInv, UntouchedBeforeDispatch
<1>17. n \in OneShotRtts =>
         /\ provider[n].calls = 0
         /\ \A e \in Dispatchers : Calling(e) /\ dispatcher[e].rtt = n => e = d
  BY <1>2 DEF n, IInv, OneCaller
<1>18. OneCaller'
  <2>1. \A f \in Dispatchers : Calling(f)' => f # d /\ Calling(f) /\ dispatcher'[f] = dispatcher[f]
    BY <1>6, <1>11 DEF Calling
  <2> SUFFICES ASSUME NEW e \in Dispatchers, Calling(e)', dispatcher'[e].rtt \in OneShotRtts
               PROVE  /\ provider'[dispatcher'[e].rtt].calls = 0
                      /\ \A f \in Dispatchers :
                            Calling(f)' /\ dispatcher'[f].rtt = dispatcher'[e].rtt => f = e
    BY DEF OneCaller
  <2>2. dispatcher[e].rtt # n /\ dispatcher[e].rtt \in RttIds
    BY <2>1, <1>1, <1>17 DEF DispatcherStates
  <2>3. /\ provider[dispatcher[e].rtt].calls = 0
        /\ \A f \in Dispatchers : Calling(f) /\ dispatcher[f].rtt = dispatcher[e].rtt => f = e
    BY <2>1 DEF IInv, OneCaller
  <2> QED
    BY <2>1, <2>2, <2>3, <1>12
<1>19. ResultsAreTrue'
  <2> SUFFICES ASSUME NEW e \in Dispatchers,
                      dispatcher'[e].at = "complete", dispatcher'[e].result # "UNKNOWN"
               PROVE  provider'[dispatcher'[e].rtt].fate = dispatcher'[e].result
    BY DEF ResultsAreTrue
  <2>1. CASE e = d
    BY <2>1, <1>6, <1>7, <1>11, <1>12
  <2>2. CASE e # d
    <3>1. dispatcher'[e] = dispatcher[e] /\ dispatcher[e] \in DispatcherStates
      BY <2>2, <1>1, <1>11
    <3>2. provider[dispatcher[e].rtt].fate = dispatcher[e].result
      BY <3>1 DEF IInv, ResultsAreTrue
    <3>3. dispatcher[e].rtt \in RttIds /\ dispatcher[e].result # "none"
      BY <3>1 DEF DispatcherStates, FinalStates
    <3> QED
      BY <3>1, <3>2, <3>3, <1>10, <1>12
  <2> QED
    BY <2>1, <2>2
<1>20. SubmittedAtMostOnce'
  BY <1>12, <1>17 DEF IInv, SubmittedAtMostOnce, OneShotRtts
<1>21. OutcomeIsTrue'
  BY <1>2, <1>10, <1>12 DEF IInv, OutcomeIsTrue
<1>22. EventsTellTheStory'
  BY <1>2 DEF IInv, EventsTellTheStory, Event
<1> QED
  BY <1>14, <1>15, <1>16, <1>18, <1>19, <1>20, <1>21, <1>22 DEF IInv
(* The outcome is recorded.                                                 *)
LEMMA CompleteInv ==
    ASSUME IInv, NEW d \in Dispatchers, Complete(d) PROVE IInv'
<1> DEFINE n == dispatcher[d].rtt
           row == FinalRow(d)
           k == Resting
<1>1. /\ dispatcher \in [Dispatchers -> DispatcherStates] /\ dispatcher[d] \in DispatcherStates
      /\ n \in RttIds /\ submission \in [RttIds -> Records] /\ submission[n] \in Records
      /\ dispatcher[d].result \in FinalStates
  BY DEF IInv, TypeOK, DispatcherStates
<1>2. /\ dispatcher[d].at = "complete" /\ MayWrite(d) /\ Write(n, row)
      /\ dispatcher' = [dispatcher EXCEPT ![d] = k]
      /\ UNCHANGED <<rttState, provider, crashes>>
  BY DEF Complete, Leave
<1>3. dispatcher[d].read = submission[n]
  BY <1>2, HoldsTheRow
<1>4. row \in Records /\ row.version = submission[n].version + 1
      /\ row.state = dispatcher[d].result
  BY <1>1, <1>3 DEF FinalRow, Records, SubmissionState, FinalStates
<1>5. row.state \notin {"ABSENT", "PREPARED"}
  BY <1>1, <1>4 DEF FinalStates
<1>6. k \in DispatcherStates /\ k.at = "idle"
  BY <1>1, RestingType
<1>7. row.state # "UNKNOWN" => provider[n].fate = row.state
  BY <1>2, <1>4 DEF IInv, ResultsAreTrue
<1> HIDE DEF row, k, n
<1>8. /\ EventsTellTheStory' /\ submission' \in [RttIds -> Records] /\ outbox' \subseteq Events
      /\ submission'[n] = row
      /\ \A m \in RttIds : m # n => submission'[m] = submission[m]
  BY <1>1, <1>2, <1>4, WrittenEvents
<1>9. dispatcher'[d] = k /\ \A e \in Dispatchers : e # d => dispatcher'[e] = dispatcher[e]
  BY <1>1, <1>2
<1>10. \A e \in Dispatchers : dispatcher[e].rtt \in RttIds
  BY <1>1 DEF DispatcherStates
<1>11. TypeOK'
  BY <1>1, <1>2, <1>6, <1>8 DEF IInv, TypeOK
<1>12. ReadsAreVersioned'
  <2> SUFFICES ASSUME NEW e \in Dispatchers
               PROVE  Versioned(dispatcher'[e], submission'[dispatcher'[e].rtt])
    BY DEF ReadsAreVersioned, Versioned
  <2>1. CASE e = d
    BY <2>1, <1>6, <1>9 DEF Versioned
  <2>2. CASE e # d
    <3>1. submission'[dispatcher[e].rtt] =
             IF dispatcher[e].rtt = n THEN row ELSE submission[dispatcher[e].rtt]
      BY <1>8, <1>10
    <3>2. Versioned(dispatcher[e], submission'[dispatcher[e].rtt])
      BY <3>1, <1>1, <1>4, <1>5, OthersStayVersioned
    <3> QED
      BY <2>2, <3>2, <1>9
  <2> QED
    BY <2>1, <2>2
<1>13. UntouchedBeforeDispatch'
  <2> SUFFICES ASSUME NEW m \in RttIds
               PROVE  /\ submission'[m].state \in {"ABSENT", "PREPARED"} => provider'[m].calls = 0
                      /\ provider'[m].calls = 0 => provider'[m].fate = "none"
                      /\ submission'[m].state = "ABSENT" <=> submission'[m].version = 0
    BY DEF UntouchedBeforeDispatch
  <2>1. CASE m = n
    BY <2>1, <1>1, <1>2, <1>4, <1>5, <1>8 DEF IInv, UntouchedBeforeDispatch, Records
  <2>2. CASE m # n
    BY <2>2, <1>2, <1>8 DEF IInv, UntouchedBeforeDispatch
  <2> QED
    BY <2>1, <2>2
<1>14. OneCaller'
  BY <1>2, <1>6, <1>9 DEF IInv, OneCaller, Calling
<1>15. ResultsAreTrue'
  BY <1>2, <1>6, <1>9 DEF IInv, ResultsAreTrue
<1>16. SubmittedAtMostOnce'
  BY <1>2 DEF IInv, SubmittedAtMostOnce
<1>17. OutcomeIsTrue'
  BY <1>2, <1>7, <1>8 DEF IInv, OutcomeIsTrue
<1> QED
  BY <1>8, <1>11, <1>12, <1>13, <1>14, <1>15, <1>16, <1>17 DEF IInv

(* The bridge raises: the dispatcher is to record UNKNOWN.                   *)
LEMMA BridgeRefusesInv ==
    ASSUME IInv, NEW d \in Dispatchers, BridgeRefuses(d) PROVE IInv'
<1> DEFINE k == [dispatcher[d] EXCEPT !.at = "complete", !.result = "UNKNOWN"]
<1>1. dispatcher \in [Dispatchers -> DispatcherStates] /\ dispatcher[d] \in DispatcherStates
  BY DEF IInv, TypeOK
<1>2. /\ dispatcher[d].at = "submit" /\ dispatcher' = [dispatcher EXCEPT ![d] = k]
      /\ UNCHANGED <<rttState, submission, outbox, provider, crashes>>
  BY DEF BridgeRefuses
<1>3. /\ k \in DispatcherStates /\ k.at = "complete" /\ k.result = "UNKNOWN"
      /\ k.rtt = dispatcher[d].rtt /\ k.read = dispatcher[d].read
  BY Zenon, <1>1 DEF DispatcherStates, FinalStates
<1> HIDE DEF k
<1>4. dispatcher'[d] = k /\ \A e \in Dispatchers : e # d => dispatcher'[e] = dispatcher[e]
  BY <1>1, <1>2
<1>5. TypeOK'
  BY <1>1, <1>2, <1>3 DEF IInv, TypeOK
<1>6. ReadsAreVersioned'
  BY <1>2, <1>3, <1>4 DEF IInv, ReadsAreVersioned, Versioned
<1>7. OneCaller' /\ ResultsAreTrue'
  BY <1>2, <1>3, <1>4 DEF IInv, OneCaller, Calling, ResultsAreTrue
<1>8. UntouchedBeforeDispatch' /\ SubmittedAtMostOnce' /\ OutcomeIsTrue' /\ EventsTellTheStory'
  BY <1>2, TablesUnchanged
<1> QED
  BY <1>5, <1>6, <1>7, <1>8 DEF IInv

(* Every step keeps the invariant.                                          *)
LEMMA StepInv == IInv /\ [Next]_vars => IInv'
<1> SUFFICES ASSUME IInv, [Next]_vars PROVE IInv'
  OBVIOUS
<1>1. CASE RttMoves
  BY <1>1, RttMovesInv
<1>2. ASSUME NEW d \in Dispatchers, DispatcherStep(d) PROVE IInv'
  BY <1>2, ReadAttemptInv, ReadPlanInv, PrepareInv, StartDispatchInv, ConflictInv,
     SubmitInv, BridgeRefusesInv, CompleteInv, CrashInv DEF DispatcherStep, Enter, Proceed
<1>3. CASE UNCHANGED vars
  <2>1. TypeOK'
    BY <1>3 DEF vars, IInv, TypeOK
  <2>2. ReadsAreVersioned' /\ OneCaller' /\ ResultsAreTrue'
    BY <1>3 DEF vars, IInv, ReadsAreVersioned, Versioned, OneCaller, Calling, ResultsAreTrue
  <2>3. UntouchedBeforeDispatch' /\ SubmittedAtMostOnce' /\ OutcomeIsTrue' /\ EventsTellTheStory'
    BY <1>3, TablesUnchanged DEF vars
  <2> QED
    BY <2>1, <2>2, <2>3 DEF IInv
<1> QED
  BY <1>1, <1>2, <1>3 DEF Next

-----------------------------------------------------------------------------

\* The invariant holds in every state any interleaving of dispatchers reaches.
THEOREM InvariantHolds == Spec => []IInv
BY InitInv, StepInv, PTL DEF Spec

\* The submission rows, the events and the dispatchers keep their types.
THEOREM TypeCorrect == Spec => []TypeOK
<1>1. IInv => TypeOK
  BY DEF IInv
<1> QED
  BY <1>1, InvariantHolds, PTL

\* A provider without idempotency is called at most once for an RTT.
THEOREM AtMostOnce == Spec => []SubmittedAtMostOnce
<1>1. IInv => SubmittedAtMostOnce
  BY DEF IInv
<1> QED
  BY <1>1, InvariantHolds, PTL

\* ACCEPTED and REJECTED are recorded only when the provider decided so.
THEOREM TruthfulOutcome == Spec => []OutcomeIsTrue
<1>1. IInv => OutcomeIsTrue
  BY DEF IInv
<1> QED
  BY <1>1, InvariantHolds, PTL

\* Each version of a submission has exactly one signed event.
THEOREM OneEventPerVersion == Spec => []EventsTellTheStory
<1>1. IInv => EventsTellTheStory
  BY DEF IInv
<1> QED
  BY <1>1, InvariantHolds, PTL
-----------------------------------------------------------------------------
(* Finality and refinement *)

(* The three steps that write a row write no final one.                     *)
LEMMA WriteStep ==
    ASSUME IInv, NEW d \in Dispatchers, Prepare(d) \/ StartDispatch(d) \/ Complete(d)
    PROVE  LET n == dispatcher[d].rtt
           IN  /\ n \in RttIds /\ provider' = provider
               /\ \A m \in RttIds : m # n => submission'[m] = submission[m]
               /\ \/ submission'[n] = submission[n]
                  \/ /\ submission[n].state \notin FinalStates
                     /\ \/ submission'[n].state \notin FinalStates
                        \/ /\ dispatcher[d].at = "complete"
                           /\ submission'[n].state = dispatcher[d].result
                           /\ dispatcher[d].result \in FinalStates
<1> DEFINE n == dispatcher[d].rtt
<1>1. n \in RttIds /\ submission \in [RttIds -> Records] /\ dispatcher[d].result \in FinalStates
  BY DEF IInv, TypeOK, DispatcherStates
<1>2. CASE Prepare(d)
  BY <1>1, <1>2 DEF Prepare, Write, Prepared, FinalStates
<1>3. CASE StartDispatch(d)
  BY <1>1, <1>3 DEF StartDispatch, MayWrite, Write, FinalStates
<1>4. CASE Complete(d)
  BY <1>1, <1>4 DEF Complete, MayWrite, Write, FinalRow
<1> QED
  BY <1>2, <1>3, <1>4

(* Every step writes a row, calls the provider, or does neither.            *)
LEMMA StepKinds ==
    ASSUME [Next]_vars
    PROVE  \/ UNCHANGED <<submission, provider>>
           \/ \E d \in Dispatchers :
                 Prepare(d) \/ StartDispatch(d) \/ Complete(d) \/ Submit(d)
BY Zenon DEF Next, RttMoves, DispatcherStep, Enter, Proceed, vars, ReadAttempt, ReadPlan,
       Conflict, BridgeRefuses, Crash

\* A recorded outcome stays, for any number of dispatchers and crashes.
THEOREM Finality == Spec => FinalStatesStay
<1> DEFINE A == \A n \in RttIds :
                  submission[n].state \in FinalStates => submission'[n] = submission[n]
<1>1. ASSUME IInv, [Next]_vars PROVE A
  <2>1. ASSUME NEW d \in Dispatchers, Prepare(d) \/ StartDispatch(d) \/ Complete(d) PROVE A
    BY <1>1, <2>1, WriteStep
  <2>2. ASSUME NEW d \in Dispatchers, Submit(d) PROVE A
    BY <2>2 DEF Submit
  <2> QED
    BY <1>1, <2>1, <2>2, StepKinds
<1>2. IInv /\ [Next]_vars => [A]_vars
  BY <1>1
<1> QED
  BY <1>2, InvariantHolds, PTL DEF Spec, FinalStatesStay
\* adapter.submit() is the one call of the contract.
LEMMA SubmitRefines ==
    ASSUME IInv, NEW d \in Dispatchers, Submit(d), dispatcher[d].rtt \in OneShotRtts
    PROVE  \E k \in OneShotRtts : ProviderContract!Call(k)
<1>0. PICK n \in OneShotRtts : n = dispatcher[d].rtt
  OBVIOUS
<1>1. n \in RttIds /\ provider[n].calls = 0 /\ provider[n].fate = "none"
  BY <1>0 DEF Submit, Calling, IInv, OneCaller, UntouchedBeforeDispatch, OneShotRtts
<1>2. PICK fate \in {"none", "ACCEPTED", "REJECTED"} :
         provider' = [provider EXCEPT ![n] =
                         [calls |-> @.calls + 1,
                          fate |-> IF fate = "none" THEN @.fate ELSE fate]]
  BY Zenon, <1>0 DEF Submit, Fates
<1>3. submission' = submission
  BY DEF Submit
<1>4. provider \in [RttIds -> [calls : Nat, fate : {"none", "ACCEPTED", "REJECTED"}]]
  BY DEF IInv, TypeOK
<1>5. /\ provider'[n].calls = 1 /\ provider'[n].fate = fate
      /\ \A m \in RttIds : m # n => provider'[m] = provider[m]
  BY <1>1, <1>2, <1>4
<1>6. [m \in OneShotRtts |-> provider'[m].calls] =
         [[m \in OneShotRtts |-> provider[m].calls] EXCEPT ![n] = 1]
  BY Zenon, <1>1, <1>5 DEF OneShotRtts
<1>7. [m \in OneShotRtts |-> provider'[m].fate] =
         [[m \in OneShotRtts |-> provider[m].fate] EXCEPT ![n] = fate]
  BY Zenon, <1>1, <1>5 DEF OneShotRtts
<1>8. [m \in OneShotRtts |-> provider[m].calls][n] = 0
  BY <1>1
<1>9. ProviderContract!Call(n)
  BY Zenon, <1>3, <1>6, <1>7, <1>8 DEF ProviderContract!Call
<1> QED
  BY <1>9

\* A call for an RTT whose provider is idempotent is not seen.
LEMMA OtherSubmitRefines ==
    ASSUME IInv, NEW d \in Dispatchers, Submit(d), dispatcher[d].rtt \notin OneShotRtts
    PROVE  UNCHANGED ProviderContract!contractVars
<1>1. submission' = submission /\ \A m \in OneShotRtts : provider'[m] = provider[m]
  BY DEF Submit, IInv, TypeOK, OneShotRtts
<1> QED
  BY <1>1 DEF ProviderContract!contractVars

\* A step that writes a row concludes the request or is not seen.
LEMMA WriteRefines ==
    ASSUME IInv, NEW d \in Dispatchers, Prepare(d) \/ StartDispatch(d) \/ Complete(d)
    PROVE  [ProviderContract!Next]_(ProviderContract!contractVars)
<1>0. PICK n \in RttIds : n = dispatcher[d].rtt
  BY DEF IInv, TypeOK, DispatcherStates
<1> DEFINE V(row) == IF row.state \in FinalStates THEN row.state ELSE "none"
<1>1. /\ provider' = provider
      /\ \A m \in RttIds : m # n => submission'[m] = submission[m]
      /\ \/ submission'[n] = submission[n]
         \/ /\ submission[n].state \notin FinalStates
            /\ \/ submission'[n].state \notin FinalStates
               \/ /\ dispatcher[d].at = "complete"
                  /\ submission'[n].state = dispatcher[d].result
                  /\ dispatcher[d].result \in FinalStates
  BY <1>0, WriteStep
<1>2. CASE V(submission'[n]) = V(submission[n])
  <2>1. \A m \in RttIds : V(submission'[m]) = V(submission[m])
    BY <1>1, <1>2
  <2> QED
    BY <2>1, <1>1 DEF ProviderContract!contractVars, OneShotRtts
<1>2a. CASE n \notin OneShotRtts
  <2>1. \A m \in OneShotRtts : V(submission'[m]) = V(submission[m])
    BY <1>1, <1>2a DEF OneShotRtts
  <2> QED
    BY <2>1, <1>1 DEF ProviderContract!contractVars
<1>3. CASE V(submission'[n]) # V(submission[n]) /\ n \in OneShotRtts
  <2>1. /\ V(submission[n]) = "none" /\ dispatcher[d].at = "complete"
        /\ V(submission'[n]) = dispatcher[d].result
    BY <1>1, <1>3
  <2>2. dispatcher[d].result \in {"UNKNOWN"} \cup ({provider[n].fate} \ {"none"})
    BY <1>0, <1>1, <1>3, <2>1 DEF IInv, ResultsAreTrue, FinalStates
  <2>3. [m \in OneShotRtts |-> V(submission'[m])] =
           [[m \in OneShotRtts |-> V(submission[m])] EXCEPT ![n] = dispatcher[d].result]
    BY Zenon, <1>1, <2>1 DEF OneShotRtts
  <2>4. ProviderContract!Conclude(n)
    BY Zenon, <1>1, <1>3, <2>1, <2>2, <2>3 DEF ProviderContract!Conclude
  <2> QED
    BY <1>3, <2>4 DEF ProviderContract!Next
<1> QED
  BY <1>2, <1>2a, <1>3

\* dispatch() keeps the one-shot contract with every provider that lacks
\* idempotency, for any number of RTTs, dispatchers and crashes.
THEOREM OneShotRefinement == Spec => ImplementsOneShot
<1>1. Init => ProviderContract!Init
  BY DEF Init, AbsentRecord, FinalStates, ProviderContract!Init, OneShotRtts
<1>2. IInv /\ [Next]_vars => [ProviderContract!Next]_(ProviderContract!contractVars)
  <2> SUFFICES ASSUME IInv, [Next]_vars
               PROVE  [ProviderContract!Next]_(ProviderContract!contractVars)
    OBVIOUS
  <2>1. CASE UNCHANGED <<submission, provider>>
    BY <2>1 DEF ProviderContract!contractVars
  <2>2. ASSUME NEW d \in Dispatchers, Submit(d)
        PROVE  [ProviderContract!Next]_(ProviderContract!contractVars)
    BY <2>2, SubmitRefines, OtherSubmitRefines DEF ProviderContract!Next
  <2>3. ASSUME NEW d \in Dispatchers, Prepare(d) \/ StartDispatch(d) \/ Complete(d)
        PROVE  [ProviderContract!Next]_(ProviderContract!contractVars)
    BY <2>3, WriteRefines
  <2> QED
    BY <2>1, <2>2, <2>3, StepKinds
<1> QED
  BY <1>1, <1>2, InvariantHolds, PTL DEF Spec, ImplementsOneShot, ProviderContract!Spec
=============================================================================
