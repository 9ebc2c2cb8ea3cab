-------------------------- MODULE GuardedReadProofs --------------------------
(***************************************************************************)
(* Reads through the API: the guard around a request (ApiGuard), and the   *)
(* paged history it gives access to (TransactionHistory), each for any     *)
(* number of workers or readers, tokens, transactions and rows on a page.  *)
(*                                                                         *)
(* The guard's invariant follows a request from its verification to its    *)
(* audit, and counts the grants of every window.  The history's says where *)
(* a reader's cursor stands: what was seen is not older than the cursor,   *)
(* and what was there when paging began is seen or older.  That the links  *)
(* of a transaction are all there or none is tells whose history it is in. *)
(***************************************************************************)
EXTENDS ApiGuard, TransactionHistory, FiniteSetTheorems, WellFoundedInduction, TLAPS

-----------------------------------------------------------------------------
(* The rate limit *)

Grants == Numbers \X Principals \X Times
Windows == [start : Times, count : Nat]

GrantsIn(grants, p, start) == {g \in grants : g[2] = p /\ g[3] = start}

(* The grants of a principal against its window: none is later than the    *)
(* window, those of the window are counted, and no window has too many.    *)
Counted(grants, p, current) ==
    /\ \A g \in grants : g[2] = p => g[3] <= current.start /\ current.count > 0
    /\ Cardinality(GrantsIn(grants, p, current.start)) <= current.count
    /\ \A s \in Times : Cardinality(GrantsIn(grants, p, s)) <= RequestsPerWindow

LEMMA GrantsFinite ==
    ASSUME NEW grants, IsFiniteSet(grants), NEW p, NEW s
    PROVE  /\ IsFiniteSet(GrantsIn(grants, p, s))
           /\ Cardinality(GrantsIn(grants, p, s)) \in Nat
<1>1. GrantsIn(grants, p, s) \in SUBSET grants
  BY DEF GrantsIn
<1> QED
  BY <1>1, FS_Subset, FS_CardinalityType

LEMMA WindowType ==
    ASSUME NEW old \in Windows, NEW instant \in Times
    PROVE  /\ WindowAfter(old, instant) \in Windows
           /\ WindowAfter(old, instant).count > 0
<1>1. old.start \in Times /\ old.count \in Nat /\ old.count + 1 \in Nat /\ old.count + 1 > 0
  BY DEF Windows
<1> QED
  BY <1>1 DEF WindowAfter, Windows

(* A request at an instant, granted or not. *)
LEMMA ConsumeCounts ==
    ASSUME NEW grants \in SUBSET Grants, IsFiniteSet(grants), NEW p \in Principals,
           NEW old \in Windows, Counted(grants, p, old), NEW instant \in Times,
           NEW n \in Numbers, NEW new, new = WindowAfter(old, instant)
    PROVE  /\ Counted(grants, p, new)
           /\ Allowed(new.count) => Counted(grants \cup {<<n, p, new.start>>}, p, new)
<1>1. /\ old.start \in Times /\ old.count \in Nat /\ instant \in Nat /\ old.start \in Nat
      /\ WindowSeconds \in Nat /\ WindowSeconds > 0
      /\ RequestsPerWindow \in Nat /\ RequestsPerWindow > 0
  BY GuardAssumption DEF Windows, Times
<1>2. \A s \in Times : /\ IsFiniteSet(GrantsIn(grants, p, s))
                       /\ Cardinality(GrantsIn(grants, p, s)) \in Nat
  BY GrantsFinite
<1>3. \A g \in grants : g[3] \in Times /\ g[3] \in Nat
  BY GuardAssumption DEF Grants, Times
<1>4. /\ new.start \in Times /\ new.count \in Nat /\ new.count > 0
      /\ \A g \in grants : g[2] = p => g[3] <= new.start
      /\ Cardinality(GrantsIn(grants, p, new.start)) + 1 <= new.count
  <2>1. CASE old.count = 0 \/ old.start + WindowSeconds <= instant
    <3>1. new.start = instant /\ new.count = 1
      BY <2>1 DEF WindowAfter
    <3>2. \A g \in grants : g[2] = p => g[3] < instant
      BY <1>1, <1>3, <2>1 DEF Counted
    <3>3. GrantsIn(grants, p, instant) = {}
      BY <1>1, <1>3, <3>2 DEF GrantsIn
    <3> QED
      BY <1>1, <1>3, <3>1, <3>2, <3>3, FS_EmptySet
  <2>2. CASE ~(old.count = 0 \/ old.start + WindowSeconds <= instant)
    <3>1. new.start = old.start /\ new.count = old.count + 1
      BY <2>2 DEF WindowAfter
    <3> QED
      BY <1>1, <1>2, <3>1 DEF Counted
  <2> QED
    BY <2>1, <2>2
<1>5. Counted(grants, p, new)
  BY <1>2, <1>4 DEF Counted
<1>6. ASSUME Allowed(new.count)
      PROVE  Counted(grants \cup {<<n, p, new.start>>}, p, new)
  <2> DEFINE g == <<n, p, new.start>>
             more == grants \cup {g}
  <2>0. g[2] = p /\ g[3] = new.start
    OBVIOUS
  <2> HIDE DEF g
  <2>1. GrantsIn(more, p, new.start) = GrantsIn(grants, p, new.start) \cup {g}
    BY <2>0 DEF GrantsIn
  <2>2. ASSUME NEW s, s # new.start PROVE GrantsIn(more, p, s) = GrantsIn(grants, p, s)
    BY <2>0, <2>2 DEF GrantsIn
  <2>3. Cardinality(GrantsIn(more, p, new.start)) <= new.count
    <3>1. PICK before : before = GrantsIn(grants, p, new.start)
      OBVIOUS
    <3>2. IsFiniteSet(before) /\ Cardinality(before) \in Nat /\ Cardinality(before) + 1 <= new.count
      BY <1>2, <1>4, <3>1
    <3>3. \/ Cardinality(before \cup {g}) = Cardinality(before)
          \/ Cardinality(before \cup {g}) = Cardinality(before) + 1
      BY <3>2, FS_AddElement, Zenon
    <3>4. Cardinality(before \cup {g}) <= new.count
      BY <1>4, <3>2, <3>3
    <3> QED
      BY <2>1, <3>1, <3>4, Zenon
  <2>4. \A h \in more : h[2] = p => h[3] <= new.start /\ new.count > 0
    BY <1>1, <1>4, <2>0 DEF Times
  <2>5. ASSUME NEW s \in Times
        PROVE  Cardinality(GrantsIn(more, p, s)) <= RequestsPerWindow
    <3>1. CASE s = new.start
      <4>1. Cardinality(GrantsIn(more, p, s)) \in Nat
        <5>1. IsFiniteSet(more)
          BY FS_AddElement
        <5> HIDE DEF more
        <5> QED
          BY <5>1, GrantsFinite
      <4> QED
        BY <1>1, <1>4, <1>6, <2>3, <3>1, <4>1 DEF Allowed
    <3>2. CASE s # new.start
      BY <2>2, <3>2 DEF Counted
    <3> QED
      BY <3>1, <3>2
  <2> HIDE DEF more
  <2>6. Counted(more, p, new)
    BY <2>3, <2>4, <2>5 DEF Counted
  <2> QED
    BY <2>6 DEF more, g
<1> QED
  BY <1>5, <1>6

(* The grant of another principal. *)
LEMMA OthersCounted ==
    ASSUME NEW grants, NEW n, NEW p, NEW s, NEW q, q # p, NEW current, Counted(grants, q, current)
    PROVE  Counted(grants \cup {<<n, p, s>>}, q, current)
<1> DEFINE g == <<n, p, s>>
<1>1. g[2] = p
  OBVIOUS
<1> HIDE DEF g
<1>2. ASSUME NEW t PROVE GrantsIn(grants \cup {g}, q, t) = GrantsIn(grants, q, t)
  BY <1>1 DEF GrantsIn
<1>3. Counted(grants \cup {g}, q, current)
  BY <1>1, <1>2 DEF Counted
<1> QED
  BY <1>3 DEF g

-----------------------------------------------------------------------------
(* A request on its way *)

Verified(request) ==
    request.token \in Tokens /\ ~request.late /\ request.instant < ExpiresAt[request.token]

(* What an execute() call relies on, given the revocations and the access  *)
(* audits of the moment.                                                   *)
Backed(k, revocations, accesses) ==
    /\ k.at # "idle" /\ k.request.late => k.request.token \in revocations
    /\ k.at \in {"consume", "operate"} => Verified(k.request)
    /\ k.at = "audit" /\ k.outcome # "DENIED_401" => Verified(k.request)
    /\ k.at = "audit" /\ k.outcome = "OK_200" => <<k.request.number, "ALLOWED">> \in accesses

GuardInv ==
    /\ GuardTypeOK
    /\ \A w \in Workers : Backed(worker[w], revoked, access)
    /\ ServedIsBacked
    /\ IsFiniteSet(granted)
    /\ \A p \in Principals : Counted(granted, p, window[p])

LEMMA WorkerFields ==
    ASSUME NEW k \in WorkerStates
    PROVE  /\ k.at \in {"idle", "verify", "consume", "operate", "audit"}
           /\ k.at # "idle" => k.request \in Requests
           /\ k.at = "audit" => k.outcome \in Outcomes
BY DEF WorkerStates, Resting

LEMMA RequestFields ==
    ASSUME NEW r \in Requests
    PROVE  /\ r.number \in Numbers /\ r.id \in RequestIds /\ r.token \in Tokens \cup {Forged}
           /\ r.instant \in Times /\ r.late \in BOOLEAN
BY DEF Requests

LEMMA RestingBacked ==
    Resting \in WorkerStates /\ Resting.at = "idle"
BY DEF WorkerStates, Resting

LEMMA GuardInitInv == GuardInit => GuardInv
<1> SUFFICES ASSUME GuardInit PROVE GuardInv
  OBVIOUS
<1>1. window = [p \in Principals |-> [start |-> 0, count |-> 0]]
  BY DEF GuardInit
<1>2. GuardTypeOK
  BY <1>1, RestingBacked, GuardAssumption DEF GuardInit, GuardTypeOK, Times
<1>3. \A w \in Workers : Backed(worker[w], revoked, access)
  BY RestingBacked DEF GuardInit, Backed
<1>4. IsFiniteSet(granted) /\ ServedIsBacked
  BY FS_EmptySet DEF GuardInit, ServedIsBacked
<1>5. ASSUME NEW p \in Principals PROVE Counted(granted, p, window[p])
  <2>1. granted = {} /\ window[p].count = 0
    BY <1>1 DEF GuardInit
  <2>2. \A s : GrantsIn(granted, p, s) = {}
    BY <2>1 DEF GrantsIn
  <2>3. Cardinality({}) = 0
    BY FS_EmptySet
  <2> QED
    BY <2>1, <2>2, <2>3, GuardAssumption DEF Counted
<1> QED
  BY <1>2, <1>3, <1>4, <1>5 DEF GuardInv

(* More revocations or access audits take no call's ground away. *)
LEMMA BackedGrows ==
    ASSUME NEW k, NEW old, NEW new, old \subseteq new, NEW before, NEW after, before \subseteq after,
           Backed(k, old, before)
    PROVE  Backed(k, new, after)
BY DEF Backed

(* One call moves on; the window and what was served are left alone. *)
LEMMA CallInv ==
    ASSUME GuardInv, NEW w \in Workers, NEW k \in WorkerStates,
           worker' = [worker EXCEPT ![w] = k], Backed(k, revoked, access'),
           access \subseteq access', access' \subseteq Numbers \X {"ALLOWED", "DENIED"},
           UNCHANGED <<now, revoked, window, requestAudits, granted, served>>,
           arrived' \in 0..MaxRequests, crashes' \in 0..MaxCrashes
    PROVE  GuardInv'
<1>1. worker \in [Workers -> WorkerStates]
  BY DEF GuardInv, GuardTypeOK
<1>2. GuardTypeOK'
  BY <1>1 DEF GuardInv, GuardTypeOK
<1>3. ASSUME NEW v \in Workers PROVE Backed(worker'[v], revoked', access')
  <2>1. Backed(worker[v], revoked, access')
    BY BackedGrows DEF GuardInv
  <2> QED
    BY <1>1, <2>1
<1>4. ServedIsBacked'
  BY Zenon DEF GuardInv, ServedIsBacked, AuditId
<1>5. IsFiniteSet(granted') /\ \A p \in Principals : Counted(granted', p, window'[p])
  BY DEF GuardInv
<1> QED
  BY <1>2, <1>3, <1>4, <1>5 DEF GuardInv

LEMMA ArriveInv ==
    ASSUME GuardInv, NEW w \in Workers, NEW id \in RequestIds, NEW t \in Tokens \cup {Forged},
           Arrive(w, id, t)
    PROVE  GuardInv'
<1> DEFINE late == t \in revoked
           r == [number |-> arrived + 1, id |-> id, token |-> t, instant |-> now, late |-> late]
           k == [at |-> "verify", request |-> r]
<1>1. arrived + 1 \in Numbers /\ arrived + 1 \in 0..MaxRequests /\ now \in Times
  BY GuardAssumption DEF GuardInv, GuardTypeOK, Arrive, Numbers
<1>2. r \in Requests
  <2>1. late \in BOOLEAN
    OBVIOUS
  <2> HIDE DEF late
  <2> QED
    BY <1>1, <2>1, Zenon DEF Requests
<1>3. r.late => r.token \in revoked
  BY Zenon
<1> HIDE DEF r
<1>4. k \in WorkerStates /\ k.at = "verify" /\ k.request = r
  BY <1>2 DEF WorkerStates
<1>5. worker' = [worker EXCEPT ![w] = k]
  BY DEF Arrive, r
<1> HIDE DEF k
<1>6. Backed(k, revoked, access)
  BY <1>3, <1>4 DEF Backed
<1>7. /\ UNCHANGED <<now, revoked, window, access, requestAudits, granted, served, crashes>>
      /\ arrived' = arrived + 1
  BY DEF Arrive
<1>8. access' \subseteq Numbers \X {"ALLOWED", "DENIED"} /\ crashes' \in 0..MaxCrashes
  BY <1>7 DEF GuardInv, GuardTypeOK
<1> QED
  BY Zenon, <1>1, <1>4, <1>5, <1>6, <1>7, <1>8, CallInv

(* The two ways a handler hands its request on. *)
LEMMA ProceedState ==
    ASSUME NEW k \in WorkerStates, k.at \in {"verify", "consume", "operate"},
           NEW at \in {"consume", "operate"}
    PROVE  LET next == [k EXCEPT !.at = at]
           IN  next \in WorkerStates /\ next.at = at /\ next.request = k.request
<1>1. k \in [at : {"verify", "consume", "operate"}, request : Requests]
  BY DEF WorkerStates, Resting
<1>2. [k EXCEPT !.at = at] \in [at : {"verify", "consume", "operate"}, request : Requests]
  BY <1>1
<1>3. [k EXCEPT !.at = at].at = at /\ [k EXCEPT !.at = at].request = k.request
  BY <1>1
<1> QED
  BY <1>2, <1>3, Zenon DEF WorkerStates

LEMMA ConcludeState ==
    ASSUME NEW r \in Requests, NEW outcome \in Outcomes
    PROVE  LET next == [at |-> "audit", request |-> r, outcome |-> outcome]
           IN  /\ next \in WorkerStates /\ next.at = "audit"
               /\ next.request = r /\ next.outcome = outcome
BY Zenon DEF WorkerStates

LEMMA VerifyInv ==
    ASSUME GuardInv, NEW w \in Workers, Verify(w)
    PROVE  GuardInv'
<1> DEFINE k == worker[w]
           r == k.request
<1>1. k \in WorkerStates /\ k.at = "verify" /\ r \in Requests /\ Backed(k, revoked, access)
  BY WorkerFields DEF GuardInv, GuardTypeOK, Verify
<1>2. /\ access \subseteq access' /\ access' \subseteq Numbers \X {"ALLOWED", "DENIED"}
      /\ UNCHANGED <<now, revoked, window, requestAudits, granted, served>>
      /\ arrived' \in 0..MaxRequests /\ crashes' \in 0..MaxCrashes
  BY DEF GuardInv, GuardTypeOK, Verify
<1>3. CASE Verifies(r.token, r.instant)
  <2> DEFINE next == [k EXCEPT !.at = "consume"]
  <2>1. worker' = [worker EXCEPT ![w] = next]
    BY <1>3 DEF Verify, Proceed
  <2>2. next \in WorkerStates /\ next.at = "consume" /\ next.request = r
    BY <1>1, ProceedState, Zenon
  <2>3. Verified(r) /\ (r.late => r.token \in revoked)
    BY <1>1, <1>3, RequestFields DEF Verifies, Verified, Backed
  <2> HIDE DEF next, k
  <2>4. Backed(next, revoked, access')
    BY <2>2, <2>3 DEF Backed
  <2> QED
    BY Zenon, <1>2, <2>1, <2>2, <2>4, CallInv
<1>4. CASE ~Verifies(r.token, r.instant)
  <2> DEFINE next == [at |-> "audit", request |-> r, outcome |-> "DENIED_401"]
  <2>1. worker' = [worker EXCEPT ![w] = next]
    BY <1>4 DEF Verify, Conclude
  <2>2. next \in WorkerStates /\ next.at = "audit" /\ next.request = r /\ next.outcome = "DENIED_401"
    BY <1>1, ConcludeState, Zenon DEF Outcomes
  <2>3. r.late => r.token \in revoked
    BY <1>1 DEF Backed
  <2> HIDE DEF next, k
  <2>4. Backed(next, revoked, access')
    BY <2>2, <2>3 DEF Backed
  <2> QED
    BY Zenon, <1>2, <2>1, <2>2, <2>4, CallInv
<1> QED
  BY <1>3, <1>4

LEMMA OperateInv ==
    ASSUME GuardInv, NEW w \in Workers, Operate(w)
    PROVE  GuardInv'
<1> DEFINE k == worker[w]
           r == k.request
<1>1. k \in WorkerStates /\ k.at = "operate" /\ r \in Requests /\ Backed(k, revoked, access)
  BY WorkerFields DEF GuardInv, GuardTypeOK, Operate
<1>2. Verified(r) /\ (r.late => r.token \in revoked) /\ r.number \in Numbers
  BY <1>1, RequestFields DEF Backed
<1>3. PICK outcome \in Outcomes :
        /\ worker' = [worker EXCEPT ![w] = [at |-> "audit", request |-> r, outcome |-> outcome]]
        /\ access \subseteq access'
        /\ access' \subseteq access \cup {<<r.number, "ALLOWED">>, <<r.number, "DENIED">>}
        /\ outcome = "OK_200" => <<r.number, "ALLOWED">> \in access'
  BY Zenon DEF Operate, Conclude, Recorded, Outcomes
<1> DEFINE next == [at |-> "audit", request |-> r, outcome |-> outcome]
<1>4. next \in WorkerStates /\ next.at = "audit" /\ next.request = r /\ next.outcome = outcome
  BY <1>1, ConcludeState, Zenon
<1>5. /\ access' \subseteq Numbers \X {"ALLOWED", "DENIED"}
      /\ UNCHANGED <<now, revoked, window, requestAudits, granted, served>>
      /\ arrived' \in 0..MaxRequests /\ crashes' \in 0..MaxCrashes
  BY <1>2, <1>3 DEF GuardInv, GuardTypeOK, Operate
<1>6. worker' = [worker EXCEPT ![w] = next]
  BY <1>3
<1> HIDE DEF next, k
<1>7. Backed(next, revoked, access')
  BY <1>2, <1>3, <1>4 DEF Backed
<1> QED
  BY Zenon, <1>3, <1>4, <1>5, <1>6, <1>7, CallInv

LEMMA CrashInv ==
    ASSUME GuardInv, NEW w \in Workers, Crash(w)
    PROVE  GuardInv'
<1>1. Resting \in WorkerStates /\ Backed(Resting, revoked, access')
  BY RestingBacked DEF Backed
<1>2. /\ worker' = [worker EXCEPT ![w] = Resting]
      /\ access \subseteq access' /\ access' \subseteq Numbers \X {"ALLOWED", "DENIED"}
      /\ UNCHANGED <<now, revoked, window, requestAudits, granted, served>>
      /\ arrived' \in 0..MaxRequests /\ crashes' \in 0..MaxCrashes
  BY GuardAssumption DEF GuardInv, GuardTypeOK, Crash
<1> QED
  BY Zenon, <1>1, <1>2, CallInv

(* The clock, and a revocation while requests are on their way. *)
LEMMA TickInv ==
    ASSUME GuardInv, Tick
    PROVE  GuardInv'
<1>1. now' \in Times
  BY GuardAssumption DEF GuardInv, GuardTypeOK, Tick, Times
<1>2. UNCHANGED <<revoked, window, access, requestAudits, worker, arrived, granted, served, crashes>>
  BY DEF Tick
<1> QED
  BY <1>1, <1>2 DEF GuardInv, GuardTypeOK, ServedIsBacked, AuditId

LEMMA RevokeInv ==
    ASSUME GuardInv, NEW t \in Tokens, Revoke(t)
    PROVE  GuardInv'
<1>1. /\ revoked' = revoked \cup {t}
      /\ UNCHANGED <<now, window, access, requestAudits, worker, arrived, granted, served, crashes>>
  BY DEF Revoke
<1>2. \A w \in Workers : Backed(worker'[w], revoked', access')
  BY <1>1, BackedGrows DEF GuardInv
<1>3. GuardTypeOK'
  BY <1>1 DEF GuardInv, GuardTypeOK
<1>4. ServedIsBacked'
  BY Zenon, <1>1 DEF GuardInv, ServedIsBacked, AuditId
<1>5. IsFiniteSet(granted') /\ \A p \in Principals : Counted(granted', p, window'[p])
  BY <1>1 DEF GuardInv
<1> QED
  BY <1>2, <1>3, <1>4, <1>5 DEF GuardInv

(* The rate limit: one principal's window moves, and one grant may join. *)
LEMMA ConsumeInv ==
    ASSUME GuardInv, NEW w \in Workers, Consume(w)
    PROVE  GuardInv'
<1> DEFINE k == worker[w]
           r == k.request
           principal == PrincipalOf[r.token]
           new == WindowAfter(window[principal], r.instant)
<1>1. k \in WorkerStates /\ k.at = "consume" /\ r \in Requests /\ Backed(k, revoked, access)
  BY Zenon, WorkerFields DEF GuardInv, GuardTypeOK, Consume
<1>2. /\ Verified(r) /\ (r.late => r.token \in revoked)
      /\ r.number \in Numbers /\ r.instant \in Times /\ r.token \in Tokens
  BY <1>1, RequestFields DEF Backed, Verified
<1>3. principal \in Principals
  BY <1>2 DEF Principals
<1>4. /\ window \in [Principals -> Windows] /\ granted \in SUBSET Grants
      /\ IsFiniteSet(granted) /\ worker \in [Workers -> WorkerStates]
  BY DEF GuardInv, GuardTypeOK, Windows, Grants
<1>5. /\ window' = [window EXCEPT ![principal] = new]
      /\ UNCHANGED <<now, revoked, access, requestAudits, arrived, served, crashes>>
  BY Zenon DEF Consume
<1>6. new \in Windows /\ new.start \in Times
  <2>1. new \in Windows
    BY <1>2, <1>3, <1>4, WindowType
  <2> HIDE DEF new
  <2> QED
    BY <2>1 DEF Windows
<1>7. /\ Counted(granted, principal, new)
      /\ Allowed(new.count) => Counted(granted \cup {<<r.number, principal, new.start>>}, principal, new)
  BY Zenon, <1>2, <1>3, <1>4, ConsumeCounts DEF GuardInv
<1>8. \/ /\ Allowed(new.count)
         /\ worker' = [worker EXCEPT ![w] = [k EXCEPT !.at = "operate"]]
         /\ granted' = granted \cup {<<r.number, principal, new.start>>}
      \/ /\ worker' = [worker EXCEPT ![w] =
                [at |-> "audit", request |-> r, outcome |-> "LIMITED_429"]]
         /\ granted' = granted
  BY Zenon DEF Consume, Proceed, Conclude
<1>9. PICK next \in WorkerStates :
        worker' = [worker EXCEPT ![w] = next] /\ Backed(next, revoked, access)
  <2>1. CASE worker' = [worker EXCEPT ![w] = [k EXCEPT !.at = "operate"]]
    <3> DEFINE next == [k EXCEPT !.at = "operate"]
    <3>1. next \in WorkerStates /\ next.at = "operate" /\ next.request = r
      BY <1>1, ProceedState, Zenon
    <3>2. worker' = [worker EXCEPT ![w] = next]
      BY <2>1
    <3> HIDE DEF next, k
    <3>3. Backed(next, revoked, access)
      BY <1>2, <3>1 DEF Backed
    <3> QED
      BY Zenon, <3>1, <3>2, <3>3
  <2>2. CASE worker' = [worker EXCEPT ![w] =
                [at |-> "audit", request |-> r, outcome |-> "LIMITED_429"]]
    <3> DEFINE next == [at |-> "audit", request |-> r, outcome |-> "LIMITED_429"]
    <3>1. /\ next \in WorkerStates /\ next.at = "audit"
          /\ next.request = r /\ next.outcome = "LIMITED_429"
      BY <1>1, ConcludeState, Zenon DEF Outcomes
    <3>2. worker' = [worker EXCEPT ![w] = next]
      BY <2>2
    <3> HIDE DEF next, k
    <3>3. Backed(next, revoked, access)
      BY <1>2, <3>1 DEF Backed
    <3> QED
      BY Zenon, <3>1, <3>2, <3>3
  <2> QED
    BY Zenon, <1>8, <2>1, <2>2
<1> DEFINE grant == <<r.number, principal, new.start>>
<1>10. grant \in Grants
  BY Zenon, <1>2, <1>3, <1>6 DEF Grants
<1>11. granted' \in SUBSET Grants /\ IsFiniteSet(granted')
  <2>1. granted' = granted \/ granted' = granted \cup {grant}
    BY Zenon, <1>8
  <2> HIDE DEF grant
  <2> QED
    BY <1>4, <1>10, <2>1, FS_AddElement
<1>12. ASSUME NEW p \in Principals PROVE Counted(granted', p, window'[p])
  <2>1. CASE p = principal
    <3>1. window'[p] = new
      BY <1>4, <1>5, <2>1
    <3> HIDE DEF new
    <3> QED
      BY ZenonT(30), <1>7, <1>8, <2>1, <3>1
  <2>2. CASE p # principal
    <3>1. window'[p] = window[p] /\ Counted(granted, p, window[p])
      BY <1>4, <1>5, <2>2 DEF GuardInv
    <3>2. Counted(granted \cup {<<r.number, principal, new.start>>}, p, window[p])
      BY <2>2, <3>1, OthersCounted, Zenon
    <3>3. granted' = granted \/ granted' = granted \cup {<<r.number, principal, new.start>>}
      BY <1>8, Zenon
    <3> QED
      BY <3>1, <3>2, <3>3, Zenon
  <2> QED
    BY <2>1, <2>2
<1> HIDE DEF k, new, principal, grant
<1>13. GuardTypeOK'
  <2>1. window' \in [Principals -> Windows] /\ worker' \in [Workers -> WorkerStates]
    BY Zenon, <1>4, <1>5, <1>6, <1>9
  <2> QED
    BY <1>5, <1>11, <2>1 DEF GuardInv, GuardTypeOK, Windows, Grants
<1>14. \A v \in Workers : Backed(worker'[v], revoked', access')
  BY <1>4, <1>5, <1>9 DEF GuardInv
<1>15. ServedIsBacked'
  BY Zenon, <1>5 DEF GuardInv, ServedIsBacked, AuditId
<1> QED
  BY <1>11, <1>12, <1>13, <1>14, <1>15 DEF GuardInv

LEMMA AuditIdType ==
    ASSUME NEW r \in Requests, NEW outcome \in Outcomes, outcome # "DENIED_401" => r.token \in Tokens
    PROVE  AuditId(r, outcome) \in AuditIds
<1> DEFINE principal == IF outcome # "DENIED_401" THEN PrincipalOf[r.token] ELSE Unauthenticated
           token == IF outcome # "DENIED_401" THEN r.token ELSE Forged
<1>1. principal \in Principals \cup {Unauthenticated} /\ token \in Tokens \cup {Forged}
  BY DEF Principals
<1>2. AuditId(r, outcome) = [id |-> r.id, outcome |-> outcome, second |-> r.instant,
                             principal |-> principal, token |-> token]
  BY Zenon DEF AuditId
<1>3. r.id \in RequestIds /\ r.instant \in Times
  BY RequestFields
<1> HIDE DEF principal, token
<1> QED
  BY <1>1, <1>2, <1>3 DEF AuditIds

(* The audit: an answer needs an identifier that was free. *)
LEMMA AuditInv ==
    ASSUME GuardInv, NEW w \in Workers, Audit(w)
    PROVE  GuardInv'
<1> DEFINE k == worker[w]
           r == k.request
           audit == AuditId(r, k.outcome)
<1>1. /\ k \in WorkerStates /\ k.at = "audit" /\ r \in Requests /\ k.outcome \in Outcomes
      /\ Backed(k, revoked, access)
  BY WorkerFields DEF GuardInv, GuardTypeOK, Audit
<1>2. k.outcome # "DENIED_401" => Verified(r)
  BY <1>1 DEF Backed
<1>3. /\ requestAudits' = requestAudits \cup {audit}
      /\ worker' = [worker EXCEPT ![w] = Resting]
      /\ UNCHANGED <<now, revoked, window, access, arrived, granted, crashes>>
      /\ \/ served' = served
         \/ /\ served' = served \cup {r} /\ audit \notin requestAudits
            /\ k.outcome = "OK_200"
  BY DEF Audit, Appends
<1>4. audit \in AuditIds
  BY <1>1, <1>2, AuditIdType DEF Verified
<1>5. worker \in [Workers -> WorkerStates] /\ Resting \in WorkerStates
  BY RestingBacked DEF GuardInv, GuardTypeOK
<1>6. ServedIsBacked'
  <2>1. CASE served' = served
    BY Zenon, <1>3, <2>1 DEF GuardInv, ServedIsBacked, AuditId
  <2>2. CASE /\ served' = served \cup {r} /\ audit \notin requestAudits
             /\ k.outcome = "OK_200"
    <3>1. audit = AuditId(r, "OK_200") /\ Verified(r) /\ <<r.number, "ALLOWED">> \in access
      BY <1>1, <1>2, <2>2 DEF Backed
    <3> HIDE DEF audit, k
    <3>2. \A q \in served : AuditId(q, "OK_200") \in requestAudits
      BY Zenon DEF GuardInv, ServedIsBacked
    <3>3. ASSUME NEW q \in served' PROVE /\ <<q.number, "ALLOWED">> \in access
                                         /\ AuditId(q, "OK_200") \in requestAudits'
                                         /\ ~q.late /\ q.instant < ExpiresAt[q.token]
      BY Zenon, <1>3, <2>2, <3>1 DEF GuardInv, ServedIsBacked, Verified
    <3>4. ASSUME NEW p \in served', NEW q \in served', AuditId(q, "OK_200") = AuditId(p, "OK_200")
          PROVE  q = p
      BY <2>2, <3>1, <3>2, <3>4, Zenon DEF GuardInv, ServedIsBacked
    <3>5. access' = access
      BY <1>3
    <3> QED
      BY <3>3, <3>4, <3>5, Zenon DEF ServedIsBacked
  <2> QED
    BY <1>3, <2>1, <2>2
<1> HIDE DEF audit
<1>7. served' \subseteq Requests /\ requestAudits' \subseteq AuditIds
  BY <1>1, <1>3, <1>4 DEF GuardInv, GuardTypeOK
<1>8. GuardTypeOK'
  BY <1>3, <1>5, <1>7 DEF GuardInv, GuardTypeOK
<1>9. ASSUME NEW v \in Workers PROVE Backed(worker'[v], revoked', access')
  BY <1>3, <1>5, RestingBacked DEF GuardInv, Backed
<1>10. IsFiniteSet(granted') /\ \A p \in Principals : Counted(granted', p, window'[p])
  BY <1>3 DEF GuardInv
<1> QED
  BY <1>6, <1>8, <1>9, <1>10 DEF GuardInv

LEMMA GuardStepInv ==
    ASSUME GuardInv, [GuardNext]_guardVars
    PROVE  GuardInv'
<1>1. CASE UNCHANGED guardVars
  BY Zenon, <1>1 DEF GuardInv, GuardTypeOK, ServedIsBacked, guardVars, AuditId
<1>2. CASE GuardNext
  BY <1>2, TickInv, RevokeInv, ArriveInv, VerifyInv, ConsumeInv, OperateInv, AuditInv, CrashInv
     DEF GuardNext
<1> QED
  BY <1>1, <1>2

LEMMA GuardInvariant == GuardSpec => []GuardInv
BY GuardInitInv, GuardStepInv, PTL DEF GuardSpec

(* No request is answered off the record or on a bad token, whatever       *)
(* crashes, revocations and repeated request ids there are: ServedIsBacked *)
(* for any number of workers, tokens and requests.                         *)
THEOREM NothingServedOffTheRecord == GuardSpec => []ServedIsBacked
<1>1. GuardInv => ServedIsBacked
  BY DEF GuardInv
<1> QED
  BY <1>1, GuardInvariant, PTL

(* consume_rate_limit grants no window more than its limit, for any limit, *)
(* window length and order in which delayed requests reach the counter.    *)
THEOREM RateLimitHolds == GuardSpec => []WindowHoldsLimit
<1>1. ASSUME GuardInv PROVE WindowHoldsLimit
  <2> SUFFICES ASSUME NEW g \in granted
               PROVE  Cardinality({h \in granted : h[2] = g[2] /\ h[3] = g[3]}) <= RequestsPerWindow
    BY DEF WindowHoldsLimit
  <2>1. g[2] \in Principals /\ g[3] \in Times
    BY <1>1 DEF GuardInv, GuardTypeOK
  <2>2. Cardinality(GrantsIn(granted, g[2], g[3])) <= RequestsPerWindow
    BY <1>1, <2>1 DEF GuardInv, Counted
  <2> QED
    BY <2>2, Zenon DEF GrantsIn
<1> QED
  BY <1>1, GuardInvariant, PTL

-----------------------------------------------------------------------------
(* Pages *)

LEMMA LeastNumber ==
    ASSUME NEW T \in SUBSET Nat, T # {}
    PROVE  \E n \in T : \A m \in T : n <= m
<1> DEFINE R == OpToRel(<, Nat)
<1>1. IsWellFoundedOn(R, Nat)
  BY NatLessThanWellFounded, Zenon
<1>2. PICK n \in T : \A m \in T : ~(<<m, n>> \in R)
  <2> HIDE DEF R
  <2> QED
    BY <1>1, WFMin, Zenon
<1>3. \A m \in T : ~(m < n)
  BY <1>2, Zenon DEF OpToRel
<1> QED
  BY <1>3

(* The order of a history is strict and total: seconds may coincide, utt_id *)
(* strings do not.                                                          *)
LEMMA OlderIsTotalOrder ==
    ASSUME NEW u \in Utts, NEW v \in Utts
    PROVE  /\ ~Older(u, u)
           /\ Older(u, v) => ~Older(v, u)
           /\ u = v \/ Older(u, v) \/ Older(v, u)
           /\ \A x \in Utts : Older(u, v) /\ Older(v, x) => Older(u, x)
<1>1. \A x \in Utts : AcceptedAt[x] \in Nat /\ Rank[x] \in Nat
  BY HistoryAssumption
<1>2. Rank[u] = Rank[v] => u = v
  BY HistoryAssumption
<1> QED
  BY <1>1, <1>2 DEF Older

Newer(rows, u) == {v \in rows : Older(u, v)}

LEMMA NewerFinite ==
    ASSUME NEW rows, IsFiniteSet(rows), NEW u
    PROVE  IsFiniteSet(Newer(rows, u)) /\ Cardinality(Newer(rows, u)) \in Nat
<1>1. Newer(rows, u) \in SUBSET rows
  BY DEF Newer
<1> QED
  BY <1>1, FS_Subset, FS_CardinalityType

(* The older of two rows has more rows before it. *)
LEMMA OlderIsFurtherDown ==
    ASSUME NEW rows \in SUBSET Utts, IsFiniteSet(rows), NEW u \in rows, NEW v \in rows, Older(u, v)
    PROVE  Cardinality(Newer(rows, v)) < Cardinality(Newer(rows, u))
<1>1. Newer(rows, v) \in SUBSET Newer(rows, u) /\ v \in Newer(rows, u) /\ v \notin Newer(rows, v)
  BY OlderIsTotalOrder DEF Newer
<1>2. PICK below, above : below = Newer(rows, u) /\ above = Newer(rows, v)
  OBVIOUS
<1>3. /\ IsFiniteSet(below) /\ Cardinality(below) \in Nat /\ Cardinality(above) \in Nat
      /\ above \in SUBSET below /\ above # below
  BY <1>1, <1>2, NewerFinite
<1>4. Cardinality(above) <= Cardinality(below) /\ Cardinality(below) # Cardinality(above)
  BY <1>3, FS_Subset
<1>5. Cardinality(above) < Cardinality(below)
  BY <1>3, <1>4
<1> QED
  BY <1>2, <1>5

(* A page: it is empty only when there are no rows, it has an oldest row,  *)
(* every row left for the next page is older than that one, and nothing is *)
(* left when the rows fit.                                                 *)
LEMMA PageFacts ==
    ASSUME NEW rows \in SUBSET Utts, IsFiniteSet(rows)
    PROVE  /\ Page(rows) \subseteq rows /\ IsFiniteSet(Page(rows))
           /\ Cardinality(rows) <= Limit => Page(rows) = rows
           /\ rows # {} => \E u \in Page(rows) : \A v \in Page(rows) : u = v \/ Older(u, v)
           /\ \A u \in rows, v \in Page(rows) : u \notin Page(rows) => Older(u, v)
<1> DEFINE D(u) == Cardinality(Newer(rows, u))
<1>1. \A u : D(u) \in Nat
  BY NewerFinite
<1>2. \A u, v \in rows : Older(u, v) => D(v) < D(u)
  BY OlderIsFurtherDown
<1>3. Page(rows) = {u \in rows : D(u) < Limit} /\ Limit \in Nat /\ Limit > 0
  BY HistoryAssumption DEF Page, Newer
<1>4. \A u, v \in rows : u = v \/ Older(u, v) \/ Older(v, u)
  BY OlderIsTotalOrder
<1>5. ASSUME NEW u \in rows, Cardinality(rows) <= Limit PROVE D(u) < Limit
  <2>1. Newer(rows, u) \in SUBSET (rows \ {u})
    BY OlderIsTotalOrder DEF Newer
  <2>2. IsFiniteSet(rows \ {u}) /\ Cardinality(rows \ {u}) = Cardinality(rows) - 1
    BY FS_RemoveElement
  <2>3. D(u) <= Cardinality(rows \ {u}) /\ Cardinality(rows) \in Nat
    BY <2>1, <2>2, FS_Subset, FS_CardinalityType
  <2> HIDE DEF D
  <2> QED
    BY <1>1, <1>3, <1>5, <2>2, <2>3
<1> HIDE DEF D
<1>6. IsFiniteSet(Page(rows))
  <2>1. Page(rows) \in SUBSET rows
    BY <1>3
  <2> QED
    BY <2>1, FS_Subset
<1>7. Cardinality(rows) <= Limit => Page(rows) = rows
  BY <1>3, <1>5
<1>8. ASSUME rows # {} PROVE Page(rows) # {}
  <2> DEFINE T == {D(u) : u \in rows}
  <2>1. T \in SUBSET Nat /\ T # {}
    BY <1>1, <1>8
  <2>2. PICK n \in T : \A m \in T : n <= m
    <3> HIDE DEF T
    <3> QED
      BY <2>1, LeastNumber
  <2>3. PICK u \in rows : n = D(u)
    BY <2>2
  <2>4. \A v \in rows : ~Older(u, v)
    BY <1>1, <1>2, <2>2, <2>3
  <2>5. Newer(rows, u) = {}
    BY <2>4 DEF Newer
  <2>6. D(u) = 0
    BY <2>5, FS_EmptySet DEF D
  <2> QED
    BY <1>3, <2>6
<1>9. ASSUME rows # {}
      PROVE  \E u \in Page(rows) : \A v \in Page(rows) : u = v \/ Older(u, v)
  <2> DEFINE T == {Limit - D(u) : u \in Page(rows)}
  <2>1. T \in SUBSET Nat /\ T # {}
    BY <1>1, <1>3, <1>8, <1>9
  <2>2. PICK n \in T : \A m \in T : n <= m
    <3> HIDE DEF T
    <3> QED
      BY <2>1, LeastNumber
  <2>3. PICK u \in Page(rows) : n = Limit - D(u)
    BY <2>2
  <2>4. \A v \in Page(rows) : Limit - D(u) <= Limit - D(v)
    BY <2>2, <2>3
  <2>5. \A v \in Page(rows) : ~Older(v, u)
    BY <1>1, <1>2, <1>3, <2>4
  <2> QED
    BY <1>3, <1>4, <2>5
<1>10. ASSUME NEW u \in rows, NEW v \in Page(rows), u \notin Page(rows) PROVE Older(u, v)
  BY <1>1, <1>2, <1>3, <1>4, <1>10
<1> QED
  BY <1>3, <1>6, <1>7, <1>9, <1>10

-----------------------------------------------------------------------------
(* Paging through a history *)

IndexedUtts == {link.utt : link \in links}

(* Where a paging stands among the subject's linked transactions. *)
Paged(k, linked) ==
    /\ k.seen \subseteq linked /\ k.began \subseteq linked
    /\ IsFiniteSet(k.seen) /\ k.shown = Cardinality(k.seen)
    /\ k.at = "done" => k.began \subseteq k.seen
    /\ k.at # "done" /\ k.cursor = NewestFirst => k.seen = {}
    /\ k.at # "done" /\ k.cursor # NewestFirst =>
          /\ \A u \in k.seen : ~Older(u, k.cursor)
          /\ \A u \in k.began : u \in k.seen \/ Older(u, k.cursor)

(* What a reader may have seen, and what must be on record for it. *)
Entitled(r, k, rows) ==
    k.at \in {"rows", "done"} \/ k.seen # {} =>
        MayRead(k.scope, k.subject) /\ AuditRow(r, k.subject, TRUE) \in rows

HistoryInv ==
    /\ TypeOK
    /\ IsFiniteSet(IndexedUtts)
    /\ \A r \in Readers : reader[r] # Idle =>
          Paged(reader[r], Linked(reader[r].subject)) /\ Entitled(r, reader[r], audits)

LEMMA PagingFields ==
    ASSUME NEW k \in {Idle} \cup Pagings
    PROVE  /\ k \in Pagings => k # Idle
           /\ k # Idle => /\ k \in Pagings
                          /\ k.at \in {"audit", "rows", "done"} /\ k.scope \in Scopes
                          /\ k.subject \in Subjects /\ k.cursor \in Utts \cup {NewestFirst}
                          /\ k.seen \in SUBSET Utts /\ k.shown \in Nat /\ k.began \in SUBSET Utts
           /\ k.at # "idle" => k # Idle
<1>1. Idle.at = "idle"
  BY DEF Idle
<1>2. k \in Pagings => k.at \in {"audit", "rows", "done"}
  BY DEF Pagings
<1>3. k \in Pagings => k # Idle
  BY <1>1, <1>2
<1> QED
  BY <1>1, <1>3 DEF Pagings

LEMMA LinkedRows ==
    ASSUME HistoryInv, NEW subject
    PROVE  Linked(subject) \in SUBSET Utts /\ IsFiniteSet(Linked(subject))
<1>1. Linked(subject) \in SUBSET IndexedUtts
  BY DEF Linked, IndexedUtts
<1>2. IndexedUtts \in SUBSET Utts /\ IsFiniteSet(IndexedUtts)
  BY DEF HistoryInv, TypeOK, Links, IndexedUtts
<1> QED
  BY <1>1, <1>2, FS_Subset

(* More links and more audits take nothing away from a reader. *)
LEMMA PagedGrows ==
    ASSUME NEW k, NEW old, NEW new, old \subseteq new, Paged(k, old)
    PROVE  Paged(k, new)
BY DEF Paged

LEMMA EntitledGrows ==
    ASSUME NEW r, NEW k, NEW old, NEW new, old \subseteq new, Entitled(r, k, old)
    PROVE  Entitled(r, k, new)
BY Zenon DEF Entitled

LEMMA HistoryInitInv == Init => HistoryInv
<1> SUFFICES ASSUME Init PROVE HistoryInv
  OBVIOUS
<1>1. TypeOK /\ \A r \in Readers : reader[r] = Idle
  BY DEF Init, TypeOK
<1>2. IndexedUtts = {}
  BY DEF Init, IndexedUtts
<1> QED
  BY <1>1, <1>2, FS_EmptySet DEF HistoryInv

(* One reader moves on, over the same links. *)
LEMMA ReaderInv ==
    ASSUME HistoryInv, NEW r \in Readers, NEW k \in {Idle} \cup Pagings,
           reader' = [reader EXCEPT ![r] = k],
           k # Idle => Paged(k, Linked(k.subject)) /\ Entitled(r, k, audits'),
           UNCHANGED <<known, links>>, audits \subseteq audits',
           audits' \subseteq [reader : Readers, target : Subjects \cup Utts,
                              outcome : {"ALLOWED", "DENIED"}]
    PROVE  HistoryInv'
<1>1. reader \in [Readers -> {Idle} \cup Pagings]
  BY DEF HistoryInv, TypeOK
<1>2. TypeOK'
  BY <1>1 DEF HistoryInv, TypeOK
<1>3. \A s : Linked(s)' = Linked(s)
  BY DEF Linked
<1>4. IndexedUtts' = IndexedUtts
  BY DEF IndexedUtts
<1>5. ASSUME NEW q \in Readers, reader'[q] # Idle
      PROVE  Paged(reader'[q], Linked(reader'[q].subject)) /\ Entitled(q, reader'[q], audits')
  <2>1. CASE q = r
    <3>1. reader'[q] = k
      BY <1>1, <2>1
    <3> QED
      BY <1>5, <2>1, <3>1
  <2>2. CASE q # r
    <3>1. reader'[q] = reader[q]
      BY <1>1, <2>2
    <3> QED
      BY <1>5, <3>1, EntitledGrows DEF HistoryInv
  <2> QED
    BY <2>1, <2>2
<1> QED
  BY <1>2, <1>3, <1>4, <1>5, Zenon DEF HistoryInv

LEMMA OnboardInv ==
    ASSUME HistoryInv, NEW person \in People, Onboard(person)
    PROVE  HistoryInv'
<1>1. known' \subseteq People /\ UNCHANGED <<links, reader, audits>>
  BY DEF HistoryInv, TypeOK, Onboard
<1>2. TypeOK'
  BY <1>1 DEF HistoryInv, TypeOK
<1>3. IndexedUtts' = IndexedUtts
  BY <1>1 DEF IndexedUtts
<1> QED
  BY <1>1, <1>2, <1>3, Zenon DEF HistoryInv, Linked

LEMMA LinkTypes ==
    ASSUME NEW u \in Utts
    PROVE  LinksOf(u) \subseteq Links /\ \A link \in LinksOf(u) : link.utt = u
<1>1. ASSUME NEW s PROVE OriginRoles(u, s) \cup ActorRoles(u, s) \in SUBSET TransactionRoles
  <2>1. \A field \in OriginFields : OriginRole(u, field) \in TransactionRoles
    BY DEF OriginFields, OriginRole, TransactionRoles
  <2>2. OriginRoles(u, s) \subseteq TransactionRoles
    BY <2>1, HistoryAssumption DEF OriginRoles
  <2>3. ActorRoles(u, s) \subseteq TransactionRoles
    BY DEF ActorRoles, TransactionRoles
  <2> QED
    BY <2>2, <2>3
<1> DEFINE Row(s) == [utt |-> u, subject |-> s, roles |-> OriginRoles(u, s) \cup ActorRoles(u, s)]
<1>2. ASSUME NEW s \in Subjects PROVE Row(s) \in Links /\ Row(s).utt = u
  BY <1>1, Zenon DEF Links
<1>3. LinksOf(u) = {Row(s) : s \in Involved(u)} /\ Involved(u) \subseteq Subjects
  BY Zenon DEF LinksOf, Involved
<1> HIDE DEF Row
<1> QED
  BY <1>2, <1>3

(* A transaction is indexed under the readers' eyes. *)
LEMMA IndexInv ==
    ASSUME HistoryInv, NEW u \in Utts, Index(u)
    PROVE  HistoryInv'
<1> DEFINE LinkedNext(s) == {link.utt : link \in {l \in links' : l.subject = s}}
<1>1. /\ links \subseteq links' /\ links' \subseteq links \cup LinksOf(u)
      /\ UNCHANGED <<known, reader, audits>>
  BY DEF Index
<1>2. links' \subseteq Links
  BY <1>1, LinkTypes DEF HistoryInv, TypeOK
<1>3. TypeOK'
  BY <1>1, <1>2 DEF HistoryInv, TypeOK
<1>4. IsFiniteSet(IndexedUtts')
  <2>1. IndexedUtts' \in SUBSET (IndexedUtts \cup {u})
    BY <1>1, LinkTypes DEF IndexedUtts
  <2>2. IsFiniteSet(IndexedUtts \cup {u})
    BY FS_AddElement DEF HistoryInv
  <2> QED
    BY <2>1, <2>2, FS_Subset
<1>5. \A s : Linked(s) \subseteq LinkedNext(s)
  BY <1>1 DEF Linked
<1>6. ASSUME NEW r \in Readers, reader[r] # Idle
      PROVE  Paged(reader[r], LinkedNext(reader[r].subject)) /\ Entitled(r, reader[r], audits)
  <2>1. Paged(reader[r], Linked(reader[r].subject)) /\ Entitled(r, reader[r], audits)
    BY <1>6 DEF HistoryInv
  <2>2. PICK subject : subject = reader[r].subject
    OBVIOUS
  <2>3. Linked(subject) \subseteq LinkedNext(subject)
    BY <1>5
  <2>4. Paged(reader[r], Linked(subject))
    BY <2>1, <2>2
  <2>5. Paged(reader[r], LinkedNext(subject))
    BY <2>3, <2>4, PagedGrows, Zenon
  <2> QED
    BY <2>1, <2>2, <2>5
<1>7. reader' = reader
  BY <1>1
<1>8. ASSUME NEW r \in Readers, reader'[r] # Idle
      PROVE  Paged(reader'[r], LinkedNext(reader'[r].subject)) /\ Entitled(r, reader'[r], audits')
  BY <1>1, <1>6, <1>7, <1>8, Zenon
<1> QED
  BY <1>3, <1>4, <1>8, Zenon DEF HistoryInv, Linked

LEMMA BeginInv ==
    ASSUME HistoryInv, NEW r \in Readers, NEW scope \in Scopes, NEW subject \in Subjects,
           Begin(r, scope, subject)
    PROVE  HistoryInv'
<1> DEFINE k == [at |-> "audit", scope |-> scope, subject |-> subject, cursor |-> NewestFirst,
                 seen |-> {}, shown |-> 0, began |-> {}]
<1>1. k \in Pagings
  BY Zenon DEF Pagings
<1>2. /\ k.at = "audit" /\ k.seen = {} /\ k.began = {} /\ k.shown = 0 /\ k.cursor = NewestFirst
  OBVIOUS
<1>3. /\ reader' = [reader EXCEPT ![r] = k] /\ UNCHANGED <<known, links, audits>>
      /\ audits' \subseteq [reader : Readers, target : Subjects \cup Utts,
                            outcome : {"ALLOWED", "DENIED"}]
  BY Zenon DEF Begin, HistoryInv, TypeOK
<1> HIDE DEF k
<1>4. Paged(k, Linked(k.subject)) /\ Entitled(r, k, audits')
  BY Zenon, <1>2, FS_EmptySet DEF Paged, Entitled
<1> QED
  BY Zenon, <1>1, <1>3, <1>4, ReaderInv

LEMMA LeaveInv ==
    ASSUME HistoryInv, NEW r \in Readers, Leave(r)
    PROVE  HistoryInv'
<1>1. /\ reader' = [reader EXCEPT ![r] = Idle] /\ UNCHANGED <<known, links, audits>>
      /\ audits' \subseteq [reader : Readers, target : Subjects \cup Utts,
                            outcome : {"ALLOWED", "DENIED"}]
  BY DEF Leave, HistoryInv, TypeOK
<1> QED
  BY Zenon, <1>1, ReaderInv

LEMMA AuditRowType ==
    ASSUME NEW r \in Readers, NEW target \in Subjects \cup Utts, NEW allowed
    PROVE  AuditRow(r, target, allowed) \in
               [reader : Readers, target : Subjects \cup Utts, outcome : {"ALLOWED", "DENIED"}]
<1>1. PICK outcome \in {"ALLOWED", "DENIED"} :
        outcome = IF allowed THEN "ALLOWED" ELSE "DENIED"
  OBVIOUS
<1> QED
  BY <1>1, Zenon DEF AuditRow

LEMMA GetByUttInv ==
    ASSUME HistoryInv, NEW r \in Readers, NEW scope \in Scopes, NEW u \in Utts, GetByUtt(r, scope, u)
    PROVE  HistoryInv'
<1>1. PICK allowed : audits' = audits \cup {AuditRow(r, u, allowed)}
  BY Zenon DEF GetByUtt
<1>2. audits \subseteq audits' /\ audits' \subseteq [reader : Readers, target : Subjects \cup Utts,
                                                     outcome : {"ALLOWED", "DENIED"}]
  BY Zenon, <1>1, AuditRowType DEF HistoryInv, TypeOK
<1>3. reader[r] \in {Idle} \cup Pagings /\ UNCHANGED <<known, links>>
  BY DEF HistoryInv, TypeOK, GetByUtt
<1>4. reader' = [reader EXCEPT ![r] = reader[r]]
  BY DEF HistoryInv, TypeOK, GetByUtt
<1>5. reader[r] = Idle
  BY DEF GetByUtt
<1> QED
  BY <1>2, <1>3, <1>4, <1>5, ReaderInv, Zenon

LEMMA AuthorizeInv ==
    ASSUME HistoryInv, NEW r \in Readers, Authorize(r)
    PROVE  HistoryInv'
<1> DEFINE k == reader[r]
           allowed == MayRead(k.scope, k.subject)
           next == [k EXCEPT !.at = "rows"]
<1>1. k \in {Idle} \cup Pagings /\ k.at = "audit"
  BY DEF HistoryInv, TypeOK, Authorize
<1>2. k # Idle /\ k \in Pagings /\ k.subject \in Subjects
  BY <1>1, PagingFields
<1>3. Paged(k, Linked(k.subject))
  BY <1>2 DEF HistoryInv
<1>4. /\ audits' = audits \cup {AuditRow(r, k.subject, allowed)} /\ UNCHANGED <<known, links>>
      /\ reader' = [reader EXCEPT ![r] = IF allowed THEN next ELSE Idle]
  BY DEF Authorize
<1>5. audits \subseteq audits' /\ audits' \subseteq [reader : Readers, target : Subjects \cup Utts,
                                                     outcome : {"ALLOWED", "DENIED"}]
  BY <1>2, <1>4, AuditRowType DEF HistoryInv, TypeOK
<1>6. CASE allowed
  <2>1. next \in Pagings
    BY <1>2 DEF Pagings
  <2>2. /\ next.at = "rows" /\ next.scope = k.scope /\ next.subject = k.subject
        /\ next.cursor = k.cursor /\ next.seen = k.seen /\ next.shown = k.shown
        /\ next.began = k.began
    BY <1>2 DEF Pagings
  <2>3. reader' = [reader EXCEPT ![r] = next]
    BY <1>4, <1>6
  <2>4. AuditRow(r, k.subject, TRUE) \in audits'
    <3>1. AuditRow(r, k.subject, allowed) = AuditRow(r, k.subject, TRUE)
      BY <1>6, Zenon DEF AuditRow
    <3> QED
      BY <1>4, <3>1, Zenon
  <2> HIDE DEF next
  <2>5. Paged(next, Linked(next.subject))
    BY Zenon, <1>1, <1>3, <2>2 DEF Paged
  <2>6. Entitled(r, next, audits')
    BY Zenon, <1>6, <2>2, <2>4 DEF Entitled
  <2> QED
    BY Zenon, <1>4, <1>5, <2>1, <2>3, <2>5, <2>6, ReaderInv
<1>7. CASE ~allowed
  <2>1. reader' = [reader EXCEPT ![r] = Idle]
    BY <1>4, <1>7
  <2> QED
    BY Zenon, <1>4, <1>5, <2>1, ReaderInv
<1> QED
  BY <1>6, <1>7

(* One page: what it shows is new to the reader, and the cursor it leaves  *)
(* separates what was shown from what is still to come.                    *)
LEMMA FetchPaged ==
    ASSUME NEW linked \in SUBSET Utts, NEW k \in Pagings, k.at = "rows", Paged(k, linked),
           NEW rows, rows = {u \in linked : k.cursor # NewestFirst => Older(u, k.cursor)},
           NEW page \in SUBSET rows, IsFiniteSet(page),
           NEW more \in BOOLEAN, ~more => page = rows,
           NEW last, more => /\ last \in page /\ \A v \in page : last = v \/ Older(last, v)
                             /\ \A u \in rows : u \in page \/ Older(u, last),
           NEW next, next.at = (IF more THEN "audit" ELSE "done"),
           next.cursor = (IF more THEN last ELSE k.cursor),
           next.seen = k.seen \cup page, next.shown = k.shown + Cardinality(page),
           next.began = (IF k.cursor = NewestFirst THEN rows ELSE k.began)
    PROVE  Paged(next, linked)
<1>1. /\ k.cursor \in Utts \cup {NewestFirst} /\ k.seen \in SUBSET Utts /\ k.shown \in Nat
      /\ rows \in SUBSET linked /\ rows \in SUBSET Utts /\ Cardinality(page) \in Nat
      /\ NewestFirst \notin Utts
  BY Zenon, FS_CardinalityType, HistoryAssumption DEF Pagings
<1>2. /\ IsFiniteSet(k.seen) /\ k.shown = Cardinality(k.seen) /\ k.seen \subseteq linked
      /\ k.began \subseteq linked
      /\ k.cursor = NewestFirst => k.seen = {}
      /\ k.cursor # NewestFirst => /\ \A u \in k.seen : ~Older(u, k.cursor)
                                   /\ \A u \in k.began : u \in k.seen \/ Older(u, k.cursor)
  BY Zenon DEF Paged
<1>3. \A u \in rows : k.cursor # NewestFirst => Older(u, k.cursor)
  BY Zenon
<1>4. \A u \in linked : k.cursor # NewestFirst /\ Older(u, k.cursor) => u \in rows
  BY Zenon
<1>5. \A u \in k.seen : u \notin rows
  BY <1>2, <1>3, Zenon
<1>6. IsFiniteSet(next.seen) /\ next.shown = Cardinality(next.seen)
  <2>1. PICK seen : seen = k.seen
    OBVIOUS
  <2>2. seen \cap page = {} /\ Cardinality({}) = 0
    BY <1>5, <2>1, FS_EmptySet, Zenon
  <2>3. /\ IsFiniteSet(seen \cup page)
        /\ Cardinality(seen \cup page) =
              Cardinality(seen) + Cardinality(page) - Cardinality(seen \cap page)
    <3>1. IsFiniteSet(seen)
      BY <1>2, <2>1
    <3> QED
      BY <3>1, FS_Union, Zenon
  <2>4. Cardinality(seen \cup page) = k.shown + Cardinality(page)
    <3>1. Cardinality(seen \cap page) = 0
      BY <2>2, Zenon
    <3>2. Cardinality(seen \cup page) = k.shown + Cardinality(page) - 0
      BY <1>2, <2>1, <2>3, <3>1, Zenon
    <3>3. \A m, n \in Nat : m + n - 0 = m + n
      BY ONLY TRUE
    <3> QED
      BY <1>1, <3>2, <3>3, Zenon
  <2> QED
    BY <2>1, <2>3, <2>4, Zenon
<1>7. next.seen \subseteq linked /\ next.began \subseteq linked
  BY <1>1, <1>2, Zenon
<1>8. \A u \in next.began : u \in k.seen \/ u \in rows
  <2>1. CASE k.cursor = NewestFirst
    <3>1. next.began = rows
      BY <2>1
    <3> QED
      BY <3>1, Zenon
  <2>2. CASE k.cursor # NewestFirst
    <3>1. next.began = k.began
      BY <2>2
    <3> QED
      BY <1>2, <1>4, <2>2, <3>1, Zenon
  <2> QED
    BY <2>1, <2>2, Zenon
<1>9. ~more => next.began \subseteq next.seen
  BY <1>8, Zenon
<1>10. ASSUME more, NEW u \in next.seen PROVE ~Older(u, next.cursor)
  <2>1. next.cursor = last /\ last \in page /\ last \in Utts /\ last \in rows
    BY <1>1, <1>10, Zenon
  <2>2. ASSUME u \in page PROVE ~Older(u, last)
    <3>1. u \in Utts /\ (last = u \/ Older(last, u))
      BY <1>1, <1>10, <2>2, Zenon
    <3> QED
      BY <2>1, <3>1, OlderIsTotalOrder, Zenon
  <2>3. ASSUME u \in k.seen PROVE ~Older(u, last)
    <3>1. k.cursor # NewestFirst
      BY <1>2, <2>3, Zenon
    <3>2. k.cursor \in Utts /\ ~Older(u, k.cursor) /\ Older(last, k.cursor) /\ u \in Utts
      BY <1>1, <1>2, <1>3, <2>1, <2>3, <3>1, Zenon
    <3> QED
      BY <2>1, <3>2, OlderIsTotalOrder, Zenon
  <2> QED
    BY <1>10, <2>1, <2>2, <2>3, Zenon
<1>11. ASSUME more, NEW u \in next.began PROVE u \in next.seen \/ Older(u, next.cursor)
  BY <1>8, <1>11, Zenon
<1>12. more => next.cursor # NewestFirst
  BY <1>1, Zenon
<1>13. next.at = "done" <=> ~more
  OBVIOUS
<1> QED
  BY <1>6, <1>7, <1>9, <1>10, <1>11, <1>12, <1>13, Zenon DEF Paged

LEMMA FetchInv ==
    ASSUME HistoryInv, NEW r \in Readers, Fetch(r)
    PROVE  HistoryInv'
<1> DEFINE k == reader[r]
           linked == Linked(k.subject)
           rows == Rows(r)
           page == Page(rows)
           more == Cardinality(rows) > Limit
           last == CHOOSE u \in page : \A v \in page : u = v \/ Older(u, v)
           seen == k.seen \cup page
           shown == k.shown + Cardinality(page)
           began == IF k.cursor = NewestFirst THEN rows ELSE k.began
           cursor == IF more THEN last ELSE k.cursor
           at == IF more THEN "audit" ELSE "done"
           next == [k EXCEPT !.seen = seen, !.shown = shown, !.began = began,
                             !.cursor = cursor, !.at = at]
<1>1. k \in {Idle} \cup Pagings /\ k.at = "rows"
  BY DEF HistoryInv, TypeOK, Fetch
<1>2. /\ k # Idle /\ k \in Pagings /\ k.seen \in SUBSET Utts /\ k.began \in SUBSET Utts
      /\ k.shown \in Nat /\ k.cursor \in Utts \cup {NewestFirst}
  BY <1>1, PagingFields
<1>3. Paged(k, linked) /\ Entitled(r, k, audits)
  BY <1>2 DEF HistoryInv
<1>4. linked \in SUBSET Utts /\ IsFiniteSet(linked)
  BY LinkedRows
<1>5. reader' = [reader EXCEPT ![r] = next] /\ UNCHANGED <<known, links, audits>>
  <2>1. Turned(k, rows) = next
    BY Zenon DEF Turned
  <2>2. reader' = [reader EXCEPT ![r] = Turned(k, rows)] /\ UNCHANGED <<known, links, audits>>
    BY Zenon DEF Fetch
  <2> HIDE DEF k, rows, next
  <2> QED
    BY <2>1, <2>2, Zenon
<1>6. rows = {u \in linked : k.cursor # NewestFirst => Older(u, k.cursor)}
  BY DEF Rows, Beyond
<1> HIDE DEF k, linked, rows
<1>7. /\ rows \in SUBSET Utts /\ IsFiniteSet(rows) /\ Cardinality(rows) \in Nat
      /\ Limit \in Nat /\ Limit > 0
  <2>1. rows \in SUBSET linked
    BY <1>6
  <2> QED
    BY <1>4, <2>1, FS_Subset, FS_CardinalityType, HistoryAssumption
<1>8. /\ page \in SUBSET rows /\ IsFiniteSet(page)
      /\ Cardinality(rows) <= Limit => page = rows
      /\ rows # {} => \E u \in page : \A v \in page : u = v \/ Older(u, v)
      /\ \A u \in rows, v \in page : u \notin page => Older(u, v)
  BY <1>7, PageFacts, Zenon
<1> HIDE DEF page
<1>9. /\ more \in BOOLEAN /\ (~more => page = rows)
      /\ more => /\ last \in page /\ \A v \in page : last = v \/ Older(last, v)
                 /\ \A u \in rows : u \in page \/ Older(u, last)
  <2>1. more \in BOOLEAN /\ (~more => page = rows)
    BY <1>7, <1>8
  <2>2. more => rows # {}
    BY <1>7, FS_EmptySet
  <2> HIDE DEF more
  <2>3. more => last \in page /\ \A v \in page : last = v \/ Older(last, v)
    BY <1>8, <2>2, Zenon
  <2> QED
    BY <1>8, <2>1, <2>3, Zenon
<1> HIDE DEF more, last
<1>10. /\ seen \in SUBSET Utts /\ began \in SUBSET Utts /\ cursor \in Utts \cup {NewestFirst}
       /\ at \in {"audit", "rows", "done"}
  <2>1. seen \in SUBSET Utts
    BY <1>2, <1>7, <1>8, Zenon
  <2>2. began \in SUBSET Utts
    BY <1>2, <1>7
  <2>3. cursor \in Utts \cup {NewestFirst} /\ at \in {"audit", "rows", "done"}
    BY <1>2, <1>7, <1>8, <1>9
  <2> QED
    BY <2>1, <2>2, <2>3, Zenon
<1>11. shown \in Nat
  BY <1>2, <1>8, FS_CardinalityType
<1> HIDE DEF seen, shown, began, cursor, at
<1>12. next \in Pagings
  BY Zenon, <1>2, <1>10, <1>11 DEF Pagings
<1>13. /\ next.at = at /\ next.cursor = cursor /\ next.seen = seen /\ next.shown = shown
       /\ next.began = began /\ next.scope = k.scope /\ next.subject = k.subject
  BY <1>2 DEF Pagings
<1> HIDE DEF next
<1>14. Paged(next, linked)
  BY <1>1, <1>2, <1>3, <1>4, <1>6, <1>8, <1>9, <1>13, FetchPaged, Zenon
     DEF seen, shown, began, cursor, at
<1>15. Entitled(r, next, audits')
  BY Zenon, <1>1, <1>3, <1>5, <1>13 DEF Entitled
<1>16. Paged(next, Linked(next.subject))
  BY <1>13, <1>14, Zenon DEF linked
<1>17. audits' \subseteq [reader : Readers, target : Subjects \cup Utts,
                          outcome : {"ALLOWED", "DENIED"}]
  BY <1>5 DEF HistoryInv, TypeOK
<1> QED
  BY Zenon, <1>5, <1>12, <1>15, <1>16, <1>17, ReaderInv

LEMMA HistoryStepInv ==
    ASSUME HistoryInv, [Next]_vars
    PROVE  HistoryInv'
<1>1. CASE UNCHANGED vars
  BY Zenon, <1>1 DEF HistoryInv, TypeOK, IndexedUtts, Linked, vars
<1>2. CASE Next
  BY <1>2, OnboardInv, IndexInv, BeginInv, GetByUttInv, AuthorizeInv, FetchInv, LeaveInv DEF Next
<1> QED
  BY <1>1, <1>2

LEMMA HistoryInvariant == Spec => []HistoryInv
BY HistoryInitInv, HistoryStepInv, PTL DEF Spec

(* Paging through a history misses nothing that was there at the first     *)
(* page and shows nothing twice, whatever is indexed between two pages:    *)
(* PagingIsExact for any page size, number of readers and transactions,    *)
(* and for any number of them accepted in the same second.                 *)
THEOREM PagingMissesNothing == Spec => []PagingIsExact
<1>1. HistoryInv => PagingIsExact
  BY Zenon DEF HistoryInv, PagingIsExact, Paged
<1> QED
  BY <1>1, HistoryInvariant, PTL

(* A reader sees only transactions of a subject the scope covers, and only *)
(* after the access audit is stored, for every scope.                      *)
THEOREM ReadsStayInScope == Spec => []ReadsAreScopedAndAudited
<1>1. ASSUME HistoryInv PROVE ReadsAreScopedAndAudited
  <2> SUFFICES ASSUME NEW r \in Readers, reader[r] # Idle, reader[r].seen # {}
               PROVE  /\ reader[r].scope.privileged \/ reader[r].subject \in reader[r].scope.subjects
                      /\ reader[r].scope.privileged => reader[r].scope.reason
                      /\ AuditRow(r, reader[r].subject, TRUE) \in audits
                      /\ \A u \in reader[r].seen : u \in Linked(reader[r].subject)
    BY Zenon DEF ReadsAreScopedAndAudited
  <2>1. Paged(reader[r], Linked(reader[r].subject)) /\ Entitled(r, reader[r], audits)
    BY <1>1 DEF HistoryInv
  <2> QED
    BY <2>1, Zenon DEF Paged, Entitled, MayRead
<1> QED
  BY <1>1, HistoryInvariant, PTL

-----------------------------------------------------------------------------
(* Whose history a transaction is in *)

(* The links of a transaction are all there, or none is. *)
LinksAreWhole ==
    /\ links \subseteq Links
    /\ \A link \in links : LinksOf(link.utt) \subseteq links /\ link \in LinksOf(link.utt)

LEMMA WholeIndexed ==
    ASSUME LinksAreWhole, NEW u \in Utts, Index(u)
    PROVE  LinksAreWhole'
<1>1. links' = links \/ links' = links \cup LinksOf(u)
  BY DEF Index
<1>2. links' \subseteq Links
  BY <1>1, LinkTypes DEF LinksAreWhole
<1>3. ASSUME NEW link \in links' PROVE LinksOf(link.utt) \subseteq links' /\ link \in LinksOf(link.utt)
  <2>1. CASE link \in links
    BY <1>1, <2>1, Zenon DEF LinksAreWhole
  <2>2. CASE link \notin links
    <3>1. links' = links \cup LinksOf(u) /\ link \in LinksOf(u)
      BY <1>1, <1>3, <2>2, Zenon
    <3>2. link.utt = u
      BY <3>1, LinkTypes, Zenon
    <3> QED
      BY <3>1, <3>2, Zenon
  <2> QED
    BY <2>1, <2>2
<1> QED
  BY <1>2, <1>3, Zenon DEF LinksAreWhole

LEMMA WholeStep == LinksAreWhole /\ [Next]_vars => LinksAreWhole'
<1>1. ASSUME LinksAreWhole, UNCHANGED links PROVE LinksAreWhole'
  BY <1>1, Zenon DEF LinksAreWhole
<1>2. ASSUME [Next]_vars PROVE UNCHANGED links \/ \E u \in Utts : Index(u)
  BY <1>2, Zenon DEF Next, vars, Onboard, Begin, GetByUtt, Authorize, Fetch, Leave
<1> QED
  BY <1>1, <1>2, WholeIndexed, Zenon

(* The origin's roles and the actors' are the parts the UTT gives. *)
LEMMA RolesAreParts ==
    ASSUME NEW u \in Utts, NEW s
    PROVE  OriginRoles(u, s) \cup ActorRoles(u, s) = Parts(u, s)
<1> DEFINE In(field) == field \in DOMAIN Origin[u] /\ Origin[u][field] = s
<1>1. DOMAIN Origin[u] \subseteq {"continuity_uid", "merchant_id", "branch_id", "partner_id"}
  BY HistoryAssumption DEF OriginFields
<1>2. \A role : role \in OriginRoles(u, s) <=>
                   \E field \in DOMAIN Origin[u] : Origin[u][field] = s /\ role = OriginRole(u, field)
  BY Zenon DEF OriginRoles
<1>3. /\ OriginRole(u, "merchant_id") = "ORIGIN_MERCHANT"
      /\ OriginRole(u, "branch_id") = "ORIGIN_BRANCH"
      /\ OriginRole(u, "partner_id") = "ORIGIN_PARTNER"
      /\ OriginRole(u, "continuity_uid") = IF Context[u] = "P2P" THEN "PAYER" ELSE "AUTHORIZER"
  BY DEF OriginRole
<1>4. \A role : role \in OriginRoles(u, s) <=>
                   \/ In("merchant_id") /\ role = "ORIGIN_MERCHANT"
                   \/ In("branch_id") /\ role = "ORIGIN_BRANCH"
                   \/ In("partner_id") /\ role = "ORIGIN_PARTNER"
                   \/ /\ In("continuity_uid")
                      /\ role = IF Context[u] = "P2P" THEN "PAYER" ELSE "AUTHORIZER"
  <2>1. ASSUME NEW role, NEW field \in DOMAIN Origin[u], Origin[u][field] = s,
               role = OriginRole(u, field)
        PROVE  \/ In("merchant_id") /\ role = "ORIGIN_MERCHANT"
               \/ In("branch_id") /\ role = "ORIGIN_BRANCH"
               \/ In("partner_id") /\ role = "ORIGIN_PARTNER"
               \/ /\ In("continuity_uid")
                  /\ role = IF Context[u] = "P2P" THEN "PAYER" ELSE "AUTHORIZER"
    BY <1>1, <1>3, <2>1, Zenon
  <2> QED
    BY <1>2, <1>3, <2>1, Zenon
<1>5. \A role : role \in ActorRoles(u, s) <=>
                   \/ role = "PAYER" /\ s = Payer[u]
                   \/ role = "BENEFICIARY" /\ s = Beneficiary[u]
  BY DEF ActorRoles
<1>6. \A role : role \in Parts(u, s) <=>
                   \/ role = "PAYER" /\ (s = Payer[u] \/ (Context[u] = "P2P" /\ In("continuity_uid")))
                   \/ role = "BENEFICIARY" /\ s = Beneficiary[u]
                   \/ role = "AUTHORIZER" /\ Context[u] # "P2P" /\ In("continuity_uid")
                   \/ role = "ORIGIN_MERCHANT" /\ In("merchant_id")
                   \/ role = "ORIGIN_BRANCH" /\ In("branch_id")
                   \/ role = "ORIGIN_PARTNER" /\ In("partner_id")
  <2>1. /\ Plays(u, s, "PAYER") = (s = Payer[u] \/ (Context[u] = "P2P" /\ In("continuity_uid")))
        /\ Plays(u, s, "BENEFICIARY") = (s = Beneficiary[u])
        /\ Plays(u, s, "AUTHORIZER") = (Context[u] # "P2P" /\ In("continuity_uid"))
        /\ Plays(u, s, "ORIGIN_MERCHANT") = In("merchant_id")
        /\ Plays(u, s, "ORIGIN_BRANCH") = In("branch_id")
        /\ Plays(u, s, "ORIGIN_PARTNER") = In("partner_id")
    BY DEF Plays
  <2> HIDE DEF In
  <2> QED
    BY <2>1, Zenon DEF Parts, TransactionRoles
<1> HIDE DEF In
<1>7. \A role : role \in OriginRoles(u, s) \/ role \in ActorRoles(u, s) <=> role \in Parts(u, s)
  BY <1>4, <1>5, <1>6
<1> QED
  BY <1>7, Zenon

(* What the links show of a transaction under a subject. *)
LEMMA WholeLinks ==
    ASSUME LinksAreWhole, NEW u \in Utts, NEW s \in Subjects
    PROVE  Shown(u, s) = IF Indexed(u) /\ Parts(u, s) # {} THEN {Parts(u, s)} ELSE {}
<1> DEFINE row == [utt |-> u, subject |-> s, roles |-> Parts(u, s)]
<1>1. s \in Involved(u) <=> Parts(u, s) # {}
  BY RolesAreParts, Zenon DEF Involved
<1>2. ASSUME NEW link \in links, link.utt = u, link.subject = s
      PROVE  Indexed(u) /\ Parts(u, s) # {} /\ link.roles = Parts(u, s)
  <2>1. link \in LinksOf(u) /\ Indexed(u)
    BY <1>2, Zenon DEF LinksAreWhole, Indexed
  <2>2. PICK x \in Involved(u) :
           link = [utt |-> u, subject |-> x, roles |-> OriginRoles(u, x) \cup ActorRoles(u, x)]
    BY <2>1, Zenon DEF LinksOf
  <2>3. x = s /\ link.roles = OriginRoles(u, x) \cup ActorRoles(u, x)
    BY <1>2, <2>2
  <2> QED
    BY <1>1, <2>1, <2>2, <2>3, RolesAreParts, Zenon
<1>3. ASSUME Indexed(u), Parts(u, s) # {}
      PROVE  row \in links /\ row.utt = u /\ row.subject = s /\ row.roles = Parts(u, s)
  <2>1. LinksOf(u) \subseteq links
    BY <1>3, Zenon DEF Indexed, LinksAreWhole
  <2>2. row \in LinksOf(u)
    BY <1>1, <1>3, RolesAreParts, Zenon DEF LinksOf
  <2> QED
    BY <2>1, <2>2, Zenon
<1>4. \A roles : roles \in Shown(u, s) <=>
                    \E link \in links : link.utt = u /\ link.subject = s /\ roles = link.roles
  BY Zenon DEF Shown
<1> HIDE DEF row
<1>5. \A roles : roles \in Shown(u, s) <=> Indexed(u) /\ Parts(u, s) # {} /\ roles = Parts(u, s)
  <2>1. ASSUME NEW roles \in Shown(u, s) PROVE Indexed(u) /\ Parts(u, s) # {} /\ roles = Parts(u, s)
    BY <1>2, <1>4, <2>1, Zenon
  <2>2. ASSUME Indexed(u), Parts(u, s) # {} PROVE Parts(u, s) \in Shown(u, s)
    BY <1>3, <1>4, <2>2, Zenon
  <2> QED
    BY <2>1, <2>2, Zenon
<1>6. CASE Indexed(u) /\ Parts(u, s) # {}
  <2>1. \A roles : roles \in Shown(u, s) <=> roles = Parts(u, s)
    BY <1>5, <1>6, Zenon
  <2>2. Shown(u, s) = {Parts(u, s)}
    BY <2>1
  <2> QED
    BY <1>6, <2>2, Zenon
<1>7. CASE ~(Indexed(u) /\ Parts(u, s) # {})
  BY <1>5, <1>7, Zenon
<1> QED
  BY <1>6, <1>7

(* Every participant finds an indexed transaction, under the parts its UTT  *)
(* names, and nobody else does, because index() commits the links of a      *)
(* transaction together and leaves a transaction that is there as it is.    *)
(* With PagingMissesNothing, whoever pages to the end has seen all that     *)
(* involved the subject at the start.                                       *)
THEOREM HistoriesAreWhole == Spec => []ParticipantsFindTheirs
<1>1. Init => LinksAreWhole
  BY DEF Init, LinksAreWhole
<1>2. LinksAreWhole => ParticipantsFindTheirs
  BY WholeLinks, Zenon DEF ParticipantsFindTheirs
<1> QED
  BY <1>1, <1>2, WholeStep, PTL DEF Spec
=============================================================================
