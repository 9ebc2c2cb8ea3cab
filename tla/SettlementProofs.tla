-------------------------- MODULE SettlementProofs --------------------------
(***************************************************************************)
(* From callback to SMS, for any number of handlers, couriers, crashes,    *)
(* routes, attempts and messages.                                          *)
(*                                                                         *)
(* A row's version tells its state, so of two couriers that read the same  *)
(* row one only gets past the version check: the couriers' invariant says  *)
(* what each may rely on where it is, and that a message has been sent at  *)
(* most once, and only after there was evidence.                           *)
(*                                                                         *)
(* A handler's crash is not a step of ExecutionPlan, but it leaves the     *)
(* tables alone, so the plan's invariant carries over.  The handlers'      *)
(* invariant says what each may rely on where it is: its callback is on    *)
(* record, and from "settle" on its success is final.  Every step only     *)
(* adds to what handlers rely on (Advances).                               *)
(***************************************************************************)
EXTENDS SettlementNotification, ExecutionPlanProofs

-----------------------------------------------------------------------------
(* Couriers tell the truth, once *)

\* The version of a row tells its state, so a courier whose version still
\* matches has read the row that is stored.
VersionTellsState(row) ==
    /\ row.state = "PREPARED" <=> row.version = 1
    /\ row.state = "DISPATCHING" <=> row.version = 2
    /\ row.state \in Sms!FinalStates <=> row.version = 3

\* What a courier in state k relies on of its message: the row and the gateway.
Trusts(k, row, sent) ==
    /\ VersionTellsState(k.read)
    /\ k.at = "dispatch" => k.read.version = 1
    /\ k.at \in {"dispatch", "send"} => k.result = "UNKNOWN"
    /\ k.at \in {"send", "finish"} => k.read.version = 2 /\ row.version >= 2
    /\ k.at = "send" => sent.calls = 0
    /\ k.at = "finish" /\ k.result # "UNKNOWN" => sent.fate = k.result

CourierRelies(c) == Trusts(courier[c], sms[courier[c].id], gateway[courier[c].id])

OneSender ==
    \A c, d \in Couriers :
        courier[c].at = "send" /\ courier[d].at = "send" /\ courier[c].id = courier[d].id => c = d

Once(row, sent, proven) ==
    /\ VersionTellsState(row)
    /\ sent.calls \in {0, 1}
    /\ sent.calls = 0 => sent.fate = "none"
    /\ row.version = 1 => sent.calls = 0
    /\ sent.calls > 0 => proven # NoEvidence

CalledOnce(i) == Once(sms[i], gateway[i], evidence)

SmsInv ==
    /\ Sms!TypeOK
    /\ \A c \in Couriers : CourierRelies(c)
    /\ OneSender
    /\ \A i \in Notifications : CalledOnce(i)

LEMMA SmsInitInv == SettlementInit => SmsInv
<1> SUFFICES ASSUME SettlementInit PROVE SmsInv
  OBVIOUS
<1>1. /\ Sms!Prepared \in Sms!Records /\ Sms!Prepared.state = "PREPARED" /\ Sms!Prepared.version = 1
      /\ VersionTellsState(Sms!Prepared)
  BY DEF Sms!Prepared, Sms!Records, Sms!FinalStates, VersionTellsState
<1>2. /\ sms = [i \in Notifications |-> Sms!Prepared]
      /\ gateway = [i \in Notifications |-> [calls |-> 0, fate |-> "none"]]
      /\ courier \in [Couriers -> [at : {"idle"}, id : Notifications, read : {Sms!Prepared},
                                   result : {"UNKNOWN"}]]
      /\ courierCrashes = 0
  BY DEF SettlementInit, Sms!Init
<1>3. Sms!TypeOK
  BY <1>1, <1>2, CouriersAssumption DEF Sms!TypeOK, Sms!FinalStates
<1>4. \A c \in Couriers : courier[c].at = "idle" /\ courier[c].read = Sms!Prepared
  BY <1>2
<1>5. \A c \in Couriers : CourierRelies(c)
  BY <1>1, <1>4 DEF CourierRelies, Trusts
<1>6. OneSender
  BY <1>4 DEF OneSender
<1>7. \A i \in Notifications : CalledOnce(i)
  BY <1>1, <1>2 DEF CalledOnce, Once
<1> QED
  BY <1>3, <1>5, <1>6, <1>7 DEF SmsInv

CourierStates ==
    [at : {"idle", "dispatch", "send", "finish"}, id : Notifications, read : Sms!Records,
     result : Sms!FinalStates]

LEMMA SmsTypes ==
    ASSUME SmsInv
    PROVE  /\ sms \in [Notifications -> Sms!Records] /\ courier \in [Couriers -> CourierStates]
           /\ gateway \in [Notifications -> [calls : Nat, fate : {"none", "SENT", "REJECTED"}]]
           /\ courierCrashes \in 0..MaxCourierCrashes
BY DEF SmsInv, Sms!TypeOK, CourierStates

\* A step that moves one courier; s is where it is next.
LEMMA CourierMoves ==
    ASSUME SmsInv, NEW c \in Couriers, NEW s \in CourierStates,
           courier' = [courier EXCEPT ![c] = s], UNCHANGED <<sms, gateway, evidence>>,
           courierCrashes' \in 0..MaxCourierCrashes, s.at # "send",
           VersionTellsState(s.read),
           s.at = "dispatch" => s.read.version = 1 /\ s.result = "UNKNOWN",
           s.at = "finish" => /\ s.read.version = 2 /\ sms[s.id].version >= 2
                              /\ s.result # "UNKNOWN" => gateway[s.id].fate = s.result
    PROVE  SmsInv'
<1>1. courier'[c] = s /\ \A d \in Couriers : d # c => courier'[d] = courier[d]
  BY SmsTypes
<1>2. Sms!TypeOK'
  BY SmsTypes DEF Sms!TypeOK, CourierStates
<1>3. ASSUME NEW d \in Couriers PROVE CourierRelies(d)'
  <2>1. CASE d = c
    <3>1. Trusts(s, sms[s.id], gateway[s.id])
      BY DEF Trusts
    <3> QED
      BY <1>1, <2>1, <3>1 DEF CourierRelies
  <2>2. CASE d # c
    BY <1>1, <2>2 DEF SmsInv, CourierRelies
  <2> QED
    BY <2>1, <2>2
<1>4. OneSender'
  BY <1>1 DEF SmsInv, OneSender
<1>5. \A i \in Notifications : CalledOnce(i)'
  BY DEF SmsInv, CalledOnce
<1> QED
  BY <1>2, <1>3, <1>4, <1>5 DEF SmsInv

LEMMA PreparedRow ==
    /\ Sms!Prepared \in Sms!Records /\ Sms!Prepared.version = 1 /\ VersionTellsState(Sms!Prepared)
    /\ "UNKNOWN" \in Sms!FinalStates
BY DEF Sms!Prepared, Sms!Records, Sms!FinalStates, VersionTellsState

\* What Leave does to the courier.
LEMMA LeaveState ==
    ASSUME SmsInv, NEW c \in Couriers, Sms!Leave(c)
    PROVE  \E s \in CourierStates :
              /\ courier' = [courier EXCEPT ![c] = s]
              /\ s.at = "idle" /\ VersionTellsState(s.read)
<1> DEFINE s == [courier[c] EXCEPT !.at = "idle", !.read = Sms!Prepared, !.result = "UNKNOWN"]
<1>1. courier[c] \in CourierStates
  BY SmsTypes
<1>2. s \in CourierStates /\ s.at = "idle" /\ s.read = Sms!Prepared
  BY Zenon, <1>1, PreparedRow DEF CourierStates
<1>3. courier' = [courier EXCEPT ![c] = s]
  BY Zenon, SmsTypes DEF Sms!Leave
<1> HIDE DEF s
<1> QED
  BY Zenon, <1>2, <1>3, PreparedRow

LEMMA LeaveKeeps ==
    ASSUME SmsInv, NEW c \in Couriers, Sms!Conflict(c) \/ Sms!Crash(c), UNCHANGED allVars
    PROVE  SmsInv'
<1>1. Sms!Leave(c) /\ UNCHANGED <<sms, gateway, evidence>>
  BY DEF Sms!Conflict, Sms!Crash, allVars, callbackVars
<1>2. courierCrashes' \in 0..MaxCourierCrashes
  BY SmsTypes, CouriersAssumption DEF Sms!Conflict, Sms!Crash
<1>3. PICK s \in CourierStates :
         courier' = [courier EXCEPT ![c] = s] /\ s.at = "idle" /\ VersionTellsState(s.read)
  BY <1>1, LeaveState
<1> QED
  BY Zenon, <1>1, <1>2, <1>3, CourierMoves

LEMMA DeliverKeeps ==
    ASSUME SmsInv, NEW c \in Couriers, Sms!Deliver(c), UNCHANGED allVars PROVE SmsInv'
<1>1. PICK i \in Notifications :
         /\ sms[i].state \notin Sms!FinalStates
         /\ courier' = [courier EXCEPT ![c] = [at |-> Sms!AfterRead(sms[i].state), id |-> i,
                                               read |-> sms[i], result |-> "UNKNOWN"]]
  BY ZenonT(30) DEF Sms!Deliver
<1>2. UNCHANGED <<sms, gateway, courierCrashes, evidence>>
  BY DEF Sms!Deliver, allVars, callbackVars
<1> DEFINE s == [at |-> Sms!AfterRead(sms[i].state), id |-> i, read |-> sms[i],
                 result |-> "UNKNOWN"]
<1>3. sms[i] \in Sms!Records /\ VersionTellsState(sms[i])
  BY SmsTypes DEF SmsInv, CalledOnce, Once
<1>4. \/ sms[i].state = "PREPARED" /\ sms[i].version = 1
      \/ sms[i].state = "DISPATCHING" /\ sms[i].version = 2
  BY <1>1, <1>3 DEF Sms!Records, VersionTellsState
<1>5. /\ s \in CourierStates /\ s.id = i /\ s.read = sms[i] /\ s.result = "UNKNOWN"
      /\ s.at = Sms!AfterRead(sms[i].state)
  BY <1>3, PreparedRow DEF CourierStates, Sms!AfterRead
<1>6. \/ s.at = "dispatch" /\ sms[i].version = 1
      \/ s.at = "finish" /\ sms[i].version = 2
  BY <1>4, <1>5 DEF Sms!AfterRead
<1>7. courierCrashes' \in 0..MaxCourierCrashes
  BY <1>2, SmsTypes
<1>8. courier' = [courier EXCEPT ![c] = s]
  BY <1>1
<1> HIDE DEF s
<1>9. /\ s \in CourierStates /\ s.at # "send" /\ VersionTellsState(s.read)
      /\ s.at = "dispatch" => s.read.version = 1 /\ s.result = "UNKNOWN"
      /\ s.at = "finish" => /\ s.read.version = 2 /\ sms[s.id].version >= 2
                            /\ s.result # "UNKNOWN" => gateway[s.id].fate = s.result
  BY <1>3, <1>5, <1>6
<1> QED
  BY Zenon, <1>2, <1>7, <1>8, <1>9, CourierMoves

LEMMA NoDestinationKeeps ==
    ASSUME SmsInv, NEW c \in Couriers, Sms!NoDestination(c), UNCHANGED allVars
    PROVE  SmsInv'
<1> DEFINE s == [courier[c] EXCEPT !.at = "finish"]
<1>1. courier[c].at = "send" /\ UNCHANGED <<sms, gateway, courierCrashes, evidence>>
  BY DEF Sms!NoDestination, allVars, callbackVars
<1>2. courier' = [courier EXCEPT ![c] = s]
  BY SmsTypes DEF Sms!NoDestination
<1>3. courier[c] \in CourierStates /\ courierCrashes' \in 0..MaxCourierCrashes
  BY <1>1, SmsTypes
<1>4. /\ s \in CourierStates /\ s.at = "finish" /\ s.id = courier[c].id
      /\ s.read = courier[c].read /\ s.result = courier[c].result
  BY <1>3 DEF CourierStates
<1>5. /\ VersionTellsState(courier[c].read) /\ courier[c].read.version = 2
      /\ sms[courier[c].id].version >= 2 /\ courier[c].result = "UNKNOWN"
  BY <1>1 DEF SmsInv, CourierRelies, Trusts
<1> HIDE DEF s
<1> QED
  BY Zenon, <1>1, <1>2, <1>3, <1>4, <1>5, CourierMoves

LEMMA StartSendingKeeps ==
    ASSUME SmsInv, NEW c \in Couriers, Sms!StartSending(c), UNCHANGED allVars PROVE SmsInv'
<1>0. PICK i \in Notifications : i = courier[c].id
  BY SmsTypes DEF CourierStates
<1> DEFINE row == [state |-> "DISPATCHING", version |-> courier[c].read.version + 1]
           s == [courier[c] EXCEPT !.at = "send", !.read = row]
<1>1. /\ courier[c].at = "dispatch" /\ sms[i].version = courier[c].read.version
      /\ sms' = [sms EXCEPT ![i] = row] /\ UNCHANGED <<gateway, courierCrashes, evidence>>
  BY <1>0 DEF Sms!StartSending, Sms!MayWrite, allVars, callbackVars
<1>2. courier' = [courier EXCEPT ![c] = s]
  BY Zenon, SmsTypes DEF Sms!StartSending
<1>3. courier[c].read.version = 1 /\ courier[c].result = "UNKNOWN"
  BY <1>1 DEF SmsInv, CourierRelies, Trusts
<1>4. sms[i].version = 1 /\ gateway[i].calls = 0 /\ gateway[i].fate = "none"
  BY <1>1, <1>3 DEF SmsInv, CalledOnce, Once
<1>5. row \in Sms!Records /\ row.version = 2 /\ VersionTellsState(row)
  BY <1>3 DEF Sms!Records, Sms!FinalStates, VersionTellsState
<1> HIDE DEF row
<1>6. s \in CourierStates /\ s.at = "send" /\ s.id = i /\ s.read = row /\ s.result = "UNKNOWN"
  <2>1. courier[c] \in CourierStates
    BY SmsTypes
  <2> QED
    BY ZenonT(30), <1>0, <1>3, <1>5, <2>1 DEF CourierStates
<1> HIDE DEF s
<1>7. courier'[c] = s /\ \A d \in Couriers : d # c => courier'[d] = courier[d]
  BY <1>2, SmsTypes
<1>8. sms'[i] = row /\ \A j \in Notifications : j # i => sms'[j] = sms[j]
  BY <1>1, SmsTypes
<1>9. \A d \in Couriers : courier[d].id \in Notifications
  BY SmsTypes DEF CourierStates
<1>10. ASSUME NEW d \in Couriers, d # c
       PROVE  courier[d].at \in {"send", "finish"} => courier[d].id # i
  BY <1>4 DEF SmsInv, CourierRelies, Trusts
<1>11. Sms!TypeOK'
  BY <1>1, <1>2, <1>5, <1>6, SmsTypes DEF Sms!TypeOK, CourierStates
<1>12. ASSUME NEW d \in Couriers PROVE CourierRelies(d)'
  <2>1. CASE d = c
    <3>1. Trusts(s, row, gateway[i])
      BY <1>4, <1>5, <1>6 DEF Trusts
    <3> QED
      BY <1>1, <1>6, <1>7, <1>8, <2>1, <3>1 DEF CourierRelies
  <2>2. CASE d # c
    <3>1. /\ courier'[d] = courier[d] /\ courier[d].id \in Notifications /\ CourierRelies(d)
          /\ courier[d].at \in {"send", "finish"} => courier[d].id # i
      BY <1>7, <1>9, <1>10, <2>2 DEF SmsInv
    <3>2. CASE courier[d].id # i
      BY <1>1, <1>8, <3>1, <3>2 DEF CourierRelies
    <3>3. CASE courier[d].id = i
      <4>1. Trusts(courier[d], row, gateway[i])
        BY <3>1, <3>3 DEF CourierRelies, Trusts
      <4> QED
        BY <1>1, <1>8, <3>1, <3>3, <4>1 DEF CourierRelies
    <3> QED
      BY <3>2, <3>3
  <2> QED
    BY <2>1, <2>2
<1>13. OneSender'
  BY <1>6, <1>7, <1>10 DEF SmsInv, OneSender
<1>14. ASSUME NEW j \in Notifications PROVE CalledOnce(j)'
  <2>1. CASE j = i
    <3>1. Once(row, gateway[i], evidence)
      BY <1>4, <1>5 DEF Once
    <3> QED
      BY <1>1, <1>8, <2>1, <3>1 DEF CalledOnce
  <2>2. CASE j # i
    BY <1>1, <1>8, <2>2 DEF SmsInv, CalledOnce
  <2> QED
    BY <2>1, <2>2
<1> QED
  BY <1>11, <1>12, <1>13, <1>14 DEF SmsInv

Fates == {"none", "SENT", "REJECTED"}

\* gateway.send is called for message i, which it treats as fate says, and leaves
\* the courier in s.
Sends(c, i, fate, s) ==
    /\ courier[c].at = "send" /\ i = courier[c].id
    /\ gateway[i].calls = 0 /\ gateway'[i].calls = 1 /\ gateway'[i].fate = fate
    /\ gateway' = [gateway EXCEPT ![i] = gateway'[i]]
    /\ gateway' \in [Notifications -> [calls : Nat, fate : {"none", "SENT", "REJECTED"}]]
    /\ courier' = [courier EXCEPT ![c] = s]
    /\ s.at = "finish" /\ s.id = i /\ s.read = courier[c].read
    /\ s.result # "UNKNOWN" => fate = s.result
    /\ UNCHANGED <<sms, courierCrashes>>

LEMMA SendEffect ==
    ASSUME SmsInv, NEW c \in Couriers, Sms!Send(c)
    PROVE  \E i \in Notifications, fate \in Fates, s \in CourierStates : Sends(c, i, fate, s)
<1>0. PICK i \in Notifications : i = courier[c].id
  BY SmsTypes DEF CourierStates
<1>1. PICK fate \in {"none", "SENT", "REJECTED"} : \E result \in Sms!Reports(fate) :
         /\ courier[c].at = "send" /\ UNCHANGED <<sms, courierCrashes>>
         /\ gateway' = [gateway EXCEPT ![i] = [calls |-> @.calls + 1,
                                               fate |-> IF fate = "none" THEN @.fate ELSE fate]]
         /\ courier' = [courier EXCEPT ![c].at = "finish", ![c].result = result]
  BY Zenon, <1>0 DEF Sms!Send
<1>10. PICK result \in Sms!Reports(fate) :
         courier' = [courier EXCEPT ![c].at = "finish", ![c].result = result]
  BY Zenon, <1>1
<1> DEFINE s == [courier[c] EXCEPT !.at = "finish", !.result = result]
<1>2. result \in Sms!FinalStates /\ (result # "UNKNOWN" => fate = result)
  BY <1>10 DEF Sms!Reports, Sms!FinalStates
<1>3. courier[c] \in CourierStates
  BY SmsTypes
<1>4. s \in CourierStates /\ s.at = "finish" /\ s.id = i /\ s.read = courier[c].read /\ s.result = result
  BY Zenon, <1>0, <1>2, <1>3 DEF CourierStates
<1>5. courier' = [courier EXCEPT ![c] = s]
  BY Zenon, <1>10, SmsTypes
<1>6. gateway[i].calls = 0 /\ gateway[i].fate = "none"
  <2>1. CourierRelies(c) /\ CalledOnce(i)
    BY DEF SmsInv
  <2> QED
    BY <1>0, <1>1, <2>1 DEF CourierRelies, Trusts, CalledOnce, Once
<1>7. /\ gateway' \in [Notifications -> [calls : Nat, fate : {"none", "SENT", "REJECTED"}]]
      /\ gateway'[i].calls = 1 /\ gateway'[i].fate = fate
      /\ gateway' = [gateway EXCEPT ![i] = gateway'[i]]
  BY <1>1, <1>6, SmsTypes
<1> HIDE DEF s
<1>8. Sends(c, i, fate, s)
  BY ZenonT(30), <1>0, <1>1, <1>2, <1>4, <1>5, <1>6, <1>7 DEF Sends
<1>9. s \in CourierStates /\ fate \in Fates
  BY <1>4 DEF Fates
<1> QED
  BY <1>8, <1>9

LEMMA SendKeeps ==
    ASSUME SmsInv, NEW c \in Couriers, RowsExist, Sms!Send(c), UNCHANGED allVars PROVE SmsInv'
<1>0. PICK i \in Notifications, fate \in Fates, s \in CourierStates : Sends(c, i, fate, s)
  BY SendEffect
<1>1. /\ courier[c].at = "send" /\ i = courier[c].id
      /\ gateway[i].calls = 0 /\ gateway'[i].calls = 1 /\ gateway'[i].fate = fate
      /\ gateway' = [gateway EXCEPT ![i] = gateway'[i]]
      /\ gateway' \in [Notifications -> [calls : Nat, fate : {"none", "SENT", "REJECTED"}]]
      /\ courier' = [courier EXCEPT ![c] = s]
      /\ s.at = "finish" /\ s.id = i /\ s.read = courier[c].read
      /\ s.result # "UNKNOWN" => fate = s.result
      /\ UNCHANGED <<sms, courierCrashes>>
  BY <1>0 DEF Sends
<1>2. evidence' = evidence /\ evidence # NoEvidence
  BY DEF RowsExist, allVars, callbackVars
<1>3. courier'[c] = s /\ \A d \in Couriers : d # c => courier'[d] = courier[d]
  BY <1>1, SmsTypes
<1>4. \A j \in Notifications : j # i => gateway'[j] = gateway[j]
  BY <1>1, SmsTypes
<1>5. \A d \in Couriers : courier[d].id \in Notifications
  BY SmsTypes DEF CourierStates
<1>6. Sms!TypeOK'
  BY <1>1, SmsTypes DEF Sms!TypeOK, CourierStates
<1>7. ASSUME NEW d \in Couriers PROVE CourierRelies(d)'
  <2>1. CASE d = c
    <3>1. CourierRelies(c)
      BY DEF SmsInv
    <3>2. Trusts(s, sms[i], gateway'[i])
      BY <1>1, <3>1 DEF CourierRelies, Trusts
    <3> QED
      BY <1>1, <1>3, <2>1, <3>2 DEF CourierRelies
  <2>2. CASE d # c
    <3>1. courier'[d] = courier[d] /\ CourierRelies(d)
      BY <1>3, <2>2 DEF SmsInv
    <3>2. courier[d].at = "send" => courier[d].id # i
      BY <1>1, <2>2 DEF SmsInv, OneSender
    <3>3. gateway[i].fate = "none"
      BY <1>1 DEF SmsInv, CalledOnce, Once
    <3>4. courier[d].at = "finish" /\ courier[d].result # "UNKNOWN" => courier[d].id # i
      BY <3>1, <3>3, SmsTypes DEF CourierRelies, Trusts, CourierStates, Sms!FinalStates
    <3>5. CASE courier[d].id # i
      BY <1>1, <1>4, <1>5, <3>1, <3>5 DEF CourierRelies
    <3>6. CASE courier[d].id = i
      <4>1. Trusts(courier[d], sms[i], gateway'[i])
        BY <3>1, <3>2, <3>4, <3>6 DEF CourierRelies, Trusts
      <4> QED
        BY <1>1, <3>1, <3>6, <4>1 DEF CourierRelies
    <3> QED
      BY <3>5, <3>6
  <2> QED
    BY <2>1, <2>2
<1>8. OneSender'
  BY <1>1, <1>3 DEF SmsInv, OneSender
<1>9. ASSUME NEW j \in Notifications PROVE CalledOnce(j)'
  <2>1. CASE j = i
    <3>1. sms[i].version >= 2 /\ CalledOnce(i)
      BY <1>1 DEF SmsInv, CourierRelies, Trusts
    <3>2. Once(sms[i], gateway'[i], evidence)
      BY <1>1, <1>2, <3>1 DEF CalledOnce, Once
    <3> QED
      BY <1>1, <1>2, <2>1, <3>2 DEF CalledOnce
  <2>2. CASE j # i
    BY <1>1, <1>2, <1>4, <2>2 DEF SmsInv, CalledOnce
  <2> QED
    BY <2>1, <2>2
<1> QED
  BY <1>6, <1>7, <1>8, <1>9 DEF SmsInv

LEMMA FinishEffect ==
    ASSUME SmsInv, NEW c \in Couriers, Sms!Finish(c)
    PROVE  \E i \in Notifications, v \in Sms!FinalStates :
              /\ courier[c].at = "finish" /\ i = courier[c].id /\ v = courier[c].result
              /\ sms[i].version = 2 /\ sms[i].state = "DISPATCHING"
              /\ sms' = [sms EXCEPT ![i] = [state |-> v, version |-> 3]]
              /\ Sms!Leave(c) /\ UNCHANGED <<gateway, courierCrashes>>
<1>0. PICK i \in Notifications, v \in Sms!FinalStates : i = courier[c].id /\ v = courier[c].result
  BY SmsTypes DEF CourierStates
<1>1. courier[c].at = "finish" /\ sms[i].version = courier[c].read.version
  BY <1>0 DEF Sms!Finish, Sms!MayWrite
<1>2. courier[c].read.version = 2
  BY <1>1 DEF SmsInv, CourierRelies, Trusts
<1>3. sms[i].version = 2 /\ sms[i].state = "DISPATCHING"
  BY <1>1, <1>2 DEF SmsInv, CalledOnce, Once, VersionTellsState
<1>4. sms' = [sms EXCEPT ![i] = [state |-> v, version |-> 3]]
  BY <1>0, <1>2 DEF Sms!Finish
<1> QED
  BY ZenonT(30), <1>0, <1>1, <1>3, <1>4 DEF Sms!Finish

LEMMA FinishKeeps ==
    ASSUME SmsInv, NEW c \in Couriers, Sms!Finish(c), UNCHANGED allVars PROVE SmsInv'
<1>1. PICK i \in Notifications, v \in Sms!FinalStates :
         /\ courier[c].at = "finish" /\ i = courier[c].id /\ v = courier[c].result
         /\ sms[i].version = 2 /\ sms[i].state = "DISPATCHING"
         /\ sms' = [sms EXCEPT ![i] = [state |-> v, version |-> 3]]
         /\ Sms!Leave(c) /\ UNCHANGED <<gateway, courierCrashes>>
  BY FinishEffect
<1> DEFINE row == [state |-> v, version |-> 3]
<1>2. row \in Sms!Records /\ row.version = 3 /\ VersionTellsState(row)
  BY DEF Sms!Records, Sms!FinalStates, VersionTellsState
<1>3. sms' = [sms EXCEPT ![i] = row] /\ evidence' = evidence
  BY <1>1 DEF allVars, callbackVars
<1> HIDE DEF row
<1>4. PICK s \in CourierStates :
         courier' = [courier EXCEPT ![c] = s] /\ s.at = "idle" /\ VersionTellsState(s.read)
  BY <1>1, LeaveState
<1>5. courier'[c] = s /\ \A d \in Couriers : d # c => courier'[d] = courier[d]
  BY <1>4, SmsTypes
<1>6. sms'[i] = row /\ \A j \in Notifications : j # i => sms'[j] = sms[j]
  BY <1>3, SmsTypes
<1>7. \A d \in Couriers : courier[d].id \in Notifications
  BY SmsTypes DEF CourierStates
<1>8. Sms!TypeOK'
  BY <1>1, <1>2, <1>3, <1>4, SmsTypes DEF Sms!TypeOK, CourierStates
<1>9. ASSUME NEW d \in Couriers PROVE CourierRelies(d)'
  <2>1. CASE d = c
    <3>1. Trusts(s, sms'[s.id], gateway'[s.id])
      BY <1>4 DEF Trusts
    <3> QED
      BY <1>5, <2>1, <3>1 DEF CourierRelies
  <2>2. CASE d # c
    <3>1. courier'[d] = courier[d] /\ courier[d].id \in Notifications /\ CourierRelies(d)
      BY <1>5, <1>7, <2>2 DEF SmsInv
    <3>2. CASE courier[d].id # i
      BY <1>1, <1>6, <3>1, <3>2 DEF CourierRelies
    <3>3. CASE courier[d].id = i
      <4>1. Trusts(courier[d], row, gateway[i])
        BY <1>2, <3>1, <3>3 DEF CourierRelies, Trusts
      <4> QED
        BY <1>1, <1>6, <3>1, <3>3, <4>1 DEF CourierRelies
    <3> QED
      BY <3>2, <3>3
  <2> QED
    BY <2>1, <2>2
<1>10. OneSender'
  BY <1>4, <1>5 DEF SmsInv, OneSender
<1>11. ASSUME NEW j \in Notifications PROVE CalledOnce(j)'
  <2>1. CASE j = i
    <3>1. CalledOnce(i)
      BY SMTT(40) DEF SmsInv
    <3>2. Once(row, gateway[i], evidence)
      BY <1>1, <1>2, <3>1 DEF CalledOnce, Once
    <3> QED
      BY <1>1, <1>3, <1>6, <2>1, <3>2 DEF CalledOnce
  <2>2. CASE j # i
    BY <1>1, <1>3, <1>6, <2>2 DEF SmsInv, CalledOnce
  <2> QED
    BY <2>1, <2>2
<1> QED
  BY <1>8, <1>9, <1>10, <1>11 DEF SmsInv

\* The handlers leave the messages alone and never withdraw the evidence.
LEMMA DecidingKeeps ==
    ASSUME SmsInv, [CallbackNext]_allVars, UNCHANGED smsVars PROVE SmsInv'
<1>1. evidence # NoEvidence => evidence' # NoEvidence
  <2>1. evidence' = evidence \/ \E h \in Handlers : CommitSettlement(h)
    BY ZenonT(30) DEF CallbackNext, allVars, callbackVars, Orchestrate, SubmissionCompleted, AllDone,
           Callback, Ingest, HandlerProceeds, HandlerCrash, ReadOutcome, EnterMethod,
           MethodRefuses, MethodReadsPlan, MethodCommits, MethodConflicts, ReadSettled, MarkApplied
  <2> QED
    BY SMTT(40), <2>1 DEF CommitSettlement
<1>2. UNCHANGED <<sms, courier, gateway, courierCrashes>>
  BY DEF smsVars
<1>3. Sms!TypeOK' /\ OneSender' /\ \A c \in Couriers : CourierRelies(c)'
  BY <1>2 DEF SmsInv, Sms!TypeOK, OneSender, CourierRelies
<1>4. ASSUME NEW i \in Notifications PROVE CalledOnce(i)'
  <2>1. Once(sms[i], gateway[i], evidence')
    BY <1>1 DEF SmsInv, CalledOnce, Once
  <2> QED
    BY <1>2, <2>1 DEF CalledOnce
<1> QED
  BY <1>3, <1>4 DEF SmsInv

LEMMA SmsStep ==
    SmsInv /\ [SettlementNext]_settlementVars => SmsInv'
<1> SUFFICES ASSUME SmsInv, [SettlementNext]_settlementVars PROVE SmsInv'
  OBVIOUS
<1>1. CASE Deciding \/ UNCHANGED settlementVars
  BY <1>1, DecidingKeeps DEF Deciding, settlementVars
<1>2. ASSUME NEW c \in Couriers, Delivering(c) PROVE SmsInv'
  <2>1. /\ UNCHANGED allVars /\ RowsExist
        /\ Sms!Deliver(c) \/ Sms!StartSending(c) \/ Sms!NoDestination(c) \/ Sms!Send(c)
              \/ Sms!Finish(c) \/ Sms!Conflict(c) \/ Sms!Crash(c)
    BY <1>2 DEF Delivering, Sms!Proceed
  <2> QED
    BY <2>1, DeliverKeeps, StartSendingKeeps, NoDestinationKeeps, SendKeeps, FinishKeeps, LeaveKeeps
<1> QED
  BY <1>1, <1>2 DEF SettlementNext

\* Whatever couriers and handlers do and wherever couriers crash, each message
\* was sent at most once and only on evidence.
THEOREM MessagesInvariant == SettlementSpec => []SmsInv
<1> QED
  BY SmsInitInv, SmsStep, PTL DEF SettlementSpec

-----------------------------------------------------------------------------
(* The one-shot contract of the messages *)

\* gateway.send is the one call of the contract.
LEMMA SendRefines ==
    ASSUME SmsInv, NEW c \in Couriers, Sms!Send(c)
    PROVE  \E i \in Notifications : Sms!GatewayContract!Call(i)
<1>0. PICK i \in Notifications, fate \in Fates, s \in CourierStates : Sends(c, i, fate, s)
  BY SendEffect
<1>1. /\ gateway[i].calls = 0 /\ gateway'[i].calls = 1 /\ gateway'[i].fate = fate /\ sms' = sms
      /\ \A j \in Notifications : j # i => gateway'[j] = gateway[j]
  BY <1>0, SmsTypes DEF Sends
<1> DEFINE F(f) == IF f = "SENT" THEN "ACCEPTED" ELSE f
<1>2. [j \in Notifications |-> gateway'[j].calls] =
         [[j \in Notifications |-> gateway[j].calls] EXCEPT ![i] = 1]
  BY Zenon, <1>1
<1>3. [j \in Notifications |-> F(gateway'[j].fate)] =
         [[j \in Notifications |-> F(gateway[j].fate)] EXCEPT ![i] = F(fate)]
  BY Zenon, <1>1
<1>4. F(fate) \in {"none", "ACCEPTED", "REJECTED"}
  BY DEF Fates
<1>5. [j \in Notifications |-> gateway[j].calls][i] = 0
  BY <1>1
<1>6. Sms!GatewayContract!Call(i)
  BY ZenonT(30), <1>1, <1>2, <1>3, <1>4, <1>5 DEF Sms!GatewayContract!Call
<1> QED
  BY <1>6

\* The verdict on record, as the contract names it.
Recorded(row) ==
    CASE row.state = "SENT" -> "ACCEPTED"
      [] row.state \in {"REJECTED", "UNKNOWN"} -> row.state
      [] OTHER -> "none"

\* _finish() concludes the message.
LEMMA FinishRefines ==
    ASSUME SmsInv, NEW c \in Couriers, Sms!Finish(c)
    PROVE  \E i \in Notifications : Sms!GatewayContract!Conclude(i)
<1>1. PICK i \in Notifications, v \in Sms!FinalStates :
         /\ courier[c].at = "finish" /\ i = courier[c].id /\ v = courier[c].result
         /\ sms[i].version = 2 /\ sms[i].state = "DISPATCHING"
         /\ sms' = [sms EXCEPT ![i] = [state |-> v, version |-> 3]]
         /\ Sms!Leave(c) /\ UNCHANGED <<gateway, courierCrashes>>
  BY FinishEffect
<1>2. v # "UNKNOWN" => gateway[i].fate = v
  BY <1>1 DEF SmsInv, CourierRelies, Trusts
<1>3. sms'[i].state = v /\ \A j \in Notifications : j # i => sms'[j] = sms[j]
  BY <1>1, SmsTypes
<1> DEFINE F(f) == IF f = "SENT" THEN "ACCEPTED" ELSE f
           w == IF v = "SENT" THEN "ACCEPTED" ELSE v
<1>4. Recorded(sms[i]) = "none" /\ Recorded(sms'[i]) = w
  BY <1>1, <1>3 DEF Recorded, Sms!FinalStates
<1>5. w \in {"UNKNOWN"} \cup ({F(gateway[i].fate)} \ {"none"})
  BY <1>2 DEF Sms!FinalStates
<1>6. [j \in Notifications |-> Recorded(sms'[j])] =
         [[j \in Notifications |-> Recorded(sms[j])] EXCEPT ![i] = w]
  BY Zenon, <1>3, <1>4
<1>7. Sms!GatewayContract!Conclude(i)
  BY ZenonT(30), <1>1, <1>4, <1>5, <1>6 DEF Sms!GatewayContract!Conclude, Recorded
<1> QED
  BY <1>7

\* Every other step leaves the contract where it was.
LEMMA OtherDeliveries ==
    ASSUME [SettlementNext]_settlementVars
    PROVE  UNCHANGED <<sms, gateway>>
        \/ \E c \in Couriers : Sms!StartSending(c) \/ Sms!Send(c) \/ Sms!Finish(c)
BY DEF SettlementNext, Deciding, Delivering, settlementVars, smsVars, Sms!Deliver, Sms!Proceed,
       Sms!NoDestination, Sms!Conflict, Sms!Crash

\* A message on its way to the gateway has no verdict yet.
LEMMA StartRefinesNothing ==
    ASSUME SmsInv, NEW c \in Couriers, Sms!StartSending(c)
    PROVE  UNCHANGED Sms!GatewayContract!contractVars
<1>0. PICK i \in Notifications : i = courier[c].id
  BY SmsTypes DEF CourierStates
<1>1. /\ gateway' = gateway /\ sms[i].state \notin Sms!FinalStates
      /\ sms'[i].state = "DISPATCHING" /\ \A j \in Notifications : j # i => sms'[j] = sms[j]
  BY <1>0, SmsTypes DEF Sms!StartSending, Sms!MayWrite
<1>2. \A j \in Notifications : Recorded(sms'[j]) = Recorded(sms[j])
  BY <1>1 DEF Recorded, Sms!FinalStates
<1>3. [j \in Notifications |-> Recorded(sms'[j])] = [j \in Notifications |-> Recorded(sms[j])]
  BY <1>2
<1> QED
  BY <1>1, <1>3 DEF Sms!GatewayContract!contractVars, Recorded

\* However handlers and couriers interleave and crash, deliver() keeps the
\* one-shot contract of every message.
THEOREM SettlementIsOneShot == SettlementSpec => ImplementsOneShot
<1>1. SettlementInit => Sms!GatewayContract!Init
  BY DEF SettlementInit, Sms!Init, Sms!Prepared, Sms!GatewayContract!Init
<1>2. SmsInv /\ [SettlementNext]_settlementVars =>
         [Sms!GatewayContract!Next]_(Sms!GatewayContract!contractVars)
  <2> SUFFICES ASSUME SmsInv, [SettlementNext]_settlementVars
               PROVE  [Sms!GatewayContract!Next]_(Sms!GatewayContract!contractVars)
    OBVIOUS
  <2>1. CASE UNCHANGED <<sms, gateway>>
    BY <2>1 DEF Sms!GatewayContract!contractVars
  <2>2. ASSUME NEW c \in Couriers, Sms!StartSending(c) \/ Sms!Send(c) \/ Sms!Finish(c)
        PROVE  [Sms!GatewayContract!Next]_(Sms!GatewayContract!contractVars)
    BY <2>2, StartRefinesNothing, SendRefines, FinishRefines DEF Sms!GatewayContract!Next
  <2> QED
    BY <2>1, <2>2, OtherDeliveries
<1> QED
  BY <1>1, <1>2, MessagesInvariant, PTL
     DEF SettlementSpec, ImplementsOneShot, Sms!ImplementsOneShot, Sms!GatewayContract!Spec

-----------------------------------------------------------------------------
(* Handlers *)

USE HandlersAssumption

HadItsEffect(i, verdict) ==
    /\ verdict = "SUCCESS" =>
          /\ attempt[i[2]].state = "SUCCEEDED"
          /\ evidence # NoEvidence /\ evidence.callback = i
    /\ verdict = "RECONCILIATION_REQUIRED" =>
          attempt[i[2]].state \notin {"ABSENT", "CREATED"}
    /\ verdict \in {"RETRYABLE", "TERMINAL"} => attempt[i[2]].state = "FAILED"

\* What a handler in state s relies on; k is its call of the service.
Relies(s, k) ==
    /\ s.at # "calling" => k.at = "idle"
    /\ s.at # "idle" => inbox[s.event].state # "ABSENT" /\ inbox[s.event].verdict = s.verdict
    /\ s.at = "calling" => k.rtt = s.event[2] /\ k.verdict = s.verdict
    /\ s.at \in {"settle", "commit"} =>
          s.verdict = "SUCCESS" /\ attempt[s.event[2]].state = "SUCCEEDED"
    /\ s.at = "commit" => s.settled = s.event[2]
    /\ s.at = "mark" => HadItsEffect(s.event, s.verdict)

InboxSpeaks ==
    \A i \in EventIds : inbox[i].state # "ABSENT" => inbox[i].verdict \in Contents(i[1])

CallbackInv ==
    /\ CallbackTypeOK
    /\ InboxSpeaks
    /\ \A h \in Handlers : Relies(handler[h], call[h])
    /\ EvidenceIsEarned
    /\ \A i \in EventIds : inbox[i].state = "APPLIED" => HadItsEffect(i, inbox[i].verdict)
    /\ OutcomeHasItsCallback

-----------------------------------------------------------------------------
(* What every step leaves in place *)

\* Confirmed outcomes, what the inbox says and the evidence stay.
Advances ==
    /\ plan.status = "FINALIZED" => plan'.status = "FINALIZED"
    /\ \A n \in Rtts : attempt[n].state \in {"FAILED", "SUCCEEDED"} => attempt'[n] = attempt[n]
    /\ \A n \in Rtts : attempt[n].state \notin {"ABSENT", "CREATED"} =>
          attempt'[n].state \notin {"ABSENT", "CREATED"}
    /\ \A i \in EventIds : inbox[i].state # "ABSENT" =>
          inbox'[i].state # "ABSENT" /\ inbox'[i].verdict = inbox[i].verdict
    /\ evidence # NoEvidence => evidence' = evidence

LEMMA EventParts ==
    ASSUME NEW i \in EventIds
    PROVE  /\ i[1] \in {"RESULT", "TIMEOUT"} /\ i[2] \in Rtts /\ i = <<i[1], i[2]>>
BY DEF EventIds

LEMMA EventPairs == ASSUME NEW n \in Rtts PROVE <<"RESULT", n>> \in EventIds /\ <<"TIMEOUT", n>> \in EventIds
BY DEF EventIds

LEMMA EffectStays ==
    ASSUME Advances, NEW i \in EventIds, NEW v, HadItsEffect(i, v) PROVE HadItsEffect(i, v)'
<1>1. i[2] \in Rtts
  BY EventParts
<1> QED
  BY <1>1 DEF Advances, HadItsEffect

\* A handler that does not move still has what it relies on.
LEMMA RelianceStays ==
    ASSUME Advances, NEW s \in HandlerStates, NEW k, Relies(s, k)
    PROVE  Relies(s, k)'
<1>1. s.event \in EventIds /\ s.event[2] \in Rtts
  BY EventParts DEF HandlerStates
<1>2. s.at = "mark" => HadItsEffect(s.event, s.verdict)'
  BY <1>1, EffectStays DEF Relies
<1> QED
  BY <1>1, <1>2 DEF Advances, Relies

\* A step that moves one handler and leaves inbox, evidence and tables alone.
LEMMA HandlerMoves ==
    ASSUME CallbackInv, NEW h \in Handlers, NEW s \in HandlerStates, NEW k \in Calls,
           call \in [Callers -> Calls],
           handler' = [handler EXCEPT ![h] = s], call' = [call EXCEPT ![h] = k],
           Relies(s, k),
           UNCHANGED <<plan, attempt, submitted, inbox, evidence>>, crashes' \in 0..MaxCrashes
    PROVE  CallbackInv'
<1>1. CallbackTypeOK'
  BY ZenonT(30) DEF CallbackInv, CallbackTypeOK
<1>2. ASSUME NEW g \in Handlers PROVE Relies(handler[g], call[g])'
  <2>1. /\ handler'[g] = IF g = h THEN s ELSE handler[g]
        /\ call'[g] = IF g = h THEN k ELSE call[g]
    BY DEF CallbackInv, CallbackTypeOK
  <2>2. CASE g = h
    <3>1. handler'[g] = s /\ call'[g] = k
      BY <2>1, <2>2
    <3> QED
      BY Zenon, <3>1 DEF Relies, HadItsEffect
  <2>3. CASE g # h
    <3>1. Relies(handler[g], call[g]) /\ handler'[g] = handler[g] /\ call'[g] = call[g]
      BY <2>1, <2>3 DEF CallbackInv
    <3> QED
      BY Zenon, <3>1 DEF Relies, HadItsEffect
  <2> QED
    BY <2>2, <2>3
<1> QED
  BY <1>1, <1>2 DEF CallbackInv, InboxSpeaks, EvidenceIsEarned, HadItsEffect, OutcomeHasItsCallback

LEMMA WaitingRelies == Waiting \in HandlerStates /\ Relies(Waiting, Idle)
<1>1. 1 \in Rtts /\ None \in 0..MaxAttempts
  BY LimitsAssumption DEF Rtts, None
<1>2. <<"RESULT", 1>> \in EventIds
  BY Zenon, <1>1, EventPairs
<1>3. Waiting \in HandlerStates
  BY <1>1, <1>2 DEF Waiting, HandlerStates, Verdicts
<1> QED
  BY <1>3 DEF Waiting, Relies, Idle

LEMMA MovedTo ==
    ASSUME NEW s \in HandlerStates,
           NEW a \in {"idle", "ingested", "record", "resolve", "calling", "settle", "commit", "mark"}
    PROVE  LET t == [s EXCEPT !.at = a]
           IN  /\ t \in HandlerStates /\ t.at = a /\ t.event = s.event
               /\ t.verdict = s.verdict /\ t.settled = s.settled
BY DEF HandlerStates

\* The types a proof about one handler starts from.
LEMMA HandlerTypes ==
    ASSUME IInv, CallbackInv, NEW h \in Handlers
    PROVE  /\ h \in Callers /\ call \in [Callers -> Calls] /\ call[h] \in Calls
           /\ handler \in [Handlers -> HandlerStates] /\ handler[h] \in HandlerStates
           /\ handler[h].event \in EventIds /\ Rtt(h) \in Rtts
           /\ handler[h].verdict \in Verdicts /\ Relies(handler[h], call[h])
           /\ call = [call EXCEPT ![h] = call[h]] /\ crashes \in 0..MaxCrashes
<1>1. h \in Callers /\ call \in [Callers -> Calls] /\ handler \in [Handlers -> HandlerStates]
  BY DEF IInv, TypeOK, CallbackInv, CallbackTypeOK
<1>2. handler[h].event \in EventIds /\ handler[h].verdict \in Verdicts
  BY <1>1 DEF HandlerStates
<1>3. Rtt(h) \in Rtts
  BY <1>2, EventParts DEF Rtt
<1>4. Relies(handler[h], call[h]) /\ crashes \in 0..MaxCrashes
  BY DEF CallbackInv, CallbackTypeOK
<1>5. call = [call EXCEPT ![h] = call[h]]
  BY <1>1
<1> QED
  BY <1>1, <1>2, <1>3, <1>4, <1>5

-----------------------------------------------------------------------------
(* Steps that leave inbox, evidence and tables alone *)

LEMMA ReturnInv ==
    ASSUME IInv, CallbackInv, NEW h \in Handlers, Return(h),
           UNCHANGED <<plan, attempt, submitted, inbox, evidence>>, crashes' \in 0..MaxCrashes,
           \/ call' = [call EXCEPT ![h] = Idle]
           \/ UNCHANGED call /\ handler[h].at # "calling"
    PROVE  CallbackInv'
<1>1. Waiting \in HandlerStates /\ Waiting.at = "idle" /\ Idle \in Calls /\ Relies(Waiting, Idle)
  BY WaitingRelies, NullRecords DEF Waiting
<1>2. handler' = [handler EXCEPT ![h] = Waiting]
  BY DEF Return
<1>3. CASE call' = [call EXCEPT ![h] = Idle]
  BY Zenon, <1>1, <1>2, <1>3, HandlerTypes, HandlerMoves
<1>4. CASE UNCHANGED call /\ handler[h].at # "calling"
  <2>1. call[h].at = "idle"
    BY <1>4, HandlerTypes DEF Relies
  <2>2. Relies(Waiting, call[h])
    BY <1>1, <2>1 DEF Relies
  <2>3. call' = [call EXCEPT ![h] = call[h]] /\ call[h] \in Calls /\ call \in [Callers -> Calls]
    BY <1>4, HandlerTypes
  <2> QED
    BY Zenon, <1>1, <1>2, <2>2, <2>3, HandlerMoves
<1> QED
  BY <1>3, <1>4

\* A handler that goes on outside the service.
LEMMA GoToInv ==
    ASSUME IInv, CallbackInv, NEW h \in Handlers, handler[h].at # "calling",
           NEW a \in {"record", "resolve", "settle", "mark"}, GoTo(h, a),
           Relies([handler[h] EXCEPT !.at = a], call[h]),
           UNCHANGED <<vars, submitted, inbox, evidence, crashes>>
    PROVE  CallbackInv'
<1> DEFINE s == [handler[h] EXCEPT !.at = a]
<1>1. s \in HandlerStates
  BY ZenonT(30), HandlerTypes, MovedTo
<1>2. handler' = [handler EXCEPT ![h] = s]
  BY HandlerTypes DEF GoTo
<1>3. call' = [call EXCEPT ![h] = call[h]] /\ call[h] \in Calls /\ call \in [Callers -> Calls]
  BY HandlerTypes DEF vars
<1>4. UNCHANGED <<plan, attempt, submitted, inbox, evidence>> /\ crashes' \in 0..MaxCrashes
  BY HandlerTypes DEF vars
<1> HIDE DEF s
<1> QED
  BY Zenon, <1>1, <1>2, <1>3, <1>4, HandlerMoves DEF s

LEMMA ReadOutcomeInv ==
    ASSUME IInv, CallbackInv, NEW h \in Handlers, ReadOutcome(h) PROVE CallbackInv'
<1> DEFINE state == attempt[Rtt(h)].state
           v == handler[h].verdict
           a == Where(state, v)
<1>1. /\ handler[h].at = "ingested" /\ UNCHANGED <<vars, submitted, inbox, evidence, crashes>>
      /\ IF a = "idle" THEN Return(h) ELSE GoTo(h, a)
  BY DEF ReadOutcome
<1>2. CASE a = "idle"
  BY <1>1, <1>2, HandlerTypes, ReturnInv DEF vars
<1>3. CASE a # "idle"
  <2>0. state \in AttemptState /\ v \in Verdicts
    BY HandlerTypes DEF IInv, TypeOK, Attempts
  <2>1. /\ a \in {"record", "resolve", "settle", "mark"}
        /\ a = "settle" => state = "SUCCEEDED" /\ v = "SUCCESS"
        /\ a = "mark" => \/ state = "RECONCILIATION_REQUIRED" /\ v = "RECONCILIATION_REQUIRED"
                         \/ state = "FAILED" /\ v \in {"RETRYABLE", "TERMINAL"}
    BY <1>3, <2>0 DEF Where, AttemptState, Verdicts, Dispositions
  <2> DEFINE s == [handler[h] EXCEPT !.at = a]
  <2>2. s.at = a /\ s.event = handler[h].event /\ s.verdict = v
    BY <2>1, HandlerTypes, MovedTo
  <2>3. s.at = "mark" => HadItsEffect(s.event, s.verdict)
    BY <2>1, <2>2 DEF HadItsEffect, Rtt
  <2>4. Relies(handler[h], call[h])
    BY HandlerTypes
  <2> HIDE DEF a, s, v
  <2>5. Relies(s, call[h])
    BY <1>1, <2>1, <2>2, <2>3, <2>4 DEF Relies, Rtt, v
  <2> QED
    BY Zenon, <1>1, <1>3, <2>1, <2>5, GoToInv DEF s
<1> QED
  BY <1>2, <1>3

LEMMA EnterMethodInv ==
    ASSUME IInv, CallbackInv, NEW h \in Handlers, EnterMethod(h)
    PROVE  IInv' /\ CallbackInv'
<1> DEFINE n == Rtt(h)
           v == handler[h].verdict
           op == handler[h].at
           s == [handler[h] EXCEPT !.at = "calling"]
           k == [Idle EXCEPT !.at = "attempt_read", !.op = op, !.rtt = n,
                             !.verdict = v, !.cost = 0]
<1>1. /\ op \in {"record", "resolve"} /\ ReadAttempt(h, op, n, v, 0, Expected(op))
      /\ GoTo(h, "calling") /\ UNCHANGED <<submitted, inbox, evidence, crashes>>
  BY DEF EnterMethod
<1>2. n \in Rtts /\ v \in Verdicts /\ h \in Callers /\ 0 \in Nat /\ n \in 0..MaxAttempts
  BY HandlerTypes DEF Rtts
<1>3. IInv'
  BY <1>1, <1>2, ReadAttemptInv
<1>4. k \in Calls /\ k.rtt = n /\ k.verdict = v
  BY Zenon, <1>1, <1>2, NullRecords DEF Calls
<1>5. call' = [call EXCEPT ![h] = k] /\ UNCHANGED <<plan, attempt>>
  BY <1>1 DEF ReadAttempt
<1>6. s \in HandlerStates /\ s.at = "calling" /\ s.event = handler[h].event /\ s.verdict = v
  BY ZenonT(30), HandlerTypes, MovedTo
<1>7. handler' = [handler EXCEPT ![h] = s]
  BY <1>1, HandlerTypes DEF GoTo
<1>8. Relies(handler[h], call[h]) /\ call \in [Callers -> Calls] /\ crashes' \in 0..MaxCrashes
  BY <1>1, HandlerTypes
<1> HIDE DEF s, k, v, op
<1>9. Relies(s, k)
  BY Zenon, <1>1, <1>4, <1>6, <1>8 DEF Relies, Rtt, op, v
<1> QED
  BY Zenon, <1>1, <1>3, <1>4, <1>5, <1>6, <1>7, <1>8, <1>9, HandlerMoves

LEMMA MethodReadsPlanInv ==
    ASSUME IInv, CallbackInv, NEW h \in Handlers, MethodReadsPlan(h)
    PROVE  IInv' /\ CallbackInv'
<1>1. /\ handler[h].at = "calling" /\ ReadPlan(h) /\ h \in Callers
      /\ IF call'[h] = Idle THEN Return(h) ELSE UNCHANGED handler
      /\ UNCHANGED <<plan, attempt, submitted, inbox, evidence, crashes>>
  BY HandlerTypes DEF MethodReadsPlan, ReadPlan
<1>2. IInv'
  BY <1>1, ReadPlanInv
<1>3. crashes' \in 0..MaxCrashes /\ call \in [Callers -> Calls] /\ call[h] \in Calls
  BY <1>1, HandlerTypes
<1>4. CASE call'[h] = Idle
  <2>1. call' = [call EXCEPT ![h] = Idle]
    BY Zenon, <1>1, <1>3, <1>4 DEF ReadPlan
  <2> QED
    BY Zenon, <1>1, <1>2, <1>3, <1>4, <2>1, ReturnInv
<1>5. CASE call'[h] # Idle
  <2> DEFINE k == [call[h] EXCEPT !.at = "plan_read", !.plan = plan]
  <2>1. call' = [call EXCEPT ![h] = k]
    BY Zenon, <1>1, <1>3, <1>5 DEF ReadPlan
  <2>2. k \in Calls /\ k.rtt = call[h].rtt /\ k.verdict = call[h].verdict
    BY Zenon, <1>3 DEF Calls, IInv, TypeOK
  <2>3. Relies(handler[h], call[h]) /\ handler[h] \in HandlerStates
    BY HandlerTypes
  <2>4. handler' = [handler EXCEPT ![h] = handler[h]]
    BY <1>1, <1>5, HandlerTypes
  <2> HIDE DEF k
  <2>5. Relies(handler[h], k)
    BY <1>1, <2>2, <2>3 DEF Relies
  <2> QED
    BY Zenon, <1>1, <1>2, <1>3, <2>1, <2>2, <2>3, <2>4, <2>5, HandlerMoves
<1> QED
  BY <1>4, <1>5

LEMMA ReadSettledInv ==
    ASSUME IInv, CallbackInv, NEW h \in Handlers, ReadSettled(h) PROVE CallbackInv'
<1> DEFINE s == [handler[h] EXCEPT !.at = "commit", !.settled = plan.previous]
<1>1. handler[h].at = "settle" /\ UNCHANGED <<vars, submitted, inbox, evidence, crashes>>
  BY DEF ReadSettled
<1>2. CASE Return(h)
  BY <1>1, <1>2, HandlerTypes, ReturnInv DEF vars
<1>3. CASE ~Return(h)
  <2>1. handler' = [handler EXCEPT ![h] = s]
    BY Zenon, <1>3, HandlerTypes DEF ReadSettled
  <2>2. /\ s \in HandlerStates /\ s.at = "commit" /\ s.settled = plan.previous
        /\ s.event = handler[h].event /\ s.verdict = handler[h].verdict
    BY ZenonT(30), HandlerTypes DEF HandlerStates, IInv, TypeOK, Plans
  <2>3. Relies(handler[h], call[h]) /\ handler[h].event[2] \in Rtts
    BY HandlerTypes DEF Rtt
  <2>4. plan.previous = handler[h].event[2]
    BY <1>1, <2>3 DEF Relies, IInv, FinalizedBySuccess
  <2> HIDE DEF s
  <2>5. Relies(s, call[h])
    BY <1>1, <2>2, <2>3, <2>4 DEF Relies
  <2>6. /\ call' = [call EXCEPT ![h] = call[h]] /\ call[h] \in Calls /\ call \in [Callers -> Calls]
        /\ UNCHANGED <<plan, attempt, submitted, inbox, evidence>> /\ crashes' \in 0..MaxCrashes
    BY <1>1, HandlerTypes DEF vars
  <2> QED
    BY Zenon, <2>1, <2>2, <2>5, <2>6, HandlerMoves
<1> QED
  BY <1>2, <1>3

-----------------------------------------------------------------------------
(* Steps that write *)

\* The parts of the invariant that hold again after any step that advances.
LEMMA AdvanceKeeps ==
    ASSUME CallbackInv, Advances
    PROVE  /\ \A h \in Handlers : Relies(handler[h], call[h]) => Relies(handler[h], call[h])'
                  \/ handler'[h] # handler[h] \/ call'[h] # call[h]
           /\ EvidenceIsEarned /\ evidence' = evidence => EvidenceIsEarned'
           /\ \A i \in EventIds : inbox[i].state = "APPLIED" =>
                 HadItsEffect(i, inbox[i].verdict)' /\ inbox'[i].verdict = inbox[i].verdict
<1>1. ASSUME NEW h \in Handlers, handler'[h] = handler[h], call'[h] = call[h]
      PROVE  Relies(handler[h], call[h]) => Relies(handler[h], call[h])'
  <2>1. handler[h] \in HandlerStates
    BY DEF CallbackInv, CallbackTypeOK
  <2>2. SUFFICES ASSUME Relies(handler[h], call[h]) PROVE Relies(handler[h], call[h])'
    OBVIOUS
  <2> DEFINE s == handler[h]
             k == call[h]
  <2>3. s.event \in EventIds /\ s.event[2] \in Rtts
    BY <2>1, EventParts DEF HandlerStates
  <2> QED
    BY ZenonT(30), <1>1, <2>2, <2>3 DEF Relies, Advances, HadItsEffect
<1>2. EvidenceIsEarned /\ evidence' = evidence => EvidenceIsEarned'
  <2> SUFFICES ASSUME EvidenceIsEarned, evidence' = evidence, evidence # NoEvidence
               PROVE  EvidenceIsEarned'
    BY DEF EvidenceIsEarned
  <2>1. evidence.rtt \in Rtts /\ evidence.callback \in EventIds
    BY DEF CallbackInv, CallbackTypeOK
  <2> QED
    BY <2>1 DEF EvidenceIsEarned, Advances
<1>3. ASSUME NEW i \in EventIds, inbox[i].state = "APPLIED"
      PROVE  HadItsEffect(i, inbox[i].verdict)' /\ inbox'[i].verdict = inbox[i].verdict
  <2>1. HadItsEffect(i, inbox[i].verdict) /\ i[2] \in Rtts
    BY <1>3, EventParts DEF CallbackInv
  <2>2. inbox'[i].verdict = inbox[i].verdict
    BY <1>3 DEF Advances
  <2> QED
    BY <2>1, <2>2 DEF Advances, HadItsEffect
<1> QED
  BY ZenonT(30), <1>1, <1>2, <1>3

\* With the tables and the evidence unchanged, it is enough that inbox grows.
LEMMA InboxAdvances ==
    ASSUME UNCHANGED <<plan, attempt, evidence>>,
           \A i \in EventIds : inbox[i].state # "ABSENT" =>
              inbox'[i].state # "ABSENT" /\ inbox'[i].verdict = inbox[i].verdict
    PROVE  Advances
BY DEF Advances

\* OutcomeHasItsCallback reads what was on record and stays there.
LEMMA CallbacksStay ==
    ASSUME CallbackInv, Advances, attempt' = attempt PROVE OutcomeHasItsCallback'
<1>1. ASSUME NEW n \in Rtts
      PROVE  /\ <<"RESULT", n>> \in EventIds /\ <<"TIMEOUT", n>> \in EventIds
  BY EventPairs
<1> QED
  BY Zenon, <1>1 DEF CallbackInv, OutcomeHasItsCallback, Advances

LEMMA IngestInv ==
    ASSUME IInv, CallbackInv, NEW h \in Handlers, NEW i \in EventIds,
           NEW v \in Contents(i[1]), Ingest(h, i, v)
    PROVE  CallbackInv'
<1> DEFINE s == [Waiting EXCEPT !.at = "ingested", !.event = i, !.verdict = v]
           row == [state |-> "RECEIVED", verdict |-> v]
<1>1. /\ handler[h].at = "idle" /\ Accepts(inbox[i], v)
      /\ inbox' = IF inbox[i].state = "ABSENT" THEN [inbox EXCEPT ![i] = row] ELSE inbox
      /\ handler' = [handler EXCEPT ![h] = s]
      /\ UNCHANGED <<plan, attempt, call, submitted, evidence, crashes>>
  BY DEF Ingest, vars
<1>2. v \in Verdicts /\ row \in InboxRows /\ row.state = "RECEIVED" /\ row.verdict = v
  BY DEF Contents, Verdicts, Dispositions, InboxRows
<1>3. s \in HandlerStates /\ s.at = "ingested" /\ s.event = i /\ s.verdict = v
  <2>1. Waiting \in HandlerStates
    BY WaitingRelies
  <2> QED
    BY ZenonT(30), <1>2, <2>1 DEF HandlerStates
<1>4. inbox \in [EventIds -> InboxRows] /\ handler \in [Handlers -> HandlerStates]
  BY DEF CallbackInv, CallbackTypeOK
<1> HIDE DEF s, row
<1>5. /\ inbox' \in [EventIds -> InboxRows] /\ inbox'[i].state # "ABSENT" /\ inbox'[i].verdict = v
      /\ \A j \in EventIds : j # i => inbox'[j] = inbox[j]
      /\ inbox[i].state # "ABSENT" => inbox'[i] = inbox[i]
      /\ inbox'[i].state # "APPLIED"
  BY <1>1, <1>2, <1>4 DEF Accepts
<1>6. Advances
  BY <1>1, <1>5, InboxAdvances
<1>7. CallbackTypeOK'
  BY ZenonT(30), <1>1, <1>3, <1>4, <1>5 DEF CallbackInv, CallbackTypeOK
<1>8. InboxSpeaks'
  BY <1>5 DEF CallbackInv, InboxSpeaks
<1>9. ASSUME NEW g \in Handlers PROVE Relies(handler[g], call[g])'
  <2>1. CASE g = h
    <3>1. call[h].at = "idle"
      BY ZenonT(30), <1>1, HandlerTypes DEF Relies
    <3> QED
      BY Zenon, <1>1, <1>3, <1>4, <1>5, <2>1, <3>1 DEF Relies
  <2>2. CASE g # h
    <3>1. handler'[g] = handler[g] /\ call'[g] = call[g] /\ Relies(handler[g], call[g])
      BY ZenonT(30), <1>1, <1>4, <2>2 DEF CallbackInv
    <3> QED
      BY Zenon, <1>6, <3>1, AdvanceKeeps
  <2> QED
    BY ZenonT(30), <2>1, <2>2
<1>10. EvidenceIsEarned'
  BY Zenon, <1>1, <1>6, AdvanceKeeps DEF CallbackInv
<1>11. \A j \in EventIds : inbox'[j].state = "APPLIED" => HadItsEffect(j, inbox[j].verdict)'
  BY Zenon, <1>5, <1>6, AdvanceKeeps
<1> QED
  BY <1>1, <1>6, <1>7, <1>8, <1>9, <1>10, <1>11, CallbacksStay DEF CallbackInv

LEMMA MarkAppliedInv ==
    ASSUME IInv, CallbackInv, NEW h \in Handlers, MarkApplied(h) PROVE CallbackInv'
<1>0. PICK i \in EventIds : i = handler[h].event
  BY HandlerTypes
<1>1. /\ handler[h].at = "mark" /\ inbox' = [inbox EXCEPT ![i].state = "APPLIED"]
      /\ handler' = [handler EXCEPT ![h] = Waiting]
      /\ UNCHANGED <<plan, attempt, call, submitted, evidence, crashes>>
  BY <1>0 DEF MarkApplied, Return, vars
<1>2. /\ inbox[i].state # "ABSENT" /\ inbox[i].verdict = handler[h].verdict
      /\ HadItsEffect(i, handler[h].verdict) /\ call[h].at = "idle"
  BY <1>0, <1>1, HandlerTypes DEF Relies
<1>3. Waiting \in HandlerStates /\ Waiting.at = "idle"
  BY WaitingRelies DEF Waiting
<1>4. inbox \in [EventIds -> InboxRows] /\ handler \in [Handlers -> HandlerStates]
  BY DEF CallbackInv, CallbackTypeOK
<1>5. /\ inbox' \in [EventIds -> InboxRows] /\ inbox'[i].state = "APPLIED"
      /\ inbox'[i].verdict = inbox[i].verdict
      /\ \A j \in EventIds : j # i => inbox'[j] = inbox[j]
  BY <1>1, <1>2, <1>4 DEF InboxRows
<1>6. Advances
  BY <1>1, <1>2, <1>5, InboxAdvances
<1>7. CallbackTypeOK'
  BY <1>1, <1>3, <1>4, <1>5 DEF CallbackInv, CallbackTypeOK
<1>8. InboxSpeaks'
  BY <1>2, <1>5 DEF CallbackInv, InboxSpeaks
<1>9. ASSUME NEW g \in Handlers PROVE Relies(handler[g], call[g])'
  <2>1. CASE g = h
    BY <1>1, <1>2, <1>3, <1>4, <2>1 DEF Relies
  <2>2. CASE g # h
    <3>1. handler'[g] = handler[g] /\ call'[g] = call[g] /\ Relies(handler[g], call[g])
      BY <1>1, <1>4, <2>2 DEF CallbackInv
    <3> QED
      BY <1>6, <3>1, AdvanceKeeps
  <2> QED
    BY <2>1, <2>2
<1>10. EvidenceIsEarned'
  BY <1>1, <1>6, AdvanceKeeps DEF CallbackInv
<1>11. \A j \in EventIds : inbox'[j].state = "APPLIED" => HadItsEffect(j, inbox[j].verdict)'
  <2>1. HadItsEffect(i, inbox[i].verdict)'
    BY ZenonT(30), <1>1, <1>2, <1>5 DEF HadItsEffect
  <2> QED
    BY <1>5, <1>6, <2>1, AdvanceKeeps
<1> QED
  BY <1>1, <1>6, <1>7, <1>8, <1>9, <1>10, <1>11, CallbacksStay DEF CallbackInv

LEMMA CommitSettlementInv ==
    ASSUME IInv, CallbackInv, NEW h \in Handlers, CommitSettlement(h) PROVE CallbackInv'
<1>0. PICK i \in EventIds : i = handler[h].event
  BY HandlerTypes
<1> DEFINE n == i[2]
<1>1. /\ handler[h].at = "commit" /\ UNCHANGED <<plan, attempt, call, submitted, inbox, crashes>>
      /\ evidence' = IF evidence = NoEvidence
                     THEN [rtt |-> handler[h].settled, callback |-> i] ELSE evidence
      /\ IF evidence'.callback = i THEN GoTo(h, "mark") ELSE Return(h)
  BY <1>0 DEF CommitSettlement, vars
<1>2. /\ n \in Rtts /\ i[1] \in {"RESULT", "TIMEOUT"} /\ i = <<i[1], n>>
      /\ inbox[i].state # "ABSENT" /\ inbox[i].verdict = "SUCCESS" /\ handler[h].verdict = "SUCCESS"
      /\ attempt[n].state = "SUCCEEDED" /\ handler[h].settled = n /\ call[h].at = "idle"
  BY <1>0, <1>1, HandlerTypes, EventParts DEF Relies
<1>3. i = <<"RESULT", n>> /\ plan.status = "FINALIZED"
  BY <1>2 DEF CallbackInv, InboxSpeaks, Contents, IInv, FinalizedBySuccess
<1>4. evidence' \in [rtt : Rtts, callback : EventIds] /\ evidence' # NoEvidence
  BY SMTT(40), <1>1, <1>2, EvidenceAssumption DEF CallbackInv, CallbackTypeOK
<1>5. Advances
  BY Zenon, <1>1 DEF Advances
<1>6. EvidenceIsEarned'
  <2>1. CASE evidence = NoEvidence
    <3>1. evidence'.rtt = n /\ evidence'.callback = i
      BY <1>1, <1>2, <2>1
    <3> QED
      BY <1>1, <1>2, <1>3, <3>1 DEF EvidenceIsEarned
  <2>2. CASE evidence # NoEvidence
    BY Zenon, <1>1, <1>5, <2>2, AdvanceKeeps DEF CallbackInv
  <2> QED
    BY <2>1, <2>2
<1>7. PICK s \in HandlerStates :
         /\ handler' = [handler EXCEPT ![h] = s]
         /\ \/ s.at = "idle"
            \/ s.at = "mark" /\ s.event = i /\ s.verdict = "SUCCESS" /\ evidence'.callback = i
  <2>1. CASE evidence'.callback = i
    <3> DEFINE t == [handler[h] EXCEPT !.at = "mark"]
    <3>1. t \in HandlerStates /\ t.at = "mark" /\ t.event = i /\ t.verdict = "SUCCESS"
      <4>1. handler[h] \in HandlerStates
        BY HandlerTypes
      <4> QED
        BY <1>0, <1>2, <4>1 DEF HandlerStates
    <3>2. handler' = [handler EXCEPT ![h] = t]
      BY <1>1, <2>1, HandlerTypes DEF GoTo
    <3> HIDE DEF t
    <3> QED
      BY ZenonT(30), <2>1, <3>1, <3>2
  <2>2. CASE evidence'.callback # i
    BY <1>1, <2>2, WaitingRelies DEF Return, Waiting
  <2> QED
    BY <2>1, <2>2
<1>8. handler \in [Handlers -> HandlerStates]
  BY DEF CallbackInv, CallbackTypeOK
<1>9. CallbackTypeOK'
  BY Zenon, <1>1, <1>4, <1>7, <1>8 DEF CallbackInv, CallbackTypeOK
<1>10. ASSUME NEW g \in Handlers PROVE Relies(handler[g], call[g])'
  <2>1. CASE g = h
    <3>1. handler'[h] = s /\ call'[h].at = "idle"
      BY <1>1, <1>2, <1>7, <1>8
    <3>2. CASE s.at = "idle"
      BY ZenonT(30), <2>1, <3>1, <3>2 DEF Relies
    <3>3. CASE s.at = "mark"
      BY ZenonT(30), <1>1, <1>2, <1>4, <1>7, <2>1, <3>1, <3>3 DEF Relies, HadItsEffect
    <3> QED
      BY <1>7, <3>2, <3>3
  <2>2. CASE g # h
    <3>1. handler'[g] = handler[g] /\ call'[g] = call[g] /\ Relies(handler[g], call[g])
      BY <1>1, <1>7, <1>8, <2>2 DEF CallbackInv
    <3> QED
      BY Zenon, <1>5, <3>1, AdvanceKeeps
  <2> QED
    BY <2>1, <2>2
<1>11. InboxSpeaks'
  BY ZenonT(30), <1>1 DEF CallbackInv, InboxSpeaks
<1>12. \A j \in EventIds : inbox'[j].state = "APPLIED" => HadItsEffect(j, inbox[j].verdict)'
  BY Zenon, <1>1, <1>5, AdvanceKeeps
<1> QED
  BY ZenonT(30), <1>1, <1>5, <1>6, <1>9, <1>10, <1>11, <1>12, CallbacksStay DEF CallbackInv

-----------------------------------------------------------------------------
(* Steps that change the tables *)

\* No step of the service forgets an outcome.
LEMMA TablesAdvance ==
    ASSUME IInv, TableStep, UNCHANGED <<inbox, evidence>> PROVE Advances
<1>1. /\ plan.status = "FINALIZED" => plan'.status = "FINALIZED"
      /\ \A n \in Rtts : attempt[n].state \in {"FAILED", "SUCCEEDED"} => attempt'[n] = attempt[n]
  BY ZenonT(30), OutcomesStay DEF TerminalStatus
<1>2. ASSUME NEW n \in Rtts, attempt[n].state \notin {"ABSENT", "CREATED"}
      PROVE  attempt'[n].state \notin {"ABSENT", "CREATED"}
  <2>1. CASE attempt' = attempt
    BY <1>2, <2>1
  <2>2. ASSUME NEW c \in Callers, CommitStart(c) PROVE attempt'[n] = attempt[n]
    <3>1. /\ attempt[plan.used + 1].state = "ABSENT"
          /\ \A m \in Rtts : m # plan.used + 1 => attempt'[m] = attempt[m]
      BY <2>2, CommitStartEffect
    <3> QED
      BY <1>2, <3>1
  <2>3. ASSUME NEW c \in Callers, CommitTransition(c)
        PROVE  attempt'[n].state \notin {"ABSENT", "CREATED"}
    <3>1. /\ \A m \in Rtts : m # call[c].rtt => attempt'[m] = attempt[m]
          /\ attempt'[call[c].rtt].state \in {"SUCCEEDED", "RECONCILIATION_REQUIRED", "FAILED"}
      BY ZenonT(30), <2>3, CommitTransitionEffect
    <3> QED
      BY ZenonT(30), <1>2, <3>1
  <2> QED
    BY ZenonT(30), <1>2, <2>1, <2>2, <2>3 DEF TableStep, BuildPlan
<1> QED
  BY <1>1, <1>2 DEF Advances

\* The parts of the invariant that a change of the tables cannot disturb.
LEMMA TablesKeep ==
    ASSUME IInv, CallbackInv, TableStep, UNCHANGED <<submitted, inbox, evidence, crashes>>,
           handler' \in [Handlers -> HandlerStates],
           \A h \in Handlers : Relies(handler[h], call[h])', OutcomeHasItsCallback'
    PROVE  CallbackInv'
<1>1. Advances
  BY TablesAdvance
<1>2. CallbackTypeOK' /\ InboxSpeaks'
  BY DEF CallbackInv, CallbackTypeOK, InboxSpeaks
<1>3. EvidenceIsEarned'
  BY <1>1, AdvanceKeeps DEF CallbackInv
<1>4. \A j \in EventIds : inbox'[j].state = "APPLIED" => HadItsEffect(j, inbox[j].verdict)'
  BY <1>1, AdvanceKeeps
<1> QED
  BY ZenonT(30), <1>2, <1>3, <1>4 DEF CallbackInv

LEMMA MethodCommitsInv ==
    ASSUME IInv, CallbackInv, NEW h \in Handlers, MethodCommits(h)
    PROVE  IInv' /\ CallbackInv' /\ TableStep
<1>0. PICK i \in EventIds, v \in Verdicts : i = handler[h].event /\ v = handler[h].verdict
  BY HandlerTypes
<1> DEFINE n == i[2]
           s == [handler[h] EXCEPT !.at = AfterOutcome(v)]
<1>1. /\ handler[h].at = "calling" /\ CommitTransition(h) /\ GoTo(h, AfterOutcome(v))
      /\ UNCHANGED <<submitted, inbox, evidence, crashes>> /\ h \in Callers
  BY <1>0, HandlerTypes DEF MethodCommits
<1>2. IInv' /\ TableStep
  BY <1>1, CommitTransitionInv DEF TableStep
<1>3. /\ n \in Rtts /\ i = <<i[1], n>> /\ i[1] \in {"RESULT", "TIMEOUT"}
      /\ call[h].rtt = n /\ call[h].verdict = v /\ inbox[i].state # "ABSENT" /\ inbox[i].verdict = v
  BY <1>0, <1>1, HandlerTypes, EventParts DEF Relies
<1>4. v \in Contents(i[1])
  BY <1>3 DEF CallbackInv, InboxSpeaks
<1>5. /\ attempt'[n].state = StateAfter(v) /\ call' = [call EXCEPT ![h] = Idle]
      /\ \A m \in Rtts : m # n => attempt'[m] = attempt[m]
  <2>1. attempt \in [Rtts -> Attempts]
    BY DEF IInv, TypeOK
  <2> QED
    BY <1>1, <1>3, <2>1 DEF CommitTransition, Attempts
<1>6. /\ v = "SUCCESS" => StateAfter(v) = "SUCCEEDED"
      /\ v = "RECONCILIATION_REQUIRED" => StateAfter(v) = "RECONCILIATION_REQUIRED"
      /\ v \in {"TERMINAL", "RETRYABLE"} => StateAfter(v) = "FAILED"
  BY DEF StateAfter
<1>7. Advances
  BY <1>1, <1>2, TablesAdvance
<1>8. OutcomeHasItsCallback'
  <2> SUFFICES ASSUME NEW m \in Rtts
               PROVE  /\ attempt'[m].state = "SUCCEEDED" =>
                            /\ inbox'[<<"RESULT", m>>].state # "ABSENT"
                            /\ inbox'[<<"RESULT", m>>].verdict = "SUCCESS"
                      /\ attempt'[m].state = "FAILED" =>
                            /\ inbox'[<<"RESULT", m>>].state # "ABSENT"
                            /\ inbox'[<<"RESULT", m>>].verdict # "SUCCESS"
                      /\ attempt'[m].state = "RECONCILIATION_REQUIRED" =>
                            inbox'[<<"TIMEOUT", m>>].state # "ABSENT"
    BY ZenonT(30) DEF OutcomeHasItsCallback
  <2>1. CASE m # n
    BY Zenon, <1>1, <1>5, <2>1 DEF CallbackInv, OutcomeHasItsCallback
  <2>2. CASE m = n
    <3>1. CASE v = "RECONCILIATION_REQUIRED"
      <4>1. i = <<"TIMEOUT", n>>
        BY <1>3, <1>4, <3>1 DEF Contents
      <4> QED
        BY <1>1, <1>3, <1>5, <1>6, <2>2, <3>1, <4>1
    <3>2. CASE v # "RECONCILIATION_REQUIRED"
      <4>1. i = <<"RESULT", n>>
        BY <1>3, <1>4, <3>2 DEF Contents
      <4>2. \/ StateAfter(v) = "SUCCEEDED" /\ v = "SUCCESS"
            \/ StateAfter(v) = "FAILED" /\ v # "SUCCESS"
        BY <1>6, <3>2 DEF Verdicts, Dispositions
      <4> QED
        BY <1>1, <1>3, <1>5, <2>2, <4>1, <4>2
    <3> QED
      BY <3>1, <3>2
  <2> QED
    BY <2>1, <2>2
<1>9. s \in HandlerStates /\ s.at = AfterOutcome(v) /\ s.event = i /\ s.verdict = v
  <2>1. handler[h] \in HandlerStates /\ AfterOutcome(v) \in {"settle", "mark"}
    BY HandlerTypes DEF AfterOutcome
  <2> QED
    BY <1>0, <2>1 DEF HandlerStates
<1>10. handler' = [handler EXCEPT ![h] = s] /\ handler \in [Handlers -> HandlerStates]
  BY <1>1, HandlerTypes DEF GoTo
<1>11. PICK t \in HandlerStates : t = s
  BY <1>9
<1> HIDE DEF s
<1>12. ASSUME NEW g \in Handlers PROVE Relies(handler[g], call[g])'
  <2>0. call \in [Callers -> Calls]
    BY DEF IInv, TypeOK
  <2>1. CASE g = h
    <3>1. handler'[h] = t /\ call'[h].at = "idle"
      BY ZenonT(30), <1>1, <1>5, <1>10, <1>11, <2>0 DEF Idle
    <3>2. CASE v = "SUCCESS"
      <4>1. t.at = "settle" /\ t.event = i /\ t.verdict = v
        BY <1>9, <1>11, <3>2 DEF AfterOutcome
      <4>2. attempt'[i[2]].state = "SUCCEEDED"
        BY ZenonT(30), <1>3, <1>5, <1>6, <3>2
      <4> QED
        BY ZenonT(30), <1>1, <1>3, <2>1, <3>1, <3>2, <4>1, <4>2 DEF Relies
    <3>3. CASE v # "SUCCESS"
      <4>1. t.at = "mark" /\ t.event = i /\ t.verdict = v
        BY <1>9, <1>11, <3>3 DEF AfterOutcome
      <4>2. HadItsEffect(i, v)'
        BY ZenonT(30), <1>5, <1>6, <3>3 DEF HadItsEffect, Verdicts, Dispositions
      <4> QED
        BY <1>1, <1>3, <2>1, <3>1, <4>1, <4>2 DEF Relies, HadItsEffect
    <3> QED
      BY ZenonT(30), <3>2, <3>3
  <2>2. CASE g # h
    <3>1. handler'[g] = handler[g] /\ call'[g] = call[g] /\ Relies(handler[g], call[g])
      BY <1>5, <1>10, <2>0, <2>2 DEF CallbackInv
    <3> QED
      BY Zenon, <1>7, <3>1, AdvanceKeeps
  <2> QED
    BY <2>1, <2>2
<1>13. handler' \in [Handlers -> HandlerStates]
  BY ZenonT(30), <1>9, <1>10
<1> QED
  BY <1>1, <1>2, <1>8, <1>12, <1>13, TablesKeep

LEMMA OrchestrateInv ==
    ASSUME IInv, CallbackInv, Orchestrate PROVE IInv' /\ CallbackInv' /\ TableStep
<1>1. UNCHANGED <<submitted, inbox, handler, evidence, crashes>>
  BY DEF Orchestrate, callbackVars
<1>2. [Next]_vars
  BY DEF Orchestrate, Next, Begin, Proceed
<1>3. IInv' /\ TableStep
  BY <1>2, StepInv, OtherStepsRead
<1>4. Advances
  BY ZenonT(30), <1>1, <1>3, TablesAdvance
<1>5. \A h \in Handlers : call'[h] = call[h]
  BY ZenonT(30) DEF Orchestrate, BuildPlan, StartNext, CommitStart, StartConflict, IInv, TypeOK
<1>6. \A h \in Handlers : Relies(handler[h], call[h])'
  BY ZenonT(30), <1>1, <1>4, <1>5, AdvanceKeeps DEF CallbackInv
<1>7. ASSUME NEW m \in Rtts PROVE attempt'[m] = attempt[m] \/ attempt'[m].state = "CREATED"
  <2>1. CASE attempt' = attempt
    BY <2>1
  <2>2. ASSUME NEW c \in Callers, CommitStart(c)
        PROVE  attempt'[m] = attempt[m] \/ attempt'[m].state = "CREATED"
    BY ZenonT(30), <2>2, CommitStartEffect
  <2> QED
    BY ZenonT(30), <2>1, <2>2 DEF Orchestrate, BuildPlan, StartNext, StartConflict
<1>8. OutcomeHasItsCallback'
  BY ZenonT(30), <1>1, <1>7 DEF CallbackInv, OutcomeHasItsCallback
<1> QED
  BY ZenonT(30), <1>1, <1>3, <1>6, <1>8, TablesKeep DEF CallbackInv, CallbackTypeOK

\* The tables stay and the handler's call is dropped, if it is inside one.
LEMMA DroppedInv ==
    ASSUME IInv, CallbackInv, NEW h \in Handlers,
           MethodRefuses(h) \/ MethodConflicts(h) \/ HandlerCrash(h)
    PROVE  IInv' /\ CallbackInv' /\ TableStep
<1>1. h \in Callers /\ crashes \in 0..MaxCrashes
  BY HandlerTypes
<1>2. /\ Return(h) /\ UNCHANGED <<plan, attempt, submitted, inbox, evidence>>
      /\ \/ call' = [call EXCEPT ![h] = Idle]
         \/ UNCHANGED call /\ handler[h].at # "calling"
  BY DEF MethodRefuses, MethodConflicts, TransitionConflict, HandlerCrash, vars
<1>3. crashes' \in 0..MaxCrashes
  <2>1. CASE HandlerCrash(h)
    <3>1. crashes < MaxCrashes /\ crashes' = crashes + 1
      BY ONLY <2>1 DEF HandlerCrash
    <3> QED
      BY ONLY <1>1, <3>1, HandlersAssumption
  <2>2. CASE MethodRefuses(h) \/ MethodConflicts(h)
    <3>1. crashes' = crashes
      BY ONLY <2>2 DEF MethodRefuses, MethodConflicts
    <3> QED
      BY ONLY <1>1, <3>1
  <2> QED
    BY <2>1, <2>2
<1>4. CallbackInv' /\ TableStep
  BY ZenonT(30), <1>2, <1>3, ReturnInv DEF TableStep
<1>5. CASE call' = [call EXCEPT ![h] = Idle]
  BY ZenonT(30), <1>1, <1>2, <1>4, <1>5, BackToIdle
<1>6. CASE UNCHANGED call
  BY <1>2, <1>4, <1>6, StepInv DEF vars
<1> QED
  BY <1>2, <1>4, <1>5, <1>6

LEMMA RestInv ==
    ASSUME IInv, CallbackInv,
           (\E n \in Rtts : SubmissionCompleted(n)) \/ AllDone \/ UNCHANGED allVars
    PROVE  IInv' /\ CallbackInv' /\ TableStep
<1>1. UNCHANGED <<plan, attempt, call, inbox, handler, evidence, crashes>> /\ submitted' \subseteq Rtts
  BY ZenonT(30) DEF SubmissionCompleted, AllDone, allVars, vars, callbackVars, CallbackInv, CallbackTypeOK
<1>2. IInv' /\ TableStep
  BY ZenonT(30), <1>1, StepInv DEF vars, TableStep
<1>3. CallbackTypeOK' /\ InboxSpeaks' /\ EvidenceIsEarned' /\ OutcomeHasItsCallback'
  BY ZenonT(30), <1>1 DEF CallbackInv, CallbackTypeOK, InboxSpeaks, EvidenceIsEarned, OutcomeHasItsCallback
<1>4. \A h \in Handlers : Relies(handler[h], call[h])'
  BY ZenonT(30), <1>1 DEF CallbackInv, Relies, HadItsEffect
<1>5. \A i \in EventIds : inbox'[i].state = "APPLIED" => HadItsEffect(i, inbox[i].verdict)'
  BY ZenonT(30), <1>1 DEF CallbackInv, HadItsEffect
<1> QED
  BY <1>2, <1>3, <1>4, <1>5 DEF CallbackInv

-----------------------------------------------------------------------------
(* Handlers decide as they should *)

LEMMA CallbackInitInv == CallbackInit => IInv /\ CallbackInv
<1> SUFFICES ASSUME CallbackInit PROVE IInv /\ CallbackInv
  OBVIOUS
<1>1. IInv
  BY InitInv DEF CallbackInit
<1>2. NoRow \in InboxRows /\ NoRow.state = "ABSENT"
  BY DEF NoRow, InboxRows, Verdicts
<1>3. CallbackTypeOK
  BY <1>2, WaitingRelies DEF CallbackInit, CallbackTypeOK
<1>4. \A i \in EventIds : inbox[i].state = "ABSENT"
  BY <1>2 DEF CallbackInit
<1>5. \A h \in Handlers : Relies(handler[h], call[h])
  BY ZenonT(30) DEF CallbackInit, Init, Waiting, Idle, Relies
<1>6. OutcomeHasItsCallback /\ EvidenceIsEarned
  BY DEF CallbackInit, Init, AbsentAttempt, OutcomeHasItsCallback, EvidenceIsEarned
<1> QED
  BY <1>1, <1>3, <1>4, <1>5, <1>6 DEF CallbackInv, InboxSpeaks

LEMMA CallbackStep ==
    IInv /\ CallbackInv /\ [CallbackNext]_allVars => IInv' /\ CallbackInv' /\ TableStep
<1> SUFFICES ASSUME IInv, CallbackInv, [CallbackNext]_allVars
             PROVE  IInv' /\ CallbackInv' /\ TableStep
  OBVIOUS
<1>1. CASE Orchestrate
  BY <1>1, OrchestrateInv
<1>2. CASE (\E n \in Rtts : SubmissionCompleted(n)) \/ AllDone \/ UNCHANGED allVars
  BY <1>2, RestInv
<1>3. ASSUME NEW h \in Handlers, UNCHANGED vars, CallbackInv' PROVE IInv' /\ CallbackInv' /\ TableStep
  BY <1>3, StepInv DEF vars, TableStep
<1>4. ASSUME NEW h \in Handlers, Callback(h) \/ HandlerProceeds(h) \/ HandlerCrash(h)
      PROVE  IInv' /\ CallbackInv' /\ TableStep
  <2>1. CASE Callback(h)
    <3>1. CallbackInv' /\ UNCHANGED vars
      BY ZenonT(30), <2>1, IngestInv DEF Callback, Ingest
    <3> QED
      BY ZenonT(30), <1>3, <3>1
  <2>2. CASE ReadOutcome(h) \/ ReadSettled(h) \/ CommitSettlement(h) \/ MarkApplied(h)
    <3>1. CallbackInv'
      BY <2>2, ReadOutcomeInv, ReadSettledInv, CommitSettlementInv, MarkAppliedInv
    <3>2. UNCHANGED vars
      BY ZenonT(30), <2>2 DEF ReadOutcome, ReadSettled, CommitSettlement, MarkApplied
    <3> QED
      BY <1>3, <3>1, <3>2
  <2>3. CASE EnterMethod(h) \/ MethodReadsPlan(h)
    BY ZenonT(30), <2>3, EnterMethodInv, MethodReadsPlanInv
       DEF TableStep, EnterMethod, ReadAttempt, MethodReadsPlan, ReadPlan
  <2>4. CASE MethodCommits(h)
    BY <2>4, MethodCommitsInv
  <2>5. CASE MethodRefuses(h) \/ MethodConflicts(h) \/ HandlerCrash(h)
    BY <2>5, DroppedInv
  <2> QED
    BY <1>4, <2>1, <2>2, <2>3, <2>4, <2>5 DEF HandlerProceeds
<1> QED
  BY <1>1, <1>2, <1>4 DEF CallbackNext

\* Under any callbacks, handlers and crashes the plan's invariant and what the
\* handlers rely on hold throughout.
THEOREM CallbackInvariant == CallbackSpec => [](IInv /\ CallbackInv)
BY CallbackInitInv, CallbackStep, PTL DEF CallbackSpec

\* The couriers leave the handlers and the tables alone.
THEOREM SettlementImplementsCallbacks == SettlementSpec => CallbackSpec
<1>1. SettlementInit => CallbackInit
  BY DEF SettlementInit
<1>2. [SettlementNext]_settlementVars => [CallbackNext]_allVars
  BY DEF SettlementNext, Deciding, Delivering, settlementVars
<1> QED
  BY <1>1, <1>2, PTL DEF SettlementSpec, CallbackSpec

\* Evidence is written only for the attempt that succeeded and with the callback
\* that reported it, though confirm_provider_settlement never compares the two.
THEOREM EvidenceEarned == SettlementSpec => []EvidenceIsEarned
<1>1. CallbackInv => EvidenceIsEarned
  BY DEF CallbackInv
<1> QED
  BY <1>1, CallbackInvariant, SettlementImplementsCallbacks, PTL

\* A crash before mark_applied loses nothing: what is APPLIED had its effect.
THEOREM AppliedMeansDone == SettlementSpec => []AppliedHadItsEffect
<1>1. CallbackInv => AppliedHadItsEffect
  <2> SUFFICES ASSUME CallbackInv PROVE AppliedHadItsEffect
    OBVIOUS
  <2>1. \A i \in EventIds : inbox[i].verdict \in Verdicts
    BY DEF CallbackInv, CallbackTypeOK, InboxRows
  <2>2. \A i \in EventIds : inbox[i].state = "APPLIED" => HadItsEffect(i, inbox[i].verdict)
    BY DEF CallbackInv
  <2> QED
    BY <2>1, <2>2 DEF AppliedHadItsEffect, HadItsEffect, Verdicts, Dispositions
<1> QED
  BY <1>1, CallbackInvariant, SettlementImplementsCallbacks, PTL

\* No repeated, late or contradictory callback decides an attempt differently
\* from the callback on record.
THEOREM OutcomesAreBacked == SettlementSpec => []OutcomeHasItsCallback
<1>1. CallbackInv => OutcomeHasItsCallback
  BY DEF CallbackInv
<1> QED
  BY <1>1, CallbackInvariant, SettlementImplementsCallbacks, PTL

\* With callbacks and crashes of their handlers the plan still keeps to one route
\* at a time.
THEOREM SettlementRefinement == SettlementSpec => ImplementsRouteByRoute
<1>1. CallbackInit => Contract!Init
  BY ContractBegins DEF CallbackInit
<1>2. IInv /\ CallbackInv /\ [CallbackNext]_allVars => [Contract!Next]_Contract!abstractVars
  BY CallbackStep, ContractStep
<1> QED
  BY <1>1, <1>2, CallbackInvariant, SettlementImplementsCallbacks, PTL
     DEF CallbackSpec, ImplementsRouteByRoute, Contract!Spec

\* And no callback, however late, and no crash changes a confirmed outcome.
THEOREM SettlementFinality == SettlementSpec => OutcomesAreFinal
<1> DEFINE A == /\ plan.status \in TerminalStatus => UNCHANGED <<plan, attempt>>
                /\ \A n \in Rtts : attempt[n].state \in {"FAILED", "SUCCEEDED"} =>
                      attempt'[n] = attempt[n]
<1>1. IInv /\ CallbackInv /\ [CallbackNext]_allVars => [A]_vars
  BY CallbackStep, OutcomesStay
<1> QED
  BY <1>1, CallbackInvariant, SettlementImplementsCallbacks, PTL
     DEF CallbackSpec, OutcomesAreFinal

\* All of it holds throughout: the tables, the handlers and the couriers.
THEOREM SettlementInvariant == SettlementSpec => [](IInv /\ CallbackInv /\ SmsInv)
BY CallbackInvariant, SettlementImplementsCallbacks, MessagesInvariant, PTL

\* Nobody is sent an SMS about a settlement that did not happen.
THEOREM SmsIsTrue == SettlementSpec => []SmsTellsTheTruth
<1>1. CallbackInv /\ SmsInv => SmsTellsTheTruth
  <2> SUFFICES ASSUME CallbackInv, SmsInv, NEW i \in Notifications, gateway[i].calls > 0
               PROVE  /\ plan.status = "FINALIZED"
                      /\ \E n \in Rtts : /\ attempt[n].state = "SUCCEEDED"
                                         /\ inbox[<<"RESULT", n>>].state # "ABSENT"
                                         /\ inbox[<<"RESULT", n>>].verdict = "SUCCESS"
    BY DEF SmsTellsTheTruth
  <2>1. evidence # NoEvidence
    BY DEF SmsInv, CalledOnce, Once
  <2>2. evidence.rtt \in Rtts
    BY <2>1 DEF CallbackInv, CallbackTypeOK
  <2> QED
    BY <2>1, <2>2 DEF CallbackInv, EvidenceIsEarned
<1> QED
  BY <1>1, SettlementInvariant, PTL
=============================================================================
