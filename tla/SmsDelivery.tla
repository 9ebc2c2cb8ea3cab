---------------------------- MODULE SmsDelivery ----------------------------
(***************************************************************************)
(* Delivery of the settlement SMS: SmsOutboxRelay.deliver in               *)
(* railone_notifications/service.py over railone_notifications/store.py or *)
(* railone_postgres/notifications.py.  A courier is a thread or process    *)
(* inside deliver(); the gateway is external and is never called twice.    *)
(***************************************************************************)
EXTENDS Integers

CONSTANTS
    Notifications,   \* the rows commit_settlement inserted
    Couriers,        \* concurrent calls of deliver
    MaxCrashes       \* bound on courier crashes

VARIABLES
    sms,       \* the sms_notification_outbox rows
    courier,   \* where each deliver() call is and what it has read
    gateway,   \* external: messages received and what became of them
    crashes    \* how often a courier crashed

vars == <<sms, courier, gateway, crashes>>

FinalStates == {"SENT", "REJECTED", "UNKNOWN"}
Records == [state : {"PREPARED", "DISPATCHING"} \cup FinalStates, version : Nat]

TypeOK ==
    /\ sms \in [Notifications -> Records]
    /\ courier \in [Couriers -> [at : {"idle", "dispatch", "send", "finish"},
                                 id : Notifications, read : Records,
                                 result : FinalStates]]
    /\ gateway \in [Notifications -> [calls : Nat, fate : {"none", "SENT", "REJECTED"}]]
    /\ crashes \in 0..MaxCrashes

Prepared == [state |-> "PREPARED", version |-> 1]

Init ==
    /\ sms = [i \in Notifications |-> Prepared]
    /\ courier \in [Couriers -> [at : {"idle"}, id : Notifications, read : {Prepared},
                                 result : {"UNKNOWN"}]]
    /\ gateway = [i \in Notifications |-> [calls |-> 0, fate |-> "none"]]
    /\ crashes = 0

-----------------------------------------------------------------------------
(* Steps of a courier *)

Leave(c) ==
    courier' = [courier EXCEPT ![c].at = "idle", ![c].read = Prepared,
                               ![c].result = "UNKNOWN"]

\* A variant that sends again after a crash.
ResendInterrupted(state) == "dispatch"

\* A message found DISPATCHING is given up as UNKNOWN.
AfterRead(state) == IF state = "PREPARED" THEN "dispatch" ELSE "finish"

\* deliver() reads the row; a final one is returned.
Deliver(c) ==
    \E i \in Notifications :
        /\ courier[c].at = "idle"
        /\ sms[i].state \notin FinalStates
        /\ courier' = [courier EXCEPT ![c] =
                         [at |-> AfterRead(sms[i].state), id |-> i, read |-> sms[i],
                          result |-> "UNKNOWN"]]
        /\ UNCHANGED <<sms, gateway, crashes>>

\* A variant without the compare-and-set.
MayAlwaysWrite(c) == TRUE

\* transition_notification: the version read is still the stored one and, in
\* the database, the row is not final.
MayWrite(c) ==
    /\ sms[courier[c].id].version = courier[c].read.version
    /\ sms[courier[c].id].state \notin FinalStates

StartSending(c) ==
    LET row == [state |-> "DISPATCHING", version |-> courier[c].read.version + 1]
    IN  /\ courier[c].at = "dispatch"
        /\ MayWrite(c)
        /\ sms' = [sms EXCEPT ![courier[c].id] = row]
        /\ courier' = [courier EXCEPT ![c].at = "send", ![c].read = row]
        /\ UNCHANGED <<gateway, crashes>>

\* The contact cannot be resolved: the gateway is not called.
NoDestination(c) ==
    /\ courier[c].at = "send"
    /\ courier' = [courier EXCEPT ![c].at = "finish"]
    /\ UNCHANGED <<sms, gateway, crashes>>

\* What gateway.send reports: the fate, or it raises.
Reports(fate) == {"UNKNOWN"} \cup ({fate} \ {"none"})

Send(c) ==
    LET i == courier[c].id
    IN  /\ courier[c].at = "send"
        /\ \E fate \in {"none", "SENT", "REJECTED"} :
              /\ gateway' = [gateway EXCEPT ![i] =
                               [calls |-> @.calls + 1,
                                fate |-> IF fate = "none" THEN @.fate ELSE fate]]
              /\ \E result \in Reports(fate) :
                    courier' = [courier EXCEPT ![c].at = "finish", ![c].result = result]
        /\ UNCHANGED <<sms, crashes>>

\* _finish()
Finish(c) ==
    /\ courier[c].at = "finish"
    /\ MayWrite(c)
    /\ sms' = [sms EXCEPT ![courier[c].id] =
                 [state |-> courier[c].result, version |-> courier[c].read.version + 1]]
    /\ Leave(c)
    /\ UNCHANGED <<gateway, crashes>>

Conflict(c) ==
    /\ courier[c].at \in {"dispatch", "finish"}
    /\ ~MayWrite(c)
    /\ Leave(c)
    /\ UNCHANGED <<sms, gateway, crashes>>

Crash(c) ==
    /\ courier[c].at # "idle"
    /\ crashes < MaxCrashes
    /\ crashes' = crashes + 1
    /\ Leave(c)
    /\ UNCHANGED <<sms, gateway>>

-----------------------------------------------------------------------------
(* Specification *)

Proceed(c) ==
    StartSending(c) \/ NoDestination(c) \/ Send(c) \/ Finish(c) \/ Conflict(c)

\* Every message has an outcome and no deliver() is under way.
Done ==
    /\ \A i \in Notifications : sms[i].state \in FinalStates
    /\ \A c \in Couriers : courier[c].at = "idle"
    /\ UNCHANGED vars

Next == (\E c \in Couriers : Deliver(c) \/ Proceed(c) \/ Crash(c)) \/ Done

Spec == Init /\ [][Next]_vars

-----------------------------------------------------------------------------
(* Properties *)

\* deliver() keeps the one-shot contract for every message: concurrent couriers
\* and crashes never make the gateway receive it twice, and SENT, REJECTED or
\* UNKNOWN is recorded once and truthfully.
GatewayContract ==
    INSTANCE OneShot WITH
        Keys <- Notifications,
        calls <- [i \in Notifications |-> gateway[i].calls],
        fate <- [i \in Notifications |->
                   IF gateway[i].fate = "SENT" THEN "ACCEPTED" ELSE gateway[i].fate],
        verdict <- [i \in Notifications |->
                      CASE sms[i].state = "SENT" -> "ACCEPTED"
                        [] sms[i].state \in {"REJECTED", "UNKNOWN"} -> sms[i].state
                        [] OTHER -> "none"]

\* The one-shot contract of every settlement SMS.
ImplementsOneShot == GatewayContract!Spec

=============================================================================
