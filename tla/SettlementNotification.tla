----------------------- MODULE SettlementNotification -----------------------
(***************************************************************************)
(* From a provider's callback to the SMS of payer and beneficiary: the     *)
(* handlers of CallbackSettlement commit the evidence with its two         *)
(* notifications in one transaction (commit_settlement), and the couriers  *)
(* of SmsDelivery deliver what is on record.  The rows of sms exist from   *)
(* the moment evidence does.                                               *)
(***************************************************************************)
EXTENDS CallbackSettlement

CONSTANTS Notifications, Couriers, MaxCourierCrashes

ASSUME CouriersAssumption == MaxCourierCrashes \in Nat

VARIABLES sms, courier, gateway, courierCrashes

smsVars == <<sms, courier, gateway, courierCrashes>>
settlementVars == <<allVars, smsVars>>

Sms == INSTANCE SmsDelivery WITH
          MaxCrashes <- MaxCourierCrashes, crashes <- courierCrashes

SettlementTypeOK == CallbackTypeOK /\ Sms!TypeOK

SettlementInit == CallbackInit /\ Sms!Init

\* A variant that inserts the notifications before their evidence, not with it.
AnyRows == TRUE

\* require_notification finds the rows commit_settlement inserted.
RowsExist == evidence # NoEvidence

Deciding == CallbackNext /\ UNCHANGED smsVars

Delivering(c) ==
    /\ RowsExist
    /\ Sms!Deliver(c) \/ Sms!Proceed(c) \/ Sms!Crash(c)
    /\ UNCHANGED allVars

SettlementNext == Deciding \/ \E c \in Couriers : Delivering(c)

SettlementSpec == SettlementInit /\ [][SettlementNext]_settlementVars

-----------------------------------------------------------------------------
(* Properties *)

\* The gateway receives an SMS only when the plan is FINALIZED by an attempt
\* whose own callback reported success: no race of handlers, repeated callback
\* or crash lets a customer be told of a settlement that did not happen.
SmsTellsTheTruth ==
    (\E i \in Notifications : gateway[i].calls > 0) =>
        /\ plan.status = "FINALIZED"
        /\ \E n \in Rtts : /\ attempt[n].state = "SUCCEEDED"
                           /\ inbox[<<"RESULT", n>>].state # "ABSENT"
                           /\ inbox[<<"RESULT", n>>].verdict = "SUCCESS"

\* deliver() keeps the one-shot contract for every message while handlers
\* are still at work.
ImplementsOneShot == Sms!ImplementsOneShot
=============================================================================
