---------------------------- MODULE PartnerStart ----------------------------
(***************************************************************************)
(* start_next over the partner directory (railone_partners/store.py or     *)
(* railone_postgres/partners.py).  Before it looks at the plan, start_next *)
(* validates the payer's and then the beneficiary's account endpoint, each *)
(* in a transaction of its own, and operations may suspend, revoke or      *)
(* reactivate a binding between any two of these steps.  The institution,  *)
(* role, currency and snapshot of a binding do not change, so validation   *)
(* turns on its status alone.                                              *)
(***************************************************************************)
EXTENDS ExecutionPlan

CONSTANTS MaxChanges       \* bound: changes of a binding's status

ASSUME ChangesAssumption == MaxChanges \in Nat

VARIABLES
    active,      \* the parties whose account binding is ACTIVE
    checking,    \* the party whose endpoint a call of start_next validates next
    inactive,    \* those whose binding was never ACTIVE since that call began
    changes

partnerVars == <<active, checking, inactive, changes>>
allVars == <<vars, partnerVars>>

Parties == {"payer", "beneficiary"}

PartnerTypeOK ==
    /\ active \subseteq Parties
    /\ checking \in [Callers -> Parties \cup {"none", "both valid"}]
    /\ inactive \in [Callers -> SUBSET Parties]
    /\ changes \in 0..MaxChanges

PartnerInit ==
    /\ Init
    /\ active = Parties
    /\ checking = [c \in Callers |-> "none"]
    /\ inactive = [c \in Callers |-> {}]
    /\ changes = 0

-----------------------------------------------------------------------------
(* The directory *)

\* set_binding_status to SUSPENDED or REVOKED, or to ACTIVE.
SetBindingStatus(p) ==
    /\ changes < MaxChanges
    /\ changes' = changes + 1
    /\ \/ p \in active /\ active' = active \ {p} /\ UNCHANGED inactive
       \/ /\ p \notin active /\ active' = active \cup {p}
          /\ inactive' = [c \in Callers |-> inactive[c] \ {p}]
    /\ UNCHANGED <<vars, checking>>

-----------------------------------------------------------------------------
(* start_next *)

Outside(c) == call[c].at = "idle" /\ checking[c] = "none"

EnterStart(c) ==
    /\ Outside(c)
    /\ checking' = [checking EXCEPT ![c] = "payer"]
    /\ inactive' = [inactive EXCEPT ![c] = Parties \ active]
    /\ UNCHANGED <<vars, active, changes>>

\* start_next raises: the call is over and has written nothing.
Raise(c) ==
    /\ checking' = [checking EXCEPT ![c] = "none"]
    /\ inactive' = [inactive EXCEPT ![c] = {}]
    /\ UNCHANGED <<vars, active, changes>>

\* A variant that validates the payer's endpoint only.
AfterPayerOnly(p) == "both valid"

\* What is validated after the endpoint of p.
After(p) == IF p = "payer" THEN "beneficiary" ELSE "both valid"

\* validate_endpoint of the payer, then of the beneficiary.
ValidateEndpoint(c) ==
    /\ checking[c] \in Parties
    /\ IF checking[c] \in active
       THEN /\ checking' = [checking EXCEPT ![c] = After(@)]
            /\ UNCHANGED <<vars, active, inactive, changes>>
       ELSE Raise(c)

\* require_plan_for_utt and the guards on the plan.
ReadPlanToStart(c) ==
    /\ checking[c] = "both valid"
    /\ \/ /\ StartNext(c)
          /\ checking' = [checking EXCEPT ![c] = "none"]
          /\ UNCHANGED <<active, inactive, changes>>
       \/ ~MayStart(plan) /\ Raise(c)

\* commit_start, and the steps of the other methods.
Continue(c) ==
    /\ Proceed(c)
    /\ inactive' = [inactive EXCEPT ![c] = {}]
    /\ UNCHANGED <<active, checking, changes>>

Record(c) == Outside(c) /\ (RecordFailure(c) \/ RecordSuccess(c)) /\ UNCHANGED partnerVars
Resolve(c) == Outside(c) /\ ResolveReconciliation(c) /\ UNCHANGED partnerVars
Plan == BuildPlan /\ UNCHANGED partnerVars

-----------------------------------------------------------------------------
(* Specification *)

Steps(c) == ValidateEndpoint(c) \/ ReadPlanToStart(c) \/ Continue(c)

PartnerNext ==
    \/ Plan
    \/ \E p \in Parties : SetBindingStatus(p)
    \/ \E c \in Callers : EnterStart(c) \/ Steps(c) \/ Record(c) \/ Resolve(c)

PartnerSpec == PartnerInit /\ [][PartnerNext]_allVars

\* A method that was entered runs to its end, an accepted UTT is planned, the
\* orchestrator keeps calling start_next, and the report of an open attempt, or
\* its resolution, is repeated until a call takes it.
FairPartnerSpec ==
    /\ PartnerSpec
    /\ WF_allVars(Plan)
    /\ \A c \in Callers :
          /\ WF_allVars(Steps(c))
          /\ SF_allVars(EnterStart(c))
          /\ SF_allVars(Record(c))
          /\ SF_allVars(Resolve(c))

-----------------------------------------------------------------------------
(* Properties *)

\* A call of start_next that is about to open an attempt has found each of the
\* two bindings ACTIVE since it began: a binding revoked before the call, and
\* not reactivated while it ran, opens no attempt, whatever was read before.
StartsSawActiveBindings ==
    \A c \in Callers : call[c].at = "start" => inactive[c] = {}

\* Every accepted UTT that was planned is decided in the end, unless the binding
\* of a party stays inactive: then its plan stays ACTIVE and undecided.
DecidedUnlessInactive ==
    <>[](active = Parties) => <>(plan.status \in TerminalStatus)
=============================================================================
