------------------------------ MODULE OneShot ------------------------------
(***************************************************************************)
(* What a guarded call to an outside party promises when the party cannot  *)
(* recognise a repeated request: it is called at most once for each key,   *)
(* and the verdict that is recorded is given once and is never untrue.     *)
(* The call may still be on its way when the verdict UNKNOWN is recorded.  *)
(***************************************************************************)
EXTENDS Naturals

CONSTANT Keys

VARIABLES
    calls,     \* how often the outside party was called
    fate,      \* what it made of the request
    verdict    \* what is on record

contractVars == <<calls, fate, verdict>>

Init ==
    /\ calls = [k \in Keys |-> 0]
    /\ fate = [k \in Keys |-> "none"]
    /\ verdict = [k \in Keys |-> "none"]

Call(k) ==
    /\ calls[k] = 0
    /\ calls' = [calls EXCEPT ![k] = 1]
    /\ \E f \in {"none", "ACCEPTED", "REJECTED"} : fate' = [fate EXCEPT ![k] = f]
    /\ UNCHANGED verdict

Conclude(k) ==
    /\ verdict[k] = "none"
    /\ \E v \in {"UNKNOWN"} \cup ({fate[k]} \ {"none"}) :
          verdict' = [verdict EXCEPT ![k] = v]
    /\ UNCHANGED <<calls, fate>>

Next == \E k \in Keys : Call(k) \/ Conclude(k)

Spec == Init /\ [][Next]_contractVars
=============================================================================
