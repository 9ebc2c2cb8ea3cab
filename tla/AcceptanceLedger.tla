-------------------------- MODULE AcceptanceLedger --------------------------
(***************************************************************************)
(* What the contract store promises of quote acceptance: an idempotency    *)
(* key is bound once, to one contract; a quote is sold once; a caller is   *)
(* only ever told the contract its key is bound to.                        *)
(*                                                                         *)
(* InMemoryContractStore.commit_acceptance is this specification run under *)
(* one lock.                                                               *)
(***************************************************************************)
CONSTANTS
    Keys,       \* idempotency keys
    Contracts,  \* accepted contracts: the request and the time of acceptance
    NoContract, \* not a contract
    Quote(_)    \* the quote a contract sells

VARIABLES
    bound,      \* the contract each key is bound to, if any
    told        \* the pairs of key and contract callers were given

ledgerVars == <<bound, told>>

Init ==
    /\ bound = [k \in Keys |-> NoContract]
    /\ told = {}

Bind(k, contract) ==
    /\ bound[k] = NoContract
    /\ \A j \in Keys : bound[j] # NoContract => Quote(bound[j]) # Quote(contract)
    /\ bound' = [bound EXCEPT ![k] = contract]
    /\ UNCHANGED told

Tell(k) ==
    /\ bound[k] # NoContract
    /\ told' = told \cup {<<k, bound[k]>>}
    /\ UNCHANGED bound

Next ==
    \E k \in Keys : Tell(k) \/ \E contract \in Contracts : Bind(k, contract)

Spec == Init /\ [][Next]_ledgerVars
=============================================================================
