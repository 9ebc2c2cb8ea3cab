----------------------- MODULE MCTransactionHistory -----------------------
(* u1 and u2 are P2P payments accepted in the same second, u2 of a person   *)
(* to themselves; u3 comes from a merchant with a human authorizer.         *)
EXTENDS TransactionHistory

CONSTANTS u1, u2, u3, ann, shop

MCAcceptedAt == [u \in Utts |-> IF u = u3 THEN 2 ELSE 1]
MCRank == [u \in Utts |-> CASE u = u1 -> 1 [] u = u2 -> 2 [] u = u3 -> 3]
MCContext == [u \in Utts |-> IF u = u3 THEN "MERCHANT" ELSE "P2P"]
MCOrigin == [u \in Utts |-> [continuity_uid |-> ann, branch_id |-> Nobody, partner_id |-> Nobody,
                             merchant_id |-> IF u = u3 THEN shop ELSE Nobody]]
MCPayer == [u \in Utts |-> IF u = u3 THEN shop ELSE ann]
MCBeneficiary == [u \in Utts |-> IF u = u2 THEN ann ELSE Nobody]

Own(subject) == [subjects |-> {subject}, privileged |-> FALSE, reason |-> FALSE]
Operator(reason) == [subjects |-> {}, privileged |-> TRUE, reason |-> reason]
MCScopes == {Own(ann), Own(shop), Operator(TRUE), Operator(FALSE)}
=============================================================================
