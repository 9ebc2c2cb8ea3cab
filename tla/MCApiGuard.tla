---------------------------- MODULE MCApiGuard ----------------------------
(* Two tokens of one principal, the second of which expires early. *)
EXTENDS ApiGuard

CONSTANTS t1, t2, ann

MCPrincipalOf == [t \in Tokens |-> ann]
MCExpiresAt == [t \in Tokens |-> IF t = t2 THEN 1 ELSE 5]
=============================================================================
