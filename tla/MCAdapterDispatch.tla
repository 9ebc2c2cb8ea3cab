-------------------------- MODULE MCAdapterDispatch --------------------------
(***************************************************************************)
(* One RTT that pins "bank@1", of which there are two builds, "p" and "r", *)
(* neither idempotent.  "q" is an idempotent build of "bank@2", and "m" a  *)
(* direct adapter of another provider.  The first process may come back    *)
(* from a restart with the other build of the pinned reference; the second *)
(* has that build and the other version.                                   *)
(***************************************************************************)
EXTENDS AdapterDispatch

CONSTANTS d1, d2

MCRefOf == [b \in Builds |-> IF b = "q" THEN "bank@2" ELSE "bank@1"]
MCProviderOf == [a \in Adapters |-> IF a = "m" THEN "mpesa" ELSE "bank"]
MCOffered == [d \in Dispatchers |-> IF d = d1 THEN {"p", "r"} ELSE {"r", "q"}]
MCRouteProvider == [n \in RttIds |-> "bank"]
MCPinned == [n \in RttIds |-> "bank@1"]
=============================================================================
