-------------------------- MODULE MCEventDelivery --------------------------
(* EventDelivery on one submission and two relay workers.  The RTT stays    *)
(* open: closing it only keeps further dispatches from starting, which      *)
(* MCAdapterDispatch explores, and changes no event that was written.       *)
EXTENDS EventDelivery, TLC

MCProviderOf == [a \in Adapters |-> "bank"]
MCRouteProvider == [n \in RttIds |-> "bank"]
MCRefOf == [b \in Builds |-> "bank@1"]
MCPinned == [n \in RttIds |-> "bank@1"]

RttStaysOpen == \A n \in RttIds : rttState[n] = "CREATED"

Symmetry == Permutations(Workers)
=============================================================================
