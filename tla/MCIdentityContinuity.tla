------------------------ MODULE MCIdentityContinuity ------------------------
(* One subject: identities share nothing but the uniqueness of attestations. *)
EXTENDS IdentityContinuity

CONSTANT ann

MCSubjectOf == [a \in Attestations |-> ann]
=============================================================================
