-------------------------- MODULE MCSandboxEffects --------------------------
(* SandboxEffects on one or two workers. *)
EXTENDS SandboxEffects, TLC

Symmetry == Permutations(Workers)
=============================================================================
