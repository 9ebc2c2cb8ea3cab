-------------------------- MODULE MCCertificationRun --------------------------
(* Two calls that may name the same run or two runs, a suite of two cases   *)
(* and a scenario outside it.                                               *)
EXTENDS CertificationRun, TLC

\* Calls, runs and adapters are interchangeable.
Symmetry == Permutations(Calls) \cup Permutations(Runs) \cup Permutations(Adapters)
MCUnasked == {"ADAPTER_VERSION_PIN"}
MCSuite == <<"P2P_SETTLED", "SMS_FINALITY_GATE">>
===============================================================================
