--------------------------- MODULE MCTraceEvaluator ---------------------------
(* The whole suite.  The added events are the ones whose presence the       *)
(* evaluator's rules turn on.                                               *)
EXTENDS TraceEvaluator

Pilot == Scenarios

MCInjected == {"PROVIDER_DISPATCHED", "OUTCOME_UNKNOWN",
               "EXTERNAL_EVIDENCE_VERIFIED", "RTT_SUCCEEDED", "SMS_PREPARED"}
===============================================================================
