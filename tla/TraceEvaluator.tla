---------------------------- MODULE TraceEvaluator ----------------------------
(***************************************************************************)
(* The judgement of a partner certification trace.  A driver executes one  *)
(* scenario against the partner's sandbox and returns the events it saw;   *)
(* CertificationTraceEvaluator.evaluate compares them with a table of      *)
(* expectations and with invariants common to all scenarios.               *)
(*                                                                         *)
(* The evaluator is a pure function.  The state machine around it starts   *)
(* from the conforming trace of a scenario (the reference driver's) and    *)
(* lets the system under test misbehave: it omits, adds or reorders an     *)
(* event, loses an evidence hash, changes or leaves out an identity (both  *)
(* are optional in an event), or reports an event with an earlier instant. *)
(* The properties say which misbehaviour a passing verdict excludes.       *)
(*                                                                         *)
(* An event keeps what evaluate reads: type, actor scope, UTT and RTT      *)
(* identities, presence of an evidence hash, instant.  Event content       *)
(* identifiers include the sequence number, so they never collide here.    *)
(***************************************************************************)
EXTENDS Integers, Sequences, FiniteSets, FiniteSetsExt

CONSTANTS Judged,     \* the scenarios of the certification suite
          MaxEdits,   \* deviations from the conforming trace
          Injected    \* event types the system under test may add

VARIABLES scenario, trace, edits

traceVars == <<scenario, trace, edits>>

Settled == {"P2P_SETTLED", "MERCHANT_SUPPLIER_SETTLED", "CROSS_BORDER_SETTLED"}

Scenarios == Settled \cup
    {"DUPLICATE_SUBMISSION", "UNKNOWN_THEN_RECONCILED",
     "TAMPERED_CALLBACK_REJECTED", "DUPLICATE_CALLBACK_EXACTLY_ONCE",
     "SETTLEMENT_AMOUNT_MISMATCH_REJECTED", "HISTORY_ACCESS_CONTROL",
     "SMS_FINALITY_GATE", "ADAPTER_VERSION_PIN"}

EventTypes ==
    {"INTENT_ACCEPTED", "UTT_CREATED", "FX_QUOTE_BOUND", "HISTORY_INDEXED",
     "PLAN_CREATED", "RTT_CREATED", "ADAPTER_BINDING_VERIFIED",
     "ADAPTER_BINDING_MISMATCH_REJECTED", "PROVIDER_DISPATCHED",
     "PROVIDER_ACCEPTED", "IDEMPOTENT_REPLAY_RETURNED", "OUTCOME_UNKNOWN",
     "RECONCILIATION_REQUIRED", "CALLBACK_ACCEPTED", "CALLBACK_REJECTED",
     "EXTERNAL_EVIDENCE_VERIFIED", "EXTERNAL_EVIDENCE_REJECTED",
     "RTT_SUCCEEDED", "RTT_FAILED", "PLAN_FINALIZED",
     "SMS_BLOCKED_BEFORE_FINALITY", "SMS_SENT",
     "SMS_PREPARED", "HISTORY_READ_ALLOWED", "HISTORY_READ_DENIED"}

ASSUME JudgedAssumption == Judged \subseteq Scenarios
ASSUME EditsAssumption == MaxEdits \in Nat /\ Injected \subseteq EventTypes

Scopes == {"SENDER", "RECEIVER", "MERCHANT", "BRANCH", "UNRELATED"}
None == "none"

-------------------------------------------------------------------------------
(* The reference driver's conforming traces.                               *)

\* Event types that precede any attempt carry no RTT.
BeforeAttempt == {"INTENT_ACCEPTED", "UTT_CREATED", "HISTORY_INDEXED"}

WithEvidence == {"EXTERNAL_EVIDENCE_VERIFIED", "EXTERNAL_EVIDENCE_REJECTED",
                 "CALLBACK_ACCEPTED", "CALLBACK_REJECTED"}

AttemptOf(type) == IF type \in BeforeAttempt THEN None ELSE "RTT-1"

Event(type, scope) ==
    [type |-> type, scope |-> scope, utt |-> "UTT-1", rtt |-> AttemptOf(type),
     hash |-> type \in WithEvidence, at |-> 1]

Events(types) == [i \in DOMAIN types |-> Event(types[i], None)]

\* One second between events, unless an edit has backdated one.
Stamped(events) ==
    [i \in DOMAIN events |->
        [events[i] EXCEPT !.at = IF @ = 0 THEN 0 ELSE i]]

Reads(scopes) ==
    [i \in DOMAIN scopes |-> Event("HISTORY_READ_ALLOWED", scopes[i])]

Finish == <<"EXTERNAL_EVIDENCE_VERIFIED", "RTT_SUCCEEDED", "PLAN_FINALIZED">>
BothSms == <<"SMS_PREPARED", "SMS_PREPARED">>
Birth == <<"UTT_CREATED", "RTT_CREATED">>

SettledCase(fx, scopes) ==
    Events(<<"INTENT_ACCEPTED", "UTT_CREATED">> \o fx \o
           <<"HISTORY_INDEXED", "PLAN_CREATED", "RTT_CREATED",
             "ADAPTER_BINDING_VERIFIED", "PROVIDER_DISPATCHED",
             "PROVIDER_ACCEPTED">> \o Finish \o BothSms) \o Reads(scopes)

Reference == [s \in Scenarios |-> Stamped(
    CASE s = "P2P_SETTLED" -> SettledCase(<<>>, <<"SENDER", "RECEIVER">>)
      [] s = "MERCHANT_SUPPLIER_SETTLED" ->
            SettledCase(<<>>, <<"MERCHANT", "BRANCH">>)
      [] s = "CROSS_BORDER_SETTLED" ->
            SettledCase(<<"FX_QUOTE_BOUND">>, <<"SENDER", "RECEIVER">>)
      [] s = "DUPLICATE_SUBMISSION" ->
            Events(Birth \o <<"PROVIDER_DISPATCHED", "PROVIDER_ACCEPTED",
                              "IDEMPOTENT_REPLAY_RETURNED">>)
      [] s = "UNKNOWN_THEN_RECONCILED" ->
            Events(Birth \o <<"PROVIDER_DISPATCHED", "OUTCOME_UNKNOWN",
                              "RECONCILIATION_REQUIRED">> \o Finish)
      [] s = "TAMPERED_CALLBACK_REJECTED" ->
            Events(Birth \o <<"CALLBACK_REJECTED">>)
      [] s = "DUPLICATE_CALLBACK_EXACTLY_ONCE" ->
            Events(Birth \o <<"CALLBACK_ACCEPTED">> \o Finish \o BothSms
                         \o <<"CALLBACK_ACCEPTED">>)
      [] s = "SETTLEMENT_AMOUNT_MISMATCH_REJECTED" ->
            Events(Birth \o <<"CALLBACK_ACCEPTED", "EXTERNAL_EVIDENCE_REJECTED">>)
      [] s = "HISTORY_ACCESS_CONTROL" ->
            Events(<<"UTT_CREATED", "HISTORY_INDEXED">>)
                \o Reads(<<"SENDER", "RECEIVER">>)
                \o <<Event("HISTORY_READ_DENIED", "UNRELATED")>>
      [] s = "SMS_FINALITY_GATE" ->
            Events(Birth \o <<"SMS_BLOCKED_BEFORE_FINALITY">> \o Finish \o BothSms)
      [] s = "ADAPTER_VERSION_PIN" ->
            Events(Birth \o <<"ADAPTER_BINDING_VERIFIED", "PROVIDER_DISPATCHED",
                              "ADAPTER_BINDING_MISMATCH_REJECTED">>))]

-------------------------------------------------------------------------------
(* _EXPECTATIONS: exact and minimum counts, forbidden types, pairs of which *)
(* the first must precede the second, history scopes to be exercised.       *)

Chain(types) == {<<types[i], types[i + 1]>> : i \in 1..(Len(types) - 1)}

\* Mutant: the pair that ties success to evidence is missing.
UnevidencedOrder ==
    Chain(<<"UTT_CREATED", "RTT_CREATED", "PROVIDER_DISPATCHED",
            "PROVIDER_ACCEPTED", "EXTERNAL_EVIDENCE_VERIFIED">>)
        \cup Chain(<<"RTT_SUCCEEDED", "PLAN_FINALIZED", "SMS_PREPARED">>)

HappyOrder ==
    Chain(<<"UTT_CREATED", "RTT_CREATED", "PROVIDER_DISPATCHED",
            "PROVIDER_ACCEPTED">> \o Finish \o <<"SMS_PREPARED">>)

\* Mutant: one SMS is expected, the receiver's is forgotten.
OneSms(types) == [t \in types |-> 1]

Once(types) == [t \in types |-> IF t = "SMS_PREPARED" THEN 2 ELSE 1]

HappyExact ==
    Once({"UTT_CREATED", "RTT_CREATED", "ADAPTER_BINDING_VERIFIED",
          "PROVIDER_DISPATCHED", "PROVIDER_ACCEPTED",
          "EXTERNAL_EVIDENCE_VERIFIED", "RTT_SUCCEEDED", "PLAN_FINALIZED",
          "SMS_PREPARED"})

\* A row of the table; TwoReads is the only minimum it uses.
Expect(exact, minimum, forbidden, ordered, scopes) ==
    [exact |-> exact, minimum |-> minimum, forbidden |-> forbidden,
     ordered |-> ordered, scopes |-> scopes]

TwoReads == [t \in {"HISTORY_READ_ALLOWED"} |-> 2]
NoMinimum == [t \in {} |-> 0]

Expectations == [s \in Scenarios |->
    CASE s = "P2P_SETTLED" ->
            Expect(HappyExact, TwoReads, {}, HappyOrder, {"SENDER", "RECEIVER"})
      [] s = "MERCHANT_SUPPLIER_SETTLED" ->
            Expect(HappyExact, TwoReads, {}, HappyOrder, {"MERCHANT", "BRANCH"})
      [] s = "CROSS_BORDER_SETTLED" ->
            Expect(Once(DOMAIN HappyExact \cup {"FX_QUOTE_BOUND"}), TwoReads, {},
                   HappyOrder \cup {<<"UTT_CREATED", "FX_QUOTE_BOUND">>},
                   {"SENDER", "RECEIVER"})
      [] s = "DUPLICATE_SUBMISSION" ->
            Expect(Once({"UTT_CREATED", "RTT_CREATED", "PROVIDER_DISPATCHED",
                         "PROVIDER_ACCEPTED", "IDEMPOTENT_REPLAY_RETURNED"}),
                   NoMinimum, {},
                   {<<"PROVIDER_DISPATCHED", "IDEMPOTENT_REPLAY_RETURNED">>}, {})
      [] s = "UNKNOWN_THEN_RECONCILED" ->
            Expect(Once({"UTT_CREATED", "RTT_CREATED", "PROVIDER_DISPATCHED",
                         "OUTCOME_UNKNOWN", "RECONCILIATION_REQUIRED",
                         "EXTERNAL_EVIDENCE_VERIFIED", "RTT_SUCCEEDED",
                         "PLAN_FINALIZED"}),
                   NoMinimum, {},
                   Chain(<<"PROVIDER_DISPATCHED", "OUTCOME_UNKNOWN",
                           "RECONCILIATION_REQUIRED",
                           "EXTERNAL_EVIDENCE_VERIFIED", "RTT_SUCCEEDED">>), {})
      [] s = "TAMPERED_CALLBACK_REJECTED" ->
            Expect(Once({"CALLBACK_REJECTED"}), NoMinimum,
                   {"EXTERNAL_EVIDENCE_VERIFIED", "RTT_SUCCEEDED",
                    "PLAN_FINALIZED", "SMS_PREPARED"}, {}, {})
      [] s = "DUPLICATE_CALLBACK_EXACTLY_ONCE" ->
            Expect([t \in {"CALLBACK_ACCEPTED", "EXTERNAL_EVIDENCE_VERIFIED",
                           "RTT_SUCCEEDED", "PLAN_FINALIZED", "SMS_PREPARED"} |->
                        IF t \in {"CALLBACK_ACCEPTED", "SMS_PREPARED"} THEN 2 ELSE 1],
                   NoMinimum, {},
                   {<<"CALLBACK_ACCEPTED", "EXTERNAL_EVIDENCE_VERIFIED">>}, {})
      [] s = "SETTLEMENT_AMOUNT_MISMATCH_REJECTED" ->
            Expect(Once({"EXTERNAL_EVIDENCE_REJECTED"}), NoMinimum,
                   {"RTT_SUCCEEDED", "PLAN_FINALIZED", "SMS_PREPARED"}, {}, {})
      [] s = "HISTORY_ACCESS_CONTROL" ->
            Expect(Once({"HISTORY_READ_DENIED"}), TwoReads, {}, {},
                   {"SENDER", "RECEIVER", "UNRELATED"})
      [] s = "SMS_FINALITY_GATE" ->
            Expect(Once({"SMS_BLOCKED_BEFORE_FINALITY",
                         "EXTERNAL_EVIDENCE_VERIFIED", "RTT_SUCCEEDED",
                         "PLAN_FINALIZED", "SMS_PREPARED"}),
                   NoMinimum, {},
                   {<<"SMS_BLOCKED_BEFORE_FINALITY", "EXTERNAL_EVIDENCE_VERIFIED">>,
                    <<"PLAN_FINALIZED", "SMS_PREPARED">>}, {})
      [] s = "ADAPTER_VERSION_PIN" ->
            Expect(Once({"UTT_CREATED", "RTT_CREATED", "ADAPTER_BINDING_VERIFIED",
                         "ADAPTER_BINDING_MISMATCH_REJECTED",
                         "PROVIDER_DISPATCHED"}),
                   NoMinimum, {},
                   Chain(<<"RTT_CREATED", "ADAPTER_BINDING_VERIFIED",
                           "PROVIDER_DISPATCHED">>), {})]

-------------------------------------------------------------------------------
(* CertificationTraceEvaluator: a trace passes when no failure is found.    *)

Positions(t, type) == {i \in DOMAIN t : t[i].type = type}
Count(t, type) == Cardinality(Positions(t, type))
Has(t, type) == Positions(t, type) # {}
First(t, type) == Min(Positions(t, type))

\* _first of both, compared only when both types occur.
InOrder(t, before, after) ==
    Has(t, before) /\ Has(t, after) => First(t, before) < First(t, after)

MeetsExpectation(t, expected) ==
    /\ \A type \in DOMAIN expected.exact :
            Count(t, type) = expected.exact[type]
    /\ \A type \in DOMAIN expected.minimum :
            Count(t, type) >= expected.minimum[type]
    /\ \A type \in expected.forbidden : ~Has(t, type)
    /\ \A pair \in expected.ordered : InOrder(t, pair[1], pair[2])
    /\ expected.scopes \subseteq
            {t[i].scope : i \in {j \in DOMAIN t :
                t[j].type \in {"HISTORY_READ_ALLOWED", "HISTORY_READ_DENIED"}}}

NoRedispatch(t) ==
    Has(t, "OUTCOME_UNKNOWN") => Count(t, "PROVIDER_DISPATCHED") <= 1

\* Mutant: verified evidence need not name its hash.
EvidenceUnhashed(t) == TRUE

EvidenceHashed(t) == \A i \in Positions(t, "EXTERNAL_EVIDENCE_VERIFIED") : t[i].hash

GlobalInvariants(t, s) ==
    /\ \A i, j \in DOMAIN t : i < j => t[i].at <= t[j].at
    /\ Cardinality({t[i].utt : i \in DOMAIN t} \ {None}) <= 1
    /\ Has(t, "RTT_CREATED") => Has(t, "UTT_CREATED")
    /\ Has(t, "RTT_SUCCEEDED") => Has(t, "EXTERNAL_EVIDENCE_VERIFIED")
    /\ EvidenceHashed(t)
    /\ Has(t, "PLAN_FINALIZED") => Has(t, "RTT_SUCCEEDED")
    /\ Has(t, "SMS_PREPARED") => Has(t, "PLAN_FINALIZED")
    /\ NoRedispatch(t)
    /\ s # "UNKNOWN_THEN_RECONCILED" =>
            Cardinality({t[i].rtt : i \in DOMAIN t} \ {None}) <= 1

Passes(t, s) == MeetsExpectation(t, Expectations[s]) /\ GlobalInvariants(t, s)

-------------------------------------------------------------------------------
(* What a system under test may do differently from the reference trace.    *)

Edit(t) == /\ edits < MaxEdits
           /\ edits' = edits + 1
           /\ trace' = Stamped(t)
           /\ UNCHANGED scenario

TraceInit == /\ scenario \in Judged
             /\ trace = Reference[scenario]
             /\ edits = 0

Without(t, i) == SubSeq(t, 1, i - 1) \o SubSeq(t, i + 1, Len(t))
With(t, i, e) == Append(SubSeq(t, 1, i - 1), e) \o SubSeq(t, i, Len(t))

Omit(i) == Len(trace) > 1 /\ Edit(Without(trace, i))
Add(i, type) == Edit(With(trace, i, Event(type, None)))
Move(i, j) == i # j /\ Edit(With(Without(trace, i), j, trace[i]))
LoseHash(i) == trace[i].hash /\ Edit([trace EXCEPT ![i].hash = FALSE])
OtherTransaction(i) == Edit([trace EXCEPT ![i].utt = "UTT-2"])
OtherAttempt(i) == trace[i].rtt # None /\ Edit([trace EXCEPT ![i].rtt = "RTT-2"])
NoTransaction(i) == trace[i].utt # None /\ Edit([trace EXCEPT ![i].utt = None])
NoAttempt(i) == trace[i].rtt # None /\ Edit([trace EXCEPT ![i].rtt = None])
Backdate(i) == Edit([trace EXCEPT ![i].at = 0])

TraceNext == \E i \in DOMAIN trace :
    \/ Omit(i)
    \/ \E type \in Injected : Add(i, type)
    \/ \E j \in DOMAIN trace : Move(i, j)
    \/ LoseHash(i)
    \/ OtherTransaction(i)
    \/ OtherAttempt(i)
    \/ NoTransaction(i)
    \/ NoAttempt(i)
    \/ Backdate(i)

TraceSpec == TraceInit /\ [][TraceNext]_traceVars

-------------------------------------------------------------------------------
(* Properties.                                                              *)

\* Every event has its fields.
TraceTypeOK ==
    /\ scenario \in Judged
    /\ edits \in 0..MaxEdits
    /\ trace # <<>>
    /\ \A i \in DOMAIN trace :
        trace[i] \in [type : EventTypes, scope : Scopes \cup {None},
                      utt : {"UTT-1", "UTT-2", None}, rtt : {"RTT-1", "RTT-2", None},
                      hash : BOOLEAN, at : 0..Len(trace)]

Accepted == Passes(trace, scenario)

\* i is preceded by an event of the given type.
After(i, type) == \E j \in Positions(trace, type) : j < i

\* The expectation table and the reference driver agree: the unedited trace of
\* every scenario passes evaluate.
ReferencePasses == edits = 0 => Accepted

\* A settlement case that passes tells the whole story in order: each success
\* follows verified evidence, which follows the provider's acceptance of a
\* dispatched attempt, and each SMS follows finality, which follows success.
SettlementIsCausal ==
    Accepted /\ scenario \in Settled =>
        \A i \in DOMAIN trace :
            CASE trace[i].type = "SMS_PREPARED" -> After(i, "PLAN_FINALIZED")
              [] trace[i].type = "PLAN_FINALIZED" -> After(i, "RTT_SUCCEEDED")
              [] trace[i].type = "RTT_SUCCEEDED" ->
                    After(i, "EXTERNAL_EVIDENCE_VERIFIED")
              [] trace[i].type = "EXTERNAL_EVIDENCE_VERIFIED" ->
                    After(i, "PROVIDER_ACCEPTED")
              [] trace[i].type = "PROVIDER_ACCEPTED" ->
                    After(i, "PROVIDER_DISPATCHED")
              [] trace[i].type = "PROVIDER_DISPATCHED" -> After(i, "RTT_CREATED")
              [] OTHER -> TRUE

\* The events name the same transaction, if both name one.
SameTransaction(e, f) == None \in {e.utt, f.utt} \/ e.utt = f.utt

\* No scenario passes with an SMS, a finality or a success for which the trace
\* shows no external evidence, and all the evidence it shows is hashed and of
\* no other transaction than any of its events names.  An event may name none:
\* evaluate compares only the identities that are there.
EffectsAreEvidenced ==
    Accepted /\ (\/ Has(trace, "SMS_PREPARED") \/ Has(trace, "PLAN_FINALIZED")
                 \/ Has(trace, "RTT_SUCCEEDED")) =>
        /\ Has(trace, "EXTERNAL_EVIDENCE_VERIFIED")
        /\ \A i \in Positions(trace, "EXTERNAL_EVIDENCE_VERIFIED") :
              trace[i].hash /\ \A j \in DOMAIN trace : SameTransaction(trace[i], trace[j])

===============================================================================
