------------------------- MODULE CallbackSettlement -------------------------
(***************************************************************************)
(* Provider callbacks and what they decide: MpesaCallbackProcessor in      *)
(* railone_callbacks/mpesa.py over the callback inbox, the execution plan  *)
(* (module ExecutionPlan, whose service methods it calls) and              *)
(* SettlementNotificationService in railone_notifications/service.py.      *)
(*                                                                         *)
(* A handler is a thread or process inside _process(); while it is inside  *)
(* a method of the execution service it is also a caller of ExecutionPlan. *)
(* The provider sends each callback as often as it likes, in any order,    *)
(* and may contradict itself.  What a callback says is its verdict; its    *)
(* event id is its type and its RTT.  A callback whose signature, format,  *)
(* correlation or amount is wrong changes nothing but the inbox row of a   *)
(* refused signature, which nothing reads, and is left out.                *)
(***************************************************************************)
EXTENDS ExecutionPlan

CONSTANTS
    Handlers,      \* the callers that are callback handlers
    MaxCrashes,    \* bound on handler crashes
    NoEvidence     \* no settlement evidence yet

ASSUME HandlersAssumption ==
    Handlers \subseteq Callers /\ MaxCrashes \in Nat /\ 0 \in ActualCosts

VARIABLES
    submitted,   \* the RTTs whose submission row holds the external reference
    inbox,       \* provider_callback_inbox by event id
    handler,     \* where each _process() call is
    evidence,    \* the settlement_evidence row of the UTT
    crashes      \* how often a handler crashed

callbackVars == <<submitted, inbox, handler, evidence, crashes>>
allVars == <<vars, callbackVars>>

EventIds == {"RESULT", "TIMEOUT"} \X Rtts

ASSUME EvidenceAssumption == NoEvidence \notin [rtt : Rtts, callback : EventIds]

\* What a callback of each type can say.
Contents(type) ==
    IF type = "TIMEOUT" THEN {"RECONCILIATION_REQUIRED"}
    ELSE {"SUCCESS", "RETRYABLE", "TERMINAL"}

InboxRows == [state : {"ABSENT", "RECEIVED", "APPLIED"}, verdict : Verdicts]
NoRow == [state |-> "ABSENT", verdict |-> "SUCCESS"]

HandlerStates ==
    [at      : {"idle", "ingested", "record", "resolve", "calling", "settle",
                "commit", "mark"},
     event   : EventIds,
     verdict : Verdicts,
     settled : 0..MaxAttempts]

CallbackTypeOK ==
    /\ submitted \subseteq Rtts
    /\ inbox \in [EventIds -> InboxRows]
    /\ handler \in [Handlers -> HandlerStates]
    /\ evidence \in [rtt : Rtts, callback : EventIds] \cup {NoEvidence}
    /\ crashes \in 0..MaxCrashes

Waiting == [at |-> "idle", event |-> <<"RESULT", 1>>, verdict |-> "SUCCESS", settled |-> None]

CallbackInit ==
    /\ Init
    /\ submitted = {}
    /\ inbox = [i \in EventIds |-> NoRow]
    /\ handler = [h \in Handlers |-> Waiting]
    /\ evidence = NoEvidence
    /\ crashes = 0

-----------------------------------------------------------------------------
(* Steps of a handler *)

GoTo(h, at) == handler' = [handler EXCEPT ![h].at = at]
Return(h) == handler' = [handler EXCEPT ![h] = Waiting]
Rtt(h) == handler[h].event[2]

\* A variant that does not compare the payload of a repeated callback.
AcceptsAnyContent(row, verdict) == row.state # "APPLIED"

\* The inbox row lets the handler go on: it is new, or it is the same callback
\* again and not applied yet.  Otherwise ingest raises or _process() returns.
Accepts(row, verdict) ==
    row.state = "ABSENT" \/ (row.state = "RECEIVED" /\ row.verdict = verdict)

\* Up to inbox.ingest: the submission is found by its external reference, and
\* the first callback of an event id fixes what it says.
Ingest(h, i, verdict) ==
    /\ handler[h].at = "idle"
    /\ i[2] \in submitted
    /\ Accepts(inbox[i], verdict)
    /\ inbox' = IF inbox[i].state = "ABSENT"
                THEN [inbox EXCEPT ![i] = [state |-> "RECEIVED", verdict |-> verdict]]
                ELSE inbox
    /\ handler' = [handler EXCEPT ![h] = [Waiting EXCEPT !.at = "ingested", !.event = i,
                                                         !.verdict = verdict]]
    /\ UNCHANGED <<vars, submitted, evidence, crashes>>

\* What the attempt's state makes of the callback; "idle": it raises because it
\* contradicts the recorded outcome.
Where(state, verdict) ==
    CASE state = "CREATED" -> "record"
      [] state = "RECONCILIATION_REQUIRED" ->
            IF verdict = "RECONCILIATION_REQUIRED" THEN "mark" ELSE "resolve"
      [] state = "SUCCEEDED" -> IF verdict = "SUCCESS" THEN "settle" ELSE "idle"
      [] state = "FAILED" -> IF verdict \in {"RETRYABLE", "TERMINAL"} THEN "mark" ELSE "idle"
      [] OTHER -> "idle"

\* _process() reads the attempt.
ReadOutcome(h) ==
    LET next == Where(attempt[Rtt(h)].state, handler[h].verdict)
    IN  /\ handler[h].at = "ingested"
        /\ IF next = "idle" THEN Return(h) ELSE GoTo(h, next)
        /\ UNCHANGED <<vars, submitted, inbox, evidence, crashes>>

\* The state record_failure, record_success and resolve_reconciliation ask for.
Expected(at) == IF at = "record" THEN "CREATED" ELSE "RECONCILIATION_REQUIRED"

\* It enters a method of the execution service, which reads the attempt again
\* and raises when its state has changed.
EnterMethod(h) ==
    /\ handler[h].at \in {"record", "resolve"}
    /\ ReadAttempt(h, handler[h].at, Rtt(h), handler[h].verdict, 0, Expected(handler[h].at))
    /\ GoTo(h, "calling")
    /\ UNCHANGED <<submitted, inbox, evidence, crashes>>

MethodRefuses(h) ==
    /\ handler[h].at \in {"record", "resolve"}
    /\ attempt[Rtt(h)].state # Expected(handler[h].at)
    /\ Return(h)
    /\ UNCHANGED <<vars, submitted, inbox, evidence, crashes>>

\* The method reads the plan; resolve_reconciliation may raise.
MethodReadsPlan(h) ==
    /\ handler[h].at = "calling"
    /\ ReadPlan(h)
    /\ IF call'[h] = Idle THEN Return(h) ELSE UNCHANGED handler
    /\ UNCHANGED <<submitted, inbox, evidence, crashes>>

\* A variant that marks a success applied before it is settled.
MarkFirst(verdict) == "mark"

\* What follows the outcome.
AfterOutcome(verdict) == IF verdict = "SUCCESS" THEN "settle" ELSE "mark"

MethodCommits(h) ==
    /\ handler[h].at = "calling"
    /\ CommitTransition(h)
    /\ GoTo(h, AfterOutcome(handler[h].verdict))
    /\ UNCHANGED <<submitted, inbox, evidence, crashes>>

MethodConflicts(h) ==
    /\ handler[h].at = "calling"
    /\ TransitionConflict(h)
    /\ Return(h)
    /\ UNCHANGED <<submitted, inbox, evidence, crashes>>

\* confirm_provider_settlement: the plan is FINALIZED and its previous RTT
\* SUCCEEDED.  Neither changes any more, so the two reads are one step.
ReadSettled(h) ==
    /\ handler[h].at = "settle"
    /\ IF /\ plan.status = "FINALIZED"
          /\ plan.previous # None
          /\ attempt[plan.previous].state = "SUCCEEDED"
       THEN handler' = [handler EXCEPT ![h].at = "commit", ![h].settled = plan.previous]
       ELSE Return(h)
    /\ UNCHANGED <<vars, submitted, inbox, evidence, crashes>>

\* commit_settlement: the evidence with its two notifications, once for a UTT.
\* The evidence id covers the callback; the RTT is what the plan names.
CommitSettlement(h) ==
    /\ handler[h].at = "commit"
    /\ evidence' = IF evidence = NoEvidence
                   THEN [rtt |-> handler[h].settled, callback |-> handler[h].event]
                   ELSE evidence
    /\ IF evidence'.callback = handler[h].event THEN GoTo(h, "mark") ELSE Return(h)
    /\ UNCHANGED <<vars, submitted, inbox, crashes>>

\* mark_applied, which may find the row applied already.
MarkApplied(h) ==
    /\ handler[h].at = "mark"
    /\ inbox' = [inbox EXCEPT ![handler[h].event].state = "APPLIED"]
    /\ Return(h)
    /\ UNCHANGED <<vars, submitted, evidence, crashes>>

\* The process dies; what it had committed stays.
HandlerCrash(h) ==
    /\ handler[h].at # "idle"
    /\ crashes < MaxCrashes
    /\ crashes' = crashes + 1
    /\ call' = [call EXCEPT ![h] = Idle]
    /\ Return(h)
    /\ UNCHANGED <<plan, attempt, submitted, inbox, evidence>>

HandlerProceeds(h) ==
    \/ ReadOutcome(h) \/ EnterMethod(h) \/ MethodRefuses(h)
    \/ MethodReadsPlan(h) \/ MethodCommits(h) \/ MethodConflicts(h)
    \/ ReadSettled(h) \/ CommitSettlement(h) \/ MarkApplied(h)

-----------------------------------------------------------------------------
(* Specification *)

\* The submission of an RTT is completed with its external reference, which
\* may be after the RTT's outcome is known.
SubmissionCompleted(n) ==
    /\ attempt[n].state # "ABSENT"
    /\ n \notin submitted
    /\ submitted' = submitted \cup {n}
    /\ UNCHANGED <<vars, inbox, handler, evidence, crashes>>

\* The orchestrator builds the plan and starts attempts.
Orchestrate ==
    /\ \/ BuildPlan
       \/ \E c \in Callers \ Handlers : StartNext(c) \/ CommitStart(c) \/ StartConflict(c)
    /\ UNCHANGED callbackVars

Callback(h) ==
    \E i \in EventIds : \E verdict \in Contents(i[1]) : Ingest(h, i, verdict)

\* No handler and no caller is inside a method.
AllDone ==
    /\ plan.status \in TerminalStatus
    /\ \A c \in Callers : call[c].at = "idle"
    /\ \A h \in Handlers : handler[h].at = "idle"
    /\ UNCHANGED allVars

CallbackNext ==
    \/ Orchestrate
    \/ \E n \in Rtts : SubmissionCompleted(n)
    \/ \E h \in Handlers : Callback(h) \/ HandlerProceeds(h) \/ HandlerCrash(h)
    \/ AllDone

CallbackSpec == CallbackInit /\ [][CallbackNext]_allVars

-----------------------------------------------------------------------------
(* Properties *)

\* Settlement evidence exists only for a FINALIZED plan, and it binds the
\* attempt that SUCCEEDED to the RESULT callback of that same attempt, which
\* reported success: confirm_provider_settlement takes the RTT from the plan
\* and the callback from its caller, and never checks that they match.
EvidenceIsEarned ==
    evidence # NoEvidence =>
        /\ plan.status = "FINALIZED"
        /\ attempt[evidence.rtt].state = "SUCCEEDED"
        /\ evidence.callback = <<"RESULT", evidence.rtt>>
        /\ inbox[evidence.callback].verdict = "SUCCESS"
        /\ inbox[evidence.callback].state # "ABSENT"

\* A callback marked APPLIED has had its effect: a success is SUCCEEDED with
\* its evidence, a failure is FAILED, a timeout no longer leaves the attempt
\* CREATED.  Nothing is dropped by a crash before mark_applied.
AppliedHadItsEffect ==
    \A i \in EventIds : inbox[i].state = "APPLIED" =>
        CASE inbox[i].verdict = "SUCCESS" ->
                /\ attempt[i[2]].state = "SUCCEEDED"
                /\ evidence # NoEvidence /\ evidence.callback = i
          [] inbox[i].verdict = "RECONCILIATION_REQUIRED" ->
                attempt[i[2]].state \notin {"ABSENT", "CREATED"}
          [] OTHER -> attempt[i[2]].state = "FAILED"

\* Every outcome of an attempt is backed by a callback on record that says so:
\* duplicated, late or contradictory callbacks never decide it differently.
OutcomeHasItsCallback ==
    \A n \in Rtts :
        LET result == inbox[<<"RESULT", n>>]
            timeout == inbox[<<"TIMEOUT", n>>]
        IN  /\ attempt[n].state = "SUCCEEDED" =>
                  result.state # "ABSENT" /\ result.verdict = "SUCCESS"
            /\ attempt[n].state = "FAILED" =>
                  result.state # "ABSENT" /\ result.verdict # "SUCCESS"
            /\ attempt[n].state = "RECONCILIATION_REQUIRED" => timeout.state # "ABSENT"
=============================================================================
