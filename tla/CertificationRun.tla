--------------------------- MODULE CertificationRun ---------------------------
(***************************************************************************)
(* PartnerCertificationCoordinator.certify over the PostgreSQL recorder    *)
(* and report store: begin a run row, execute and judge the cases of the   *)
(* suite, complete the run row, sign and store the report.  Several calls  *)
(* may name the same run, and a call may die between two transactions.     *)
(*                                                                         *)
(* What a trace says is abstracted to `lawful', the verdict of the         *)
(* evaluator (module TraceEvaluator).  A trace identifier is a hash of the *)
(* trace's content, so a trace stands for its own identifier.              *)
(***************************************************************************)
EXTENDS Integers, Sequences, FiniteSets, Functions

CONSTANTS Calls,      \* concurrent calls of certify
          Runs,       \* run identifiers
          Adapters,   \* adapter_id@version bindings
          Suite,      \* the scenarios of the suite, in order
          Unasked,    \* scenarios outside the suite that a driver may name
          MaxCrashes  \* calls that may die

SuiteScenarios == Range(Suite)
NamedScenarios == SuiteScenarios \cup Unasked

ASSUME SuiteAssumption ==
    Suite \in Seq(SuiteScenarios) /\ Suite # <<>> /\ IsInjective(Suite)
ASSUME CrashAssumption == MaxCrashes \in Nat

VARIABLES runs,      \* partner_certification_runs
          traces,    \* partner_certification_traces
          reports,   \* partner_certification_reports
          call,      \* the local state of each certify
          crashes

vars == <<runs, traces, reports, call, crashes>>

NoRun == [status |-> "ABSENT", adapter |-> "none"]
NoTrace == [run |-> "none", scenario |-> "none", adapter |-> "none", lawful |-> FALSE]
Trace == [run : Runs, scenario : NamedScenarios, adapter : Adapters, lawful : BOOLEAN]
Case == [scenario : SuiteScenarios, status : {"PASSED", "FAILED", "ERROR"},
         trace : Trace \cup {NoTrace}]
Report == [run : Runs, adapter : Adapters, status : {"PASSED", "FAILED"}, cases : Seq(Case)]

Idle == [at |-> "idle", run |-> "none", adapter |-> "none", cases |-> <<>>]

Init == /\ runs = [r \in Runs |-> NoRun]
        /\ traces = {}
        /\ reports = {}
        /\ call = [c \in Calls |-> Idle]
        /\ crashes = 0

-------------------------------------------------------------------------------
(* certify: the signed manifest is checked, then recorder.begin inserts the *)
(* run row unless one exists.                                               *)

\* What the caller hands over: a verified manifest and a driver.
Request == [adapter : Adapters, active : BOOLEAN, driver : Adapters,
            status : {"DRAFT", "CONFORMANCE", "CERTIFIED", "SUSPENDED"},
            evidence : {"SYNTHETIC_SELF_TEST", "PARTNER_SANDBOX"}]

Certifiable(request) ==
    /\ request.active
    /\ request.status \in {"CONFORMANCE", "CERTIFIED"}
    /\ request.driver = request.adapter
    /\ request.evidence = "PARTNER_SANDBOX"

\* Mutant: ON CONFLICT DO NOTHING without the row count check.
BeginsAnyway(r) == TRUE

Begins(r) == runs[r] = NoRun

Certify(c, r, request) ==
    /\ call[c].at = "idle"
    /\ IF Certifiable(request) /\ Begins(r)
       THEN /\ runs' = [runs EXCEPT ![r] =
                            IF @ = NoRun
                            THEN [status |-> "RUNNING", adapter |-> request.adapter]
                            ELSE @]
            /\ call' = [call EXCEPT ![c] =
                            [at |-> "cases", run |-> r,
                             adapter |-> request.adapter, cases |-> <<>>]]
       ELSE /\ call' = [call EXCEPT ![c].at = "refused"]
            /\ UNCHANGED runs
    /\ UNCHANGED <<traces, reports, crashes>>

-------------------------------------------------------------------------------
(* One case: the driver answers, the trace is recorded, then judged.  The   *)
(* only shared state is the insert, so the case is one step.                *)

\* A driver answers lawfully or not, or breaks one of the bindings the runner
\* knows of: it names another run, another scenario or another adapter.
Answers(r, s, a) ==
    LET own == [run |-> r, scenario |-> s, adapter |-> a, lawful |-> TRUE]
    IN  {own, [own EXCEPT !.lawful = FALSE]}
            \cup {[own EXCEPT !.run = x] : x \in Runs}
            \cup {[own EXCEPT !.scenario = x] : x \in NamedScenarios}
            \cup {[own EXCEPT !.adapter = x] : x \in Adapters}

\* Mutant: the table has no UNIQUE (run_id, scenario) and a repeated insert of
\* one trace is taken for a replay.
RecordsReplays(trace) == runs[trace.run] # NoRun

\* record_trace: foreign key to the run, UNIQUE (run_id, scenario).
Records(trace) ==
    /\ runs[trace.run] # NoRun
    /\ \A t \in traces : t.run = trace.run => t.scenario # trace.scenario

Judgement(k, trace, slow) ==
    IF trace.lawful /\ trace.run = k.run /\ trace.adapter = k.adapter /\ ~slow
    THEN "PASSED" ELSE "FAILED"

CaseOf(s, status, trace) == [scenario |-> s, status |-> status, trace |-> trace]

ErrorCase(k, s) == [k EXCEPT !.cases = Append(@, CaseOf(s, "ERROR", NoTrace))]

ExecuteCase(c) ==
    LET k == call[c]
        s == Suite[Len(k.cases) + 1]
    IN  /\ k.at = "cases"
        /\ Len(k.cases) < Len(Suite)
        /\ \/ \E trace \in Answers(k.run, s, k.adapter), slow \in BOOLEAN :
                /\ Records(trace)
                /\ traces' = traces \cup {trace}
                /\ call' = [call EXCEPT ![c].cases =
                        Append(@, CaseOf(s, Judgement(k, trace, slow), trace))]
           \/ \E trace \in Answers(k.run, s, k.adapter) :
                /\ ~Records(trace)
                /\ call' = [call EXCEPT ![c] = ErrorCase(k, s)]
                /\ UNCHANGED traces
           \/ \* the driver raises, or the insert commits and its answer is lost
              /\ traces' \in {traces} \cup
                    {traces \cup {t} : t \in {x \in Answers(k.run, s, k.adapter) : Records(x)}}
              /\ call' = [call EXCEPT ![c] = ErrorCase(k, s)]
        /\ UNCHANGED <<runs, reports, crashes>>

-------------------------------------------------------------------------------
(* The report: complete the run row, then sign and store.                   *)

StatusOf(cases) ==
    IF \A i \in DOMAIN cases : cases[i].status = "PASSED" THEN "PASSED" ELSE "FAILED"

ReportOf(k) == [run |-> k.run, adapter |-> k.adapter,
                status |-> StatusOf(k.cases), cases |-> k.cases]

Completes(r) == runs[r].status = "RUNNING"

Complete(c) ==
    LET k == call[c]
    IN  /\ k.at = "cases"
        /\ Len(k.cases) = Len(Suite)
        /\ IF Completes(k.run)
           THEN /\ runs' = [runs EXCEPT ![k.run].status = ReportOf(k).status]
                /\ call' = [call EXCEPT ![c].at = "sign"]
           ELSE /\ call' = [call EXCEPT ![c].at = "refused"]
                /\ UNCHANGED runs
        /\ UNCHANGED <<traces, reports, crashes>>

\* put: UNIQUE (run_id) in the table of reports.
Stores(r) == \A report \in reports : report.run # r

SignAndCommit(c) ==
    LET k == call[c]
    IN  /\ k.at = "sign"
        /\ IF Stores(k.run)
           THEN /\ reports' = reports \cup {ReportOf(k)}
                /\ call' = [call EXCEPT ![c].at = "done"]
           ELSE /\ call' = [call EXCEPT ![c].at = "refused"]
                /\ UNCHANGED reports
        /\ UNCHANGED <<runs, traces, crashes>>

\* The process dies, or a transaction commits and the caller sees an error.
Crash(c) == /\ crashes < MaxCrashes
            /\ call[c].at \in {"cases", "sign"}
            /\ crashes' = crashes + 1
            /\ call' = [call EXCEPT ![c].at = "dead"]
            /\ UNCHANGED <<runs, traces, reports>>

Step(c) == ExecuteCase(c) \/ Complete(c) \/ SignAndCommit(c)

Next == \E c \in Calls :
    \/ \E r \in Runs, request \in Request : Certify(c, r, request)
    \/ Step(c)
    \/ Crash(c)

Spec == Init /\ [][Next]_vars

-------------------------------------------------------------------------------
(* Properties.                                                              *)

\* The tables and the calls hold what their columns and fields allow.
TypeOK ==
    /\ runs \in [Runs -> {NoRun} \cup
            [status : {"RUNNING", "PASSED", "FAILED"}, adapter : Adapters]]
    /\ traces \subseteq Trace
    /\ reports \subseteq Report
    /\ call \in [Calls ->
            [at : {"idle", "cases", "sign", "done", "refused", "dead"},
             run : Runs \cup {"none"}, adapter : Adapters \cup {"none"}, cases : Seq(Case)]]
    /\ crashes \in 0..MaxCrashes

\* A stored report is the only one of its run, and says what the run row says:
\* only the call that began the run completes it (begin, complete, put).
ReportsMatchRuns ==
    \A report \in reports :
        /\ runs[report.run].status = report.status
        /\ runs[report.run].adapter = report.adapter
        /\ \A other \in reports : other.run = report.run => other = report

\* A report reads PASSED only when it has a case for every scenario of the
\* suite, in order, each passed on a lawful trace that was recorded before under
\* this run and this adapter, and no trace serves two scenarios.
PassedIsBacked ==
    \A report \in reports : report.status = "PASSED" =>
        /\ Len(report.cases) = Len(Suite)
        /\ \A i \in DOMAIN report.cases : report.cases[i].scenario = Suite[i]
        /\ \A i \in DOMAIN report.cases :
            LET t == report.cases[i].trace
            IN  t \in traces /\ t.lawful /\ t.run = report.run /\ t.adapter = report.adapter
        /\ \A i, j \in DOMAIN report.cases :
            report.cases[i].trace = report.cases[j].trace => i = j

\* Evidence is only ever added: recorded traces and filed reports stay as they
\* are, a run keeps its adapter, and one that reads PASSED or FAILED is not
\* reopened or judged again by a second call, a retry or a crash.
EvidenceIsKept ==
    [][/\ traces \subseteq traces' /\ reports \subseteq reports'
       /\ \A r \in Runs : runs[r] # NoRun =>
             /\ runs'[r].adapter = runs[r].adapter
             /\ runs[r].status # "RUNNING" => runs'[r] = runs[r]]_vars

===============================================================================
