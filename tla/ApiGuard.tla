------------------------------ MODULE ApiGuard ------------------------------
(***************************************************************************)
(* A guarded API request: AuthenticatedRequestGuard.execute in             *)
(* railone_api/guard.py with AccessTokenService.verify and revoke, the     *)
(* fixed-window rate limit, the read it guards and the signed audits.      *)
(*                                                                         *)
(* A worker is one execute() call.  Verification, the rate limit, the read *)
(* with its own access audit, and the request audit are transactions of    *)
(* their own; other workers run and tokens are revoked between them, and a *)
(* worker may crash.  The clock counts whole seconds, the resolution of an *)
(* audit identifier.  One route is modelled: limits and audits of two      *)
(* routes share nothing.                                                   *)
(***************************************************************************)
EXTENDS Integers, FiniteSets

CONSTANTS
    Workers,           \* concurrent execute() calls
    Tokens,            \* genuine access tokens
    Forged,            \* a missing or malformed bearer token
    PrincipalOf,       \* the principal each token speaks for
    ExpiresAt,         \* when each token expires, clock skew included
    RequestIds,        \* X-Request-ID values, chosen by clients
    RequestsPerWindow, \* requests_per_window
    WindowSeconds,     \* length of a rate-limit window
    MaxRequests,       \* bound on the requests made
    MaxTime,           \* bound on the clock
    MaxCrashes         \* bound on the crashes of workers

Unauthenticated == "UNAUTHENTICATED"
Principals == {PrincipalOf[t] : t \in Tokens}
Times == 0..MaxTime
Numbers == 1..MaxRequests

ASSUME GuardAssumption ==
    /\ RequestsPerWindow \in Nat \ {0} /\ WindowSeconds \in Nat \ {0}
    /\ MaxRequests \in Nat /\ MaxTime \in Nat /\ MaxCrashes \in Nat
    /\ Forged \notin Tokens
    /\ Unauthenticated \notin Principals

VARIABLES
    now,           \* the clock
    revoked,       \* api_token_revocations
    window,        \* api_rate_limit_windows: start and count, 0 when absent
    access,        \* transaction_access_audit: request number and outcome
    requestAudits, \* api_request_audit, by what audit_id is the hash of
    worker,        \* where each execute() call is
    arrived,       \* how many requests arrived
    granted,       \* the requests the rate limit let through, with their window
    served,        \* the requests that were answered with the read
    crashes        \* how often a worker crashed

guardVars == <<now, revoked, window, access, requestAudits, worker, arrived, granted, served,
               crashes>>

-----------------------------------------------------------------------------
(* Types *)

Outcomes == {"OK_200", "DENIED_401", "DENIED_403", "DENIED_404", "LIMITED_429", "ERROR_500"}

Requests == [number : Numbers, id : RequestIds, token : Tokens \cup {Forged},
             instant : Times, late : BOOLEAN]

AuditIds == [id : RequestIds, principal : Principals \cup {Unauthenticated},
             token : Tokens \cup {Forged}, outcome : Outcomes, second : Times]

Resting == [at |-> "idle"]
WorkerStates ==
    {Resting} \cup [at : {"verify", "consume", "operate"}, request : Requests]
           \cup [at : {"audit"}, request : Requests, outcome : Outcomes]

GuardTypeOK ==
    /\ now \in Times
    /\ revoked \subseteq Tokens
    /\ window \in [Principals -> [start : Times, count : Nat]]
    /\ access \subseteq Numbers \X {"ALLOWED", "DENIED"}
    /\ requestAudits \subseteq AuditIds
    /\ worker \in [Workers -> WorkerStates]
    /\ arrived \in 0..MaxRequests
    /\ granted \subseteq Numbers \X Principals \X Times
    /\ served \subseteq Requests
    /\ crashes \in 0..MaxCrashes

-----------------------------------------------------------------------------
(* Requests *)

GuardInit ==
    /\ now = 0
    /\ revoked = {} /\ access = {} /\ requestAudits = {} /\ granted = {} /\ served = {}
    /\ window = [p \in Principals |-> [start |-> 0, count |-> 0]]
    /\ worker = [w \in Workers |-> Resting]
    /\ arrived = 0 /\ crashes = 0

Tick ==
    /\ now < MaxTime
    /\ now' = now + 1
    /\ UNCHANGED <<revoked, window, access, requestAudits, worker, arrived, granted, served,
                   crashes>>

Verifies(token, instant) ==
    /\ token # Forged
    /\ instant < ExpiresAt[token]
    /\ token \notin revoked

(* AccessTokenService.revoke accepts a token that verifies. *)
Revoke(token) ==
    /\ Verifies(token, now)
    /\ revoked' = revoked \cup {token}
    /\ UNCHANGED <<now, window, access, requestAudits, worker, arrived, granted, served, crashes>>

(* execute() fixes its instant before anything else.  late records whether *)
(* the token was already revoked.                                          *)
Arrive(w, id, token) ==
    /\ worker[w] = Resting
    /\ arrived < MaxRequests
    /\ arrived' = arrived + 1
    /\ worker' = [worker EXCEPT ![w] =
          [at |-> "verify",
           request |-> [number |-> arrived + 1, id |-> id, token |-> token,
                        instant |-> now, late |-> token \in revoked]]]
    /\ UNCHANGED <<now, revoked, window, access, requestAudits, granted, served, crashes>>

Proceed(w, at) == worker' = [worker EXCEPT ![w] = [@ EXCEPT !.at = at]]

Conclude(w, outcome) ==
    worker' = [worker EXCEPT ![w] =
        [at |-> "audit", request |-> worker[w].request, outcome |-> outcome]]

Verify(w) ==
    /\ worker[w].at = "verify"
    /\ IF Verifies(worker[w].request.token, worker[w].request.instant)
       THEN Proceed(w, "consume")
       ELSE Conclude(w, "DENIED_401")
    /\ UNCHANGED <<now, revoked, window, access, requestAudits, arrived, granted, served, crashes>>

(* A fault: one request too many. *)
AllowsOneMore(count) == count <= RequestsPerWindow + 1

Allowed(count) == count <= RequestsPerWindow

(* The window after a request at the instant, which may lie before its     *)
(* start when the worker was delayed.                                      *)
WindowAfter(old, instant) ==
    IF old.count = 0 \/ old.start + WindowSeconds <= instant
    THEN [start |-> instant, count |-> 1]
    ELSE [start |-> old.start, count |-> old.count + 1]

Consume(w) ==
    LET request == worker[w].request
        principal == PrincipalOf[request.token]
        new == WindowAfter(window[principal], request.instant)
    IN  /\ worker[w].at = "consume"
        /\ window' = [window EXCEPT ![principal] = new]
        /\ IF Allowed(new.count)
           THEN /\ Proceed(w, "operate")
                /\ granted' = granted \cup {<<request.number, principal, new.start>>}
           ELSE Conclude(w, "LIMITED_429") /\ UNCHANGED granted
        /\ UNCHANGED <<now, revoked, access, requestAudits, arrived, served, crashes>>

Recorded(number, outcome) == access \cup {<<number, outcome>>}

(* The guarded read of transactions: allowed or denied after its own       *)
(* access audit, not found without one, or failed before or after it (an   *)
(* invalid cursor is found out after the audit).                           *)
Operate(w) ==
    LET number == worker[w].request.number
    IN  /\ worker[w].at = "operate"
        /\ \/ Conclude(w, "OK_200") /\ access' = Recorded(number, "ALLOWED")
           \/ Conclude(w, "DENIED_403") /\ access' = Recorded(number, "DENIED")
           \/ Conclude(w, "DENIED_404") /\ UNCHANGED access
           \/ Conclude(w, "ERROR_500") /\ access' \in {access, Recorded(number, "ALLOWED")}
        /\ UNCHANGED <<now, revoked, window, requestAudits, arrived, granted, served, crashes>>

(* What audit_id is the hash of. *)
AuditId(request, outcome) ==
    LET known == outcome # "DENIED_401"
    IN  [id |-> request.id, outcome |-> outcome, second |-> request.instant,
         principal |-> IF known THEN PrincipalOf[request.token] ELSE Unauthenticated,
         token |-> IF known THEN request.token ELSE Forged]

(* A fault: INSERT ... ON CONFLICT DO NOTHING. *)
AppendsQuietly(audit) == TRUE

Appends(audit) == audit \notin requestAudits

(* The audit, and the answer when there is one.  An identifier that is     *)
(* taken raises, and the caller gets an internal error.                    *)
Audit(w) ==
    LET request == worker[w].request
        outcome == worker[w].outcome
        audit == AuditId(request, outcome)
    IN  /\ worker[w].at = "audit"
        /\ requestAudits' = requestAudits \cup {audit}
        /\ served' = IF Appends(audit) /\ outcome = "OK_200"
                     THEN served \cup {request} ELSE served
        /\ worker' = [worker EXCEPT ![w] = Resting]
        /\ UNCHANGED <<now, revoked, window, access, arrived, granted, crashes>>

Crash(w) ==
    /\ worker[w] # Resting
    /\ crashes < MaxCrashes
    /\ crashes' = crashes + 1
    /\ worker' = [worker EXCEPT ![w] = Resting]
    /\ UNCHANGED <<now, revoked, window, access, requestAudits, arrived, granted, served>>

GuardNext ==
    \/ Tick
    \/ \E t \in Tokens : Revoke(t)
    \/ \E w \in Workers :
          \/ \E id \in RequestIds, t \in Tokens \cup {Forged} : Arrive(w, id, t)
          \/ Verify(w) \/ Consume(w) \/ Operate(w) \/ Audit(w)
          \/ Crash(w)

GuardSpec == GuardInit /\ [][GuardNext]_guardVars

-----------------------------------------------------------------------------
(* Properties *)

(* Nothing is served off the record or on a bad token: a read that was      *)
(* answered has its own ALLOWED access audit and a request audit that no    *)
(* other answered request shares, whatever crashes and repeated request ids *)
(* there were, and its token had neither expired nor been revoked when the  *)
(* request arrived.                                                         *)
ServedIsBacked ==
    \A r \in served :
        /\ <<r.number, "ALLOWED">> \in access
        /\ AuditId(r, "OK_200") \in requestAudits
        /\ \A q \in served : AuditId(q, "OK_200") = AuditId(r, "OK_200") => q = r
        /\ ~r.late /\ r.instant < ExpiresAt[r.token]

(* A window never grants more than its limit, although workers fix their    *)
(* instants early and reach the counter late and out of order.              *)
WindowHoldsLimit ==
    \A g \in granted :
        Cardinality({h \in granted : h[2] = g[2] /\ h[3] = g[3]}) <= RequestsPerWindow
=============================================================================
