--------------------------- MODULE QuoteAcceptance ---------------------------
(***************************************************************************)
(* Accepting a signed quote: QuoteAcceptanceService.accept in              *)
(* railone_contracts/acceptance_service.py over the transaction of         *)
(* PostgresContractStore.commit_acceptance.                                *)
(*                                                                         *)
(* A caller is one accept() call.  Its transaction runs at READ COMMITTED, *)
(* so every statement sees what is committed when it runs, and an INSERT   *)
(* that meets an uncommitted row with the same unique key waits for that   *)
(* transaction to end.  Rows written but not committed are implied by      *)
(* where the caller is; the tables hold what is committed.                 *)
(***************************************************************************)
EXTENDS Integers

CONSTANTS
    Callers,     \* concurrent calls of accept
    Keys,        \* idempotency keys
    Requests,    \* acceptance requests, told apart by request_sha256
    QuoteOf,     \* the quote each request accepts
    IssuedAt,    \* when each quote becomes valid
    ExpiresAt,   \* when each quote stops being valid
    NoContract,  \* no row
    MaxTime,     \* bound on the clock
    MaxCrashes   \* bound on the crashes of callers

Times == 0..MaxTime

(* The commercial core hashed into utt_id differs only in these. *)
Contracts == [request : Requests, accepted_at : Times]

ASSUME AcceptanceAssumption ==
    /\ MaxTime \in Nat /\ MaxCrashes \in Nat
    /\ NoContract \notin Contracts
    /\ Keys # {} /\ Requests # {}

VARIABLES
    now,             \* the clock
    accepted_utts,   \* table: the contracts sold
    authorities,     \* table: the contracts whose ETK-S is stored
    idempotency,     \* table: the contract of each key, or NoContract
    caller,          \* where each accept() call is
    answered,        \* the pairs of key and contract callers were given
    crashes          \* how often a caller crashed

vars == <<now, accepted_utts, authorities, idempotency, caller, answered, crashes>>
tables == <<accepted_utts, authorities, idempotency>>

-----------------------------------------------------------------------------
(* Types *)

Refusals == {"conflict", "quote_taken", "key_race", "not_valid"}
Locations == {"idle", "resolve", "select", "insert_utt", "lookup",
              "insert_authority", "insert_key", "commit", "respond"}

CallerStates ==
    [at : Locations, key : Keys, contract : Contracts,
     outcome : Refusals \cup {"none", "answered", "crashed"}]

TypeOK ==
    /\ now \in Times
    /\ accepted_utts \subseteq Contracts /\ authorities \subseteq Contracts
    /\ idempotency \in [Keys -> Contracts \cup {NoContract}]
    /\ caller \in [Callers -> CallerStates]
    /\ answered \subseteq Keys \X Contracts
    /\ crashes \in 0..MaxCrashes

Quote(contract) == QuoteOf[contract.request]

-----------------------------------------------------------------------------
(* The transaction *)

Init ==
    /\ now = 0
    /\ accepted_utts = {} /\ authorities = {}
    /\ idempotency = [k \in Keys |-> NoContract]
    /\ caller = [c \in Callers |->
          [at |-> "idle", key |-> CHOOSE k \in Keys : TRUE, outcome |-> "none",
           contract |-> [request |-> CHOOSE r \in Requests : TRUE, accepted_at |-> 0]]]
    /\ answered = {}
    /\ crashes = 0

Tick ==
    /\ now < MaxTime
    /\ now' = now + 1
    /\ UNCHANGED <<tables, caller, answered, crashes>>

Goto(c, at) ==
    /\ caller' = [caller EXCEPT ![c] = [@ EXCEPT !.at = at]]
    /\ UNCHANGED answered

Refuse(c, why) ==
    /\ caller' = [caller EXCEPT ![c] = [@ EXCEPT !.at = "idle", !.outcome = why]]
    /\ UNCHANGED answered

Answer(c, key, contract) ==
    /\ caller' = [caller EXCEPT ![c] = [@ EXCEPT !.at = "idle", !.outcome = "answered"]]
    /\ answered' = answered \cup {<<key, contract>>}

(* A fault: the replay hands out the contract the caller just built. *)
RebuiltContract(c, key) == caller[c].contract

StoredContract(c, key) == idempotency[key]

(* The stored contract answers the same request and refuses another. *)
Replay(c, key, request) ==
    /\ idempotency[key] # NoContract
    /\ \/ idempotency[key].request = request /\ Answer(c, key, StoredContract(c, key))
       \/ idempotency[key].request # request /\ Refuse(c, "conflict")

Accept(c, key, request) ==
    /\ caller[c].at = "idle"
    /\ caller' = [caller EXCEPT ![c] =
          [at |-> "resolve", key |-> key, outcome |-> "none",
           contract |-> [request |-> request, accepted_at |-> now]]]
    /\ UNCHANGED <<now, tables, answered, crashes>>

Valid(quote, at) == IssuedAt[quote] <= at /\ at < ExpiresAt[quote]

Acceptable(request) == Valid(QuoteOf[request], now)
Contract(request) == [request |-> request, accepted_at |-> now]

(* accept() up to the transaction: resolve_idempotency, then the clock      *)
(* against the quote's window, then the UTT and its ETK-S are built.        *)
Resolve(c) ==
    LET request == caller[c].contract.request
    IN  /\ caller[c].at = "resolve"
        /\ \/ Replay(c, caller[c].key, request)
           \/ /\ idempotency[caller[c].key] = NoContract
              /\ Acceptable(request)
              /\ caller' = [caller EXCEPT ![c] =
                    [@ EXCEPT !.at = "select", !.contract = Contract(request)]]
              /\ UNCHANGED answered
           \/ /\ idempotency[caller[c].key] = NoContract
              /\ ~Acceptable(request)
              /\ Refuse(c, "not_valid")
        /\ UNCHANGED <<now, tables, crashes>>

(* SELECT ... FOR UPDATE OF the idempotency row, and its replay. *)
SelectKey(c) ==
    /\ caller[c].at = "select"
    /\ \/ Replay(c, caller[c].key, caller[c].contract.request)
       \/ idempotency[caller[c].key] = NoContract /\ Goto(c, "insert_utt")
    /\ UNCHANGED <<now, tables, crashes>>

HoldsUtt(d) == caller[d].at \in {"insert_authority", "insert_key", "commit"}
HoldsKey(d) == caller[d].at = "commit"

(* Faults: the insert does not wait; only utt_id is unique. *)
InsertsAtOnce(c) == TRUE
(* quote_id and utt_id are unique, and equal utt_ids have equal quotes. *)
NoRowAhead(c) ==
    \A d \in Callers \ {c} :
        HoldsUtt(d) => Quote(caller[d].contract) # Quote(caller[c].contract)
Unsold(contract) == \A utt \in accepted_utts : Quote(utt) # Quote(contract)

(* INSERT INTO accepted_utts ... ON CONFLICT DO NOTHING *)
InsertUtt(c) ==
    /\ caller[c].at = "insert_utt"
    /\ NoRowAhead(c)
    /\ Goto(c, IF Unsold(caller[c].contract) THEN "insert_authority" ELSE "lookup")
    /\ UNCHANGED <<now, tables, crashes>>

(* A fault: the quote is reported sold without looking at the key again. *)
RefuseTheLoser(c) == caller[c].at = "lookup" /\ Refuse(c, "quote_taken") /\ UNCHANGED <<now, tables, crashes>>

(* The insert did nothing: the winner may be an earlier call with this key. *)
LookupWinner(c) ==
    /\ caller[c].at = "lookup"
    /\ \/ Replay(c, caller[c].key, caller[c].contract.request)
       \/ idempotency[caller[c].key] = NoContract /\ Refuse(c, "quote_taken")
    /\ UNCHANGED <<now, tables, crashes>>

InsertAuthority(c) ==
    /\ caller[c].at = "insert_authority"
    /\ Goto(c, "insert_key")
    /\ UNCHANGED <<now, tables, crashes>>

(* Faults: the later call takes the key over; it tries the insert again. *)
TakeTheKeyOver(c) == Goto(c, "commit")
RetryInPlace(c) == UNCHANGED <<caller, answered>>

AfterKeyRace(c) == Refuse(c, "key_race")

(* INSERT INTO acceptance_idempotency ... ON CONFLICT DO NOTHING: a key    *)
(* that was taken meanwhile raises, and the whole transaction rolls back.  *)
InsertKey(c) ==
    /\ caller[c].at = "insert_key"
    /\ \A d \in Callers \ {c} : HoldsKey(d) => caller[d].key # caller[c].key
    /\ IF idempotency[caller[c].key] = NoContract
       THEN Goto(c, "commit")
       ELSE AfterKeyRace(c)
    /\ UNCHANGED <<now, tables, crashes>>

(* A fault: the row is dated when it is written. *)
WrittenWithItsOwnDate(c) == [caller[c].contract EXCEPT !.accepted_at = now]

Written(c) == caller[c].contract

Commit(c) ==
    LET contract == Written(c)
    IN  /\ caller[c].at = "commit"
        /\ accepted_utts' = accepted_utts \cup {contract}
        /\ authorities' = authorities \cup {contract}
        /\ idempotency' = [idempotency EXCEPT ![caller[c].key] = contract]
        /\ Goto(c, "respond")
        /\ UNCHANGED <<now, crashes>>

Respond(c) ==
    /\ caller[c].at = "respond"
    /\ Answer(c, caller[c].key, caller[c].contract)
    /\ UNCHANGED <<now, tables, crashes>>

(* The connection or the process is lost: what was not committed is gone,  *)
(* and after the commit it is only the answer that is lost.                *)
Crash(c) ==
    /\ caller[c].at # "idle"
    /\ crashes < MaxCrashes
    /\ crashes' = crashes + 1
    /\ Refuse(c, "crashed")
    /\ UNCHANGED <<now, tables>>

Step(c) ==
    \/ Resolve(c) \/ SelectKey(c) \/ InsertUtt(c) \/ LookupWinner(c)
    \/ InsertAuthority(c) \/ InsertKey(c) \/ Commit(c) \/ Respond(c)

Next ==
    \/ Tick
    \/ \E c \in Callers :
          \/ \E key \in Keys, request \in Requests : Accept(c, key, request)
          \/ Step(c)
          \/ Crash(c)

Spec == Init /\ [][Next]_vars

(* A call that was made goes on unless its process dies. *)
FairSpec == Spec /\ \A c \in Callers : WF_vars(Step(c))

-----------------------------------------------------------------------------
(* Properties *)

(* The three tables tell one story: every UTT has its ETK-S and is the      *)
(* contract of exactly one idempotency key, and no key points at a contract *)
(* that was rolled back by the key race or by a crash.                      *)
NoHalfAcceptance ==
    /\ accepted_utts = {idempotency[k] : k \in Keys} \ {NoContract}
    /\ authorities = accepted_utts
    /\ \A j, k \in Keys : idempotency[j] = idempotency[k] /\ j # k => idempotency[k] = NoContract

(* What a caller was told stays true: the contract is the one its key is    *)
(* bound to, so every retry with the key, concurrent or after a lost        *)
(* answer, gets the same UTT.                                               *)
AnswersAreDurable ==
    \A pair \in answered : idempotency[pair[1]] = pair[2]

(* A refusal is never wrong: "different request material" is said only of a *)
(* key bound to another request, and "quote already accepted" only when     *)
(* another key bought the quote, never to a retry that raced its own first  *)
(* call (the comment in commit_acceptance: the caller "must return the      *)
(* original contract").                                                     *)
RefusalsAreTrue ==
    \A c \in Callers :
        LET k == caller[c].key
            contract == caller[c].contract
        IN  /\ caller[c].outcome = "conflict" =>
                  idempotency[k] # NoContract /\ idempotency[k].request # contract.request
            /\ caller[c].outcome = "quote_taken" =>
                  \E j \in Keys \ {k} :
                      idempotency[j] # NoContract /\ Quote(idempotency[j]) = Quote(contract)
            /\ caller[c].outcome = "key_race" =>
                  idempotency[k] # NoContract /\ idempotency[k].request # contract.request

(* A contract is never sold outside the window of its quote, although the   *)
(* window is checked before the transaction and the clock moves on while    *)
(* the transaction waits: accepted_at is the time of the check.             *)
SoldInsideWindow ==
    \A utt \in accepted_utts : Valid(Quote(utt), utt.accepted_at)

(* The calls that wait for each other's rows never wait in a circle: every  *)
(* accept() ends.                                                           *)
CallsEnd == \A c \in Callers : caller[c].at # "idle" ~> caller[c].at = "idle"

(* The statements of concurrent transactions together do what the           *)
(* single-lock in-memory store does in one step.                            *)
Ledger == INSTANCE AcceptanceLedger WITH bound <- idempotency, told <- answered

ImplementsLedger == Ledger!Init /\ [][Ledger!Next]_(Ledger!ledgerVars)
=============================================================================
