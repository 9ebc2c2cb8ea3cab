------------------------- MODULE TransactionHistory -------------------------
(***************************************************************************)
(* Indexing accepted UTTs and reading them back: UttTransactionIndexer and *)
(* TransactionHistoryService in railone_history/service.py over            *)
(* railone_history/store.py or railone_postgres/history.py.                *)
(*                                                                         *)
(* UTTs are indexed in any order and again after a lost answer, while      *)
(* readers page through a subject's history.  A page takes two             *)
(* transactions: the access audit and then the rows.                       *)
(***************************************************************************)
EXTENDS Integers, FiniteSets

CONSTANTS
    Utts,          \* accepted UTTs
    AcceptedAt,    \* the second each UTT was accepted
    Rank,          \* the order of the utt_id strings
    Context,       \* the context_type of each UTT's origin
    Origin,        \* the subject in each field of its origin
    Payer,         \* the payer as a subject
    Beneficiary,   \* the beneficiary as a subject
    Subjects,      \* continuity UIDs, merchants, branches, partners
    People,        \* the subjects that are continuity UIDs
    Nobody,        \* an absent origin field, or an actor that is not indexed
    Readers,       \* concurrent readers
    Scopes,        \* the read contexts of principals
    Limit          \* rows on a page

NewestFirst == "newest"    \* the first page has no cursor
OriginFields == {"continuity_uid", "merchant_id", "branch_id", "partner_id"}

ASSUME HistoryAssumption ==
    /\ Limit \in Nat \ {0}
    /\ AcceptedAt \in [Utts -> Nat] /\ Rank \in [Utts -> Nat] /\ NewestFirst \notin Utts
    /\ People \subseteq Subjects /\ Nobody \notin Subjects
    /\ \A u, v \in Utts : Rank[u] = Rank[v] => u = v
    /\ \A u \in Utts : DOMAIN Origin[u] \subseteq OriginFields

VARIABLES
    known,     \* the continuity UIDs that were onboarded
    links,     \* utt_subject_links
    reader,    \* what each reader is doing and has seen
    audits     \* transaction_access_audit

vars == <<known, links, reader, audits>>

-----------------------------------------------------------------------------
(* Types *)

TransactionRoles == {"PAYER", "BENEFICIARY", "AUTHORIZER",
                     "ORIGIN_MERCHANT", "ORIGIN_BRANCH", "ORIGIN_PARTNER"}

Links == [utt : Utts, subject : Subjects, roles : SUBSET TransactionRoles]
Idle == [at |-> "idle"]
Pagings ==
    [at : {"audit", "rows", "done"}, scope : Scopes, subject : Subjects,
     cursor : Utts \cup {NewestFirst}, seen : SUBSET Utts,
     shown : Nat, began : SUBSET Utts]

TypeOK ==
    /\ known \subseteq People
    /\ links \subseteq Links
    /\ reader \in [Readers -> {Idle} \cup Pagings]
    /\ audits \subseteq [reader : Readers, target : Subjects \cup Utts,
                         outcome : {"ALLOWED", "DENIED"}]

-----------------------------------------------------------------------------
(* Indexing *)

(* The roles index() gives a subject: origin fields first, then the actors. *)
OriginRole(u, field) ==
    CASE field = "merchant_id" -> "ORIGIN_MERCHANT"
      [] field = "branch_id" -> "ORIGIN_BRANCH"
      [] field = "partner_id" -> "ORIGIN_PARTNER"
      [] field = "continuity_uid" -> IF Context[u] = "P2P" THEN "PAYER" ELSE "AUTHORIZER"

OriginRoles(u, subject) ==
    {OriginRole(u, field) : field \in {f \in DOMAIN Origin[u] : Origin[u][f] = subject}}

ActorRoles(u, subject) ==
    {role \in {"PAYER", "BENEFICIARY"} :
        subject = (IF role = "PAYER" THEN Payer[u] ELSE Beneficiary[u])}

Involved(u) == {s \in Subjects : OriginRoles(u, s) \cup ActorRoles(u, s) # {}}

(* A fault: the role of an actor replaces the role from the origin. *)
ReplacedLinks(u) ==
    {[utt |-> u, subject |-> s,
      roles |-> IF ActorRoles(u, s) # {} THEN ActorRoles(u, s) ELSE OriginRoles(u, s)] :
        s \in Involved(u)}

LinksOf(u) ==
    {[utt |-> u, subject |-> s, roles |-> OriginRoles(u, s) \cup ActorRoles(u, s)] :
        s \in Involved(u)}

Indexed(u) == \E link \in links : link.utt = u

(* The environment onboards an identity. *)
Onboard(person) ==
    /\ known' = known \cup {person}
    /\ UNCHANGED <<links, reader, audits>>

(* index() and the commit of the projection with its links: an unknown     *)
(* continuity UID refuses the UTT, and a UTT that is there stays as it is. *)
Index(u) ==
    /\ Involved(u) \cap People \subseteq known
    /\ Involved(u) # {}
    /\ links' = IF Indexed(u) THEN links ELSE links \cup LinksOf(u)
    /\ UNCHANGED <<known, reader, audits>>

-----------------------------------------------------------------------------
(* Reading *)

(* A fault: a privileged reader needs no reason. *)
MayReadUnexplained(scope, subject) == scope.privileged \/ subject \in scope.subjects

MayRead(scope, subject) ==
    IF scope.privileged THEN scope.reason ELSE subject \in scope.subjects

AuditRow(r, target, allowed) ==
    [reader |-> r, target |-> target, outcome |-> IF allowed THEN "ALLOWED" ELSE "DENIED"]

Linked(subject) == {link.utt : link \in {l \in links : l.subject = subject}}

(* list_by_subject without a cursor, and with the cursor of the last page. *)
Begin(r, scope, subject) ==
    /\ reader[r] = Idle
    /\ reader' = [reader EXCEPT ![r] =
          [at |-> "audit", scope |-> scope, subject |-> subject, cursor |-> NewestFirst,
           seen |-> {}, shown |-> 0, began |-> {}]]
    /\ UNCHANGED <<known, links, audits>>

Authorize(r) ==
    LET allowed == MayRead(reader[r].scope, reader[r].subject)
    IN  /\ reader[r].at = "audit"
        /\ audits' = audits \cup {AuditRow(r, reader[r].subject, allowed)}
        /\ reader' = [reader EXCEPT ![r] = IF allowed THEN [@ EXCEPT !.at = "rows"] ELSE Idle]
        /\ UNCHANGED <<known, links>>

(* (accepted_at, utt_id), compared as the sort and the cursor do. *)
Older(u, v) ==
    \/ AcceptedAt[u] < AcceptedAt[v]
    \/ AcceptedAt[u] = AcceptedAt[v] /\ Rank[u] < Rank[v]

(* A fault: the cursor keeps only the second. *)
BeyondSecond(u, cursor) == AcceptedAt[u] < AcceptedAt[cursor]

Beyond(u, cursor) == Older(u, cursor)

Rows(r) == {u \in Linked(reader[r].subject) :
               reader[r].cursor # NewestFirst => Beyond(u, reader[r].cursor)}

Page(rows) == {u \in rows : Cardinality({v \in rows : Older(u, v)}) < Limit}

(* A reader after the next page of the rows: its next_cursor is the last   *)
(* row shown, and there is none when the rows fit on the page.             *)
Turned(k, rows) ==
    LET page == Page(rows)
        more == Cardinality(rows) > Limit
        last == CHOOSE u \in page : \A v \in page : u = v \/ Older(u, v)
    IN  [k EXCEPT !.seen = k.seen \cup page,
                  !.shown = k.shown + Cardinality(page),
                  !.began = IF k.cursor = NewestFirst THEN rows ELSE k.began,
                  !.cursor = IF more THEN last ELSE k.cursor,
                  !.at = IF more THEN "audit" ELSE "done"]

Fetch(r) ==
    /\ reader[r].at = "rows"
    /\ reader' = [reader EXCEPT ![r] = Turned(reader[r], Rows(r))]
    /\ UNCHANGED <<known, links, audits>>

(* The reader turns to something else, at any time. *)
Leave(r) ==
    /\ reader[r] # Idle
    /\ reader' = [reader EXCEPT ![r] = Idle]
    /\ UNCHANGED <<known, links, audits>>

(* get_by_utt: the audit names the UTT; a UTT that is not indexed raises   *)
(* before it.                                                              *)
GetByUtt(r, scope, u) ==
    LET allowed == IF scope.privileged THEN scope.reason
                   ELSE \E link \in links : link.utt = u /\ MayRead(scope, link.subject)
    IN  /\ reader[r] = Idle
        /\ Indexed(u)
        /\ audits' = audits \cup {AuditRow(r, u, allowed)}
        /\ UNCHANGED <<known, links, reader>>

Next ==
    \/ \E person \in People : Onboard(person)
    \/ \E u \in Utts : Index(u)
    \/ \E r \in Readers :
          \/ \E scope \in Scopes, subject \in Subjects : Begin(r, scope, subject)
          \/ \E scope \in Scopes, u \in Utts : GetByUtt(r, scope, u)
          \/ Authorize(r) \/ Fetch(r) \/ Leave(r)

Init ==
    /\ known = {} /\ links = {} /\ audits = {}
    /\ reader = [r \in Readers |-> Idle]

Spec == Init /\ [][Next]_vars

-----------------------------------------------------------------------------
(* Properties *)

(* Paging is exact while transactions are indexed between two pages: a      *)
(* reader who reaches the last page has seen every transaction that was     *)
(* linked to the subject when the first page was read, also those accepted  *)
(* in the same second, and none is shown on two pages.                      *)
PagingIsExact ==
    \A r \in Readers : reader[r] # Idle =>
        /\ reader[r].at = "done" => reader[r].began \subseteq reader[r].seen
        /\ reader[r].shown = Cardinality(reader[r].seen)

(* A reader sees only transactions linked to a subject the scope covers, a  *)
(* privileged one only with a reason, and not before the ALLOWED audit row  *)
(* is stored.                                                               *)
ReadsAreScopedAndAudited ==
    \A r \in Readers : reader[r] # Idle /\ reader[r].seen # {} =>
        /\ reader[r].scope.privileged \/ reader[r].subject \in reader[r].scope.subjects
        /\ reader[r].scope.privileged => reader[r].scope.reason
        /\ AuditRow(r, reader[r].subject, TRUE) \in audits
        /\ \A u \in reader[r].seen : u \in Linked(reader[r].subject)

(* The parts a UTT gives a subject, role by role. *)
Plays(u, s, role) ==
    LET In(field) == field \in DOMAIN Origin[u] /\ Origin[u][field] = s
    IN  CASE role = "PAYER" -> s = Payer[u] \/ (Context[u] = "P2P" /\ In("continuity_uid"))
          [] role = "BENEFICIARY" -> s = Beneficiary[u]
          [] role = "AUTHORIZER" -> Context[u] # "P2P" /\ In("continuity_uid")
          [] role = "ORIGIN_MERCHANT" -> In("merchant_id")
          [] role = "ORIGIN_BRANCH" -> In("branch_id")
          [] role = "ORIGIN_PARTNER" -> In("partner_id")

Parts(u, s) == {role \in TransactionRoles : Plays(u, s, role)}

(* The roles under which a subject's history shows a transaction. *)
Shown(u, s) == {link.roles : link \in {l \in links : l.utt = u /\ l.subject = s}}

(* An indexed transaction is in the history of each subject its origin or   *)
(* its actors name, once and under all the parts the subject plays in it,   *)
(* and in no other history, whenever it was indexed and however often       *)
(* index() was repeated.                                                    *)
ParticipantsFindTheirs ==
    \A u \in Utts, s \in Subjects :
        Shown(u, s) = IF Indexed(u) /\ Parts(u, s) # {} THEN {Parts(u, s)} ELSE {}
=============================================================================
