------------------------- MODULE IdentityContinuity -------------------------
(***************************************************************************)
(* Onboarding and revising an identity: IdentityContinuityService in       *)
(* railone_identity/continuity.py over InMemoryIdentityRepository or       *)
(* PostgresIdentityRepository.                                             *)
(*                                                                         *)
(* A call is one of onboard or of revise.  It reads the bundle in one      *)
(* transaction and writes in another.  In PostgreSQL the write is several  *)
(* statements: an INSERT waits for an uncommitted row with the same unique *)
(* key, an UPDATE for the row's writer, and each sees what is committed    *)
(* when it runs.  A rejected attestation changes nothing and is left out.  *)
(***************************************************************************)
EXTENDS Integers

CONSTANTS
    People,        \* verified subjects, told apart by identity_fingerprint
    Attestations,  \* signed attestations
    SubjectOf,     \* the subject each attestation speaks of
    Corridors,     \* corridors an identity may be onboarded in
    Calls,         \* concurrent calls
    MaxRevisions,  \* bound on the revisions of an identity
    MaxLost        \* bound on the calls that are lost

ASSUME IdentityAssumption ==
    /\ MaxRevisions \in Nat \ {0} /\ MaxLost \in Nat
    /\ SubjectOf \in [Attestations -> People]

VARIABLES
    Postgres,    \* which repository the deployment uses; never changes
    genesis,     \* identity_genesis: the anchors, immutable
    revisions,   \* identity_revisions: append-only
    object,      \* identity_objects: revision (0 when absent) and status
    call,        \* where each call is and what it is about to write
    told,        \* the anchors onboard() returned
    lost         \* how many calls were lost

identityVars == <<Postgres, genesis, revisions, object, call, told, lost>>
identityTables == <<genesis, revisions, object>>

-----------------------------------------------------------------------------
(* Types *)

Statuses == {"ACTIVE", "REVERIFICATION_REQUIRED", "SUSPENDED", "REVOKED"}
Numbers == 1..MaxRevisions

Anchors == [person : People, corridor : Corridors, attestation : Attestations]
Revisions == [person : People, revision : Numbers, status : Statuses,
              attestation : Attestations, seen : Statuses]
Objects == [revision : 0..MaxRevisions, status : Statuses]

Idle == [at |-> "idle"]
CallStates ==
    {Idle}
    \cup [at : {"save", "commit_save"}, anchor : Anchors]
    \cup [at : {"append", "update", "commit"}, revision : Revisions]

IdentityTypeOK ==
    /\ Postgres \in BOOLEAN
    /\ genesis \subseteq Anchors
    /\ revisions \subseteq Revisions
    /\ object \in [People -> Objects]
    /\ call \in [Calls -> CallStates]
    /\ told \subseteq Anchors
    /\ lost \in 0..MaxLost

-----------------------------------------------------------------------------
(* Onboarding *)

IdentityInit ==
    /\ Postgres \in BOOLEAN
    /\ genesis = {} /\ revisions = {} /\ told = {}
    /\ object = [p \in People |-> [revision |-> 0, status |-> "ACTIVE"]]
    /\ call = [c \in Calls |-> Idle]
    /\ lost = 0

Onboarded(person) == object[person].revision > 0

Become(c, state) == call' = [call EXCEPT ![c] = state]

(* onboard() up to the write: an identity that exists is returned. *)
Onboard(c, attestation, corridor) ==
    LET person == SubjectOf[attestation]
    IN  /\ call[c] = Idle
        /\ \/ /\ Onboarded(person)
              /\ told' = told \cup {g \in genesis : g.person = person}
              /\ UNCHANGED call
           \/ /\ ~Onboarded(person)
              /\ Become(c, [at |-> "save",
                            anchor |-> [person |-> person, corridor |-> corridor,
                                        attestation |-> attestation]])
              /\ UNCHANGED told
        /\ UNCHANGED <<identityTables, lost>>

(* The rows of save(), which become visible together. *)
FirstRevision(anchor) ==
    [person |-> anchor.person, revision |-> 1, status |-> "ACTIVE",
     attestation |-> anchor.attestation, seen |-> "ACTIVE"]

WriteIdentity(anchor) ==
    /\ genesis' = genesis \cup {anchor}
    /\ revisions' = revisions \cup {FirstRevision(anchor)}
    /\ object' = [object EXCEPT ![anchor.person] = [revision |-> 1, status |-> "ACTIVE"]]

AnchorIsNew(anchor) ==
    /\ \A g \in genesis : g.person # anchor.person
    /\ Postgres => \A r \in revisions : r.attestation # anchor.attestation

(* InMemoryIdentityRepository.save: a late call is refused. *)
SaveInMemory(c) ==
    /\ call[c].at = "save" /\ ~Postgres
    /\ IF AnchorIsNew(call[c].anchor)
       THEN WriteIdentity(call[c].anchor) /\ told' = told \cup {call[c].anchor}
       ELSE UNCHANGED <<identityTables, told>>
    /\ Become(c, Idle)
    /\ UNCHANGED lost

(* INSERT INTO identity_genesis waits for another save of the same person. *)
InsertGenesis(c) ==
    LET anchor == call[c].anchor
    IN  /\ call[c].at = "save" /\ Postgres
        /\ \A d \in Calls : call[d].at = "commit_save" => call[d].anchor.person # anchor.person
        /\ Become(c, IF AnchorIsNew(anchor) THEN [call[c] EXCEPT !.at = "commit_save"] ELSE Idle)
        /\ UNCHANGED <<identityTables, told, lost>>

CommitSave(c) ==
    /\ call[c].at = "commit_save"
    /\ WriteIdentity(call[c].anchor)
    /\ told' = told \cup {call[c].anchor}
    /\ Become(c, Idle)
    /\ UNCHANGED lost

-----------------------------------------------------------------------------
(* Revising *)

(* A fault: the status read is not looked at. *)
RevisableAlways(person) == Onboarded(person)

Revisable(person) == Onboarded(person) /\ object[person].status # "REVOKED"

(* revise() up to the write: the next revision, built on the one read. *)
Revise(c, attestation, status) ==
    LET person == SubjectOf[attestation]
    IN  /\ call[c] = Idle
        /\ Revisable(person)
        /\ object[person].revision < MaxRevisions
        /\ Become(c, [at |-> "append",
                      revision |-> [person |-> person, status |-> status,
                                    revision |-> object[person].revision + 1,
                                    attestation |-> attestation,
                                    seen |-> object[person].status]])
        /\ UNCHANGED <<identityTables, told, lost>>

(* Faults: the revision read is not compared; an attestation is reusable;  *)
(* the projection keeps its status.                                        *)
ExpectedAny(r) == TRUE
ReusableAttestation(r) == TRUE
KeepsStatus(r) == [object EXCEPT ![r.person] = [@ EXCEPT !.revision = r.revision]]
Expected(r) == object[r.person].revision = r.revision - 1
AttestationIsNew(r) ==
    \A s \in revisions : (Postgres \/ s.person = r.person) => s.attestation # r.attestation
ProjectionOf(r) == [object EXCEPT ![r.person] = [revision |-> r.revision, status |-> r.status]]

WriteRevision(r) ==
    /\ revisions' = revisions \cup {r}
    /\ object' = ProjectionOf(r)
    /\ UNCHANGED genesis

(* InMemoryIdentityRepository.append_revision *)
AppendInMemory(c) ==
    LET r == call[c].revision
    IN  /\ call[c].at = "append" /\ ~Postgres
        /\ IF Expected(r) /\ AttestationIsNew(r)
           THEN WriteRevision(r)
           ELSE UNCHANGED identityTables
        /\ Become(c, Idle)
        /\ UNCHANGED <<told, lost>>

Writing(d) == call[d].at \in {"update", "commit"}

(* INSERT INTO identity_revisions: (continuity_uid, revision) and          *)
(* attestation_id are unique.                                              *)
InsertRevision(c) ==
    LET r == call[c].revision
        clashes(s) == \/ s.person = r.person /\ s.revision = r.revision
                      \/ s.attestation = r.attestation
    IN  /\ call[c].at = "append" /\ Postgres
        /\ \A d \in Calls : Writing(d) => ~clashes(call[d].revision)
        /\ Become(c, IF /\ \A s \in revisions : s.person = r.person => s.revision # r.revision
                        /\ AttestationIsNew(r)
                     THEN [call[c] EXCEPT !.at = "update"]
                     ELSE Idle)
        /\ UNCHANGED <<identityTables, told, lost>>

(* UPDATE identity_objects ... WHERE active_revision = expected AND status *)
(* <> 'REVOKED'; no row updated rolls the transaction back.                *)
UpdateObject(c) ==
    LET r == call[c].revision
    IN  /\ call[c].at = "update"
        /\ \A d \in Calls : call[d].at = "commit" => call[d].revision.person # r.person
        /\ Become(c, IF Expected(r) /\ object[r.person].status # "REVOKED"
                     THEN [call[c] EXCEPT !.at = "commit"]
                     ELSE Idle)
        /\ UNCHANGED <<identityTables, told, lost>>

CommitRevision(c) ==
    /\ call[c].at = "commit"
    /\ WriteRevision(call[c].revision)
    /\ Become(c, Idle)
    /\ UNCHANGED <<told, lost>>

(* The connection or the process is lost and the transaction rolls back. *)
Lose(c) ==
    /\ call[c] # Idle
    /\ lost < MaxLost
    /\ lost' = lost + 1
    /\ Become(c, Idle)
    /\ UNCHANGED <<identityTables, told>>

IdentityStep(c) ==
    \/ \E a \in Attestations, corridor \in Corridors : Onboard(c, a, corridor)
    \/ \E a \in Attestations, status \in Statuses : Revise(c, a, status)
    \/ SaveInMemory(c) \/ InsertGenesis(c) \/ CommitSave(c)
    \/ AppendInMemory(c) \/ InsertRevision(c) \/ UpdateObject(c) \/ CommitRevision(c)
    \/ Lose(c)

IdentityNext == UNCHANGED Postgres /\ \E c \in Calls : IdentityStep(c)

IdentitySpec == IdentityInit /\ [][IdentityNext]_identityVars

-----------------------------------------------------------------------------
(* Properties *)

(* The trust history has no gap and no fork: the revisions of an identity   *)
(* are numbered 1 to active_revision, once each, and the projection shows   *)
(* the status of the last, whatever revise() calls race.                    *)
LineageIsGapless ==
    \A p \in People :
        LET lineage == {r \in revisions : r.person = p}
        IN  /\ {r.revision : r \in lineage} = 1..object[p].revision
            /\ \A r, s \in lineage : r.revision = s.revision => r = s
            /\ \A r \in lineage : r.revision = object[p].revision => r.status = object[p].status

(* No decision is applied over one its author had not seen: the status a    *)
(* revise() call read is the status of the revision just before its own.    *)
DecisionsSawTheirBase ==
    \A r, s \in revisions :
        r.person = s.person /\ s.revision = r.revision + 1 => s.seen = r.status

(* Revocation is the end of an identity: no revision follows a REVOKED one, *)
(* also not one whose revise() began before the revocation.                 *)
NothingAfterRevocation ==
    \A r \in revisions : r.status = "REVOKED" => r.revision = object[r.person].revision

(* One anchor per person, for good: genesis never holds two, and whichever  *)
(* onboard() calls race, those that return name the one that is stored.     *)
AnchorsAreStable ==
    /\ \A g, h \in genesis : g.person = h.person => g = h
    /\ told \subseteq genesis

(* An attestation counts once: no two revisions rest on the same one, also  *)
(* where the in-memory repository looks at one person's revisions only.     *)
AttestationsCountOnce ==
    \A r, s \in revisions : r.attestation = s.attestation => r = s

(* Either repository, with its calls interleaved and lost, does what the    *)
(* abstract trust history does in one step per call: the revisions of a     *)
(* person in the order of their numbers are the history.                    *)
HistoryOf ==
    [p \in People |->
        [n \in 1..object[p].revision |-> CHOOSE r \in revisions : r.person = p /\ r.revision = n]]

Trust == INSTANCE TrustHistory WITH anchors <- genesis, history <- HistoryOf

ImplementsTrustHistory == Trust!Init /\ [][Trust!Next]_(Trust!historyVars)
=============================================================================
