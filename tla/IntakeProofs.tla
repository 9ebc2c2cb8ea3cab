----------------------------- MODULE IntakeProofs -----------------------------
(***************************************************************************)
(* What happens before execution: onboarding an identity and accepting a   *)
(* quote.                                                                  *)
(*                                                                         *)
(* Identity, for any number of people, calls and attestations, over either *)
(* repository. The inductive invariant says what a pending revision may    *)
(* rely on: the revision it was built on exists, and as long as that one   *)
(* is the active revision its status is the status the call read. A call   *)
(* that has updated the projection, or inserted the anchor, is the only    *)
(* one to have done so for its person. A second invariant, on top of it,   *)
(* follows the attestations: each speaks of one person and is spent by one *)
(* pending revision at most. With both, every write is one step of the     *)
(* abstract trust history.                                                 *)
(*                                                                         *)
(* Quote acceptance, for any number of calls, keys and requests. What the  *)
(* statements of one transaction may assume of the tables when they run is *)
(* the inductive invariant: who has inserted a UTT row holds the quote     *)
(* alone, who has inserted the key row holds the key alone, and neither is *)
(* in the committed tables yet.                                            *)
(***************************************************************************)
EXTENDS IdentityContinuity, QuoteAcceptance, Sequences, TLAPS

-----------------------------------------------------------------------------
(* Identity continuity *)

Anchored(p) == \E g \in genesis : g.person = p

Saving(s) == s.at \in {"save", "commit_save"}
Revising(s) == s.at \in {"append", "update", "commit"}

\* The revision r was built on a revision that exists, and on its status.
BuiltOn(r) ==
    /\ 1 <= r.revision - 1 /\ r.revision - 1 <= object[r.person].revision
    /\ r.seen # "REVOKED"
    /\ Expected(r) => object[r.person].status = r.seen

\* What a call c in state s relies on.
Relies(c, s) ==
    /\ Revising(s) => BuiltOn(s.revision)
    /\ s.at \in {"commit_save", "update", "commit"} => Postgres
    /\ s.at = "commit" =>
          /\ Expected(s.revision)
          /\ \A d \in Calls \ {c} :
                call[d].at = "commit" => call[d].revision.person # s.revision.person
    /\ s.at = "commit_save" =>
          /\ ~Anchored(s.anchor.person)
          /\ \A d \in Calls \ {c} :
                call[d].at = "commit_save" => call[d].anchor.person # s.anchor.person

AnchorsAreObjects == \A p \in People : Anchored(p) <=> Onboarded(p)

IdentityInv ==
    /\ IdentityTypeOK
    /\ LineageIsGapless /\ DecisionsSawTheirBase /\ NothingAfterRevocation
    /\ AnchorsAreObjects
    /\ \A c \in Calls : Relies(c, call[c])

-----------------------------------------------------------------------------
(* Steps that write no table *)

LEMMA CallLocalStep ==
    ASSUME IdentityInv, NEW c \in Calls, NEW s \in CallStates,
           UNCHANGED <<Postgres, identityTables>>, call' = [call EXCEPT ![c] = s],
           told' \subseteq Anchors, lost' \in 0..MaxLost, Relies(c, s)
    PROVE  IdentityInv'
<1>0. UNCHANGED <<Postgres, genesis, revisions, object>>
  BY DEF identityTables
<1>1. /\ call' \in [Calls -> CallStates]
      /\ call'[c] = s /\ \A d \in Calls \ {c} : call'[d] = call[d]
  BY DEF IdentityInv, IdentityTypeOK
<1>2. IdentityTypeOK'
  BY <1>0, <1>1 DEF IdentityInv, IdentityTypeOK
<1>3. LineageIsGapless' /\ DecisionsSawTheirBase' /\ NothingAfterRevocation' /\ AnchorsAreObjects'
  BY <1>0 DEF IdentityInv, LineageIsGapless, DecisionsSawTheirBase, NothingAfterRevocation,
     AnchorsAreObjects, Anchored, Onboarded
<1>4. ASSUME NEW e \in Calls PROVE Relies(e, call[e])'
  <2>1. CASE e = c
    BY <1>0, <1>1, <2>1 DEF Relies, Revising, BuiltOn, Expected, Anchored
  <2>2. CASE e # c
    <3>1. Relies(e, call[e]) /\ call'[e] = call[e]
      BY <1>1, <2>2 DEF IdentityInv
    <3> QED
      BY <1>0, <1>1, <2>2, <3>1 DEF Relies, Revising, BuiltOn, Expected, Anchored
  <2> QED
    BY <2>1, <2>2
<1> QED
  BY <1>2, <1>3, <1>4 DEF IdentityInv

LEMMA IdleRelies == ASSUME NEW c PROVE Idle \in CallStates /\ Relies(c, Idle)
BY DEF CallStates, Relies, Revising, Idle

LEMMA SavingState ==
    ASSUME NEW s \in CallStates, Saving(s)
    PROVE  /\ s.anchor \in Anchors /\ s # Idle
           /\ LET t == [s EXCEPT !.at = "commit_save"]
              IN  t \in CallStates /\ t.at = "commit_save" /\ t.anchor = s.anchor
BY DEF CallStates, Saving, Idle

LEMMA RevisingState ==
    ASSUME NEW s \in CallStates, Revising(s), NEW at \in {"append", "update", "commit"}
    PROVE  /\ s.revision \in Revisions /\ s # Idle
           /\ LET t == [s EXCEPT !.at = at]
              IN  t \in CallStates /\ t.at = at /\ t.revision = s.revision
BY DEF CallStates, Revising, Idle

(* A call that returns, raises or is lost without a write. *)
LEMMA LeaveInv ==
    ASSUME IdentityInv, NEW c \in Calls, Become(c, Idle),
           UNCHANGED <<Postgres, identityTables, told>>, lost' \in 0..MaxLost
    PROVE  IdentityInv'
BY Zenon, IdleRelies, CallLocalStep DEF Become, IdentityInv, IdentityTypeOK

LEMMA OnboardInv ==
    ASSUME IdentityInv, UNCHANGED Postgres, NEW c \in Calls, NEW a \in Attestations,
           NEW corridor \in Corridors, Onboard(c, a, corridor)
    PROVE  IdentityInv'
<1> DEFINE anchor == [person |-> SubjectOf[a], corridor |-> corridor, attestation |-> a]
           t == [at |-> "save", anchor |-> anchor]
<1>1. /\ call[c] = Idle /\ UNCHANGED <<identityTables, lost>> /\ lost' \in 0..MaxLost
      /\ told \subseteq Anchors /\ genesis \subseteq Anchors /\ call \in [Calls -> CallStates]
  BY DEF Onboard, IdentityInv, IdentityTypeOK
<1>2. CASE told' = told \cup {g \in genesis : g.person = SubjectOf[a]} /\ UNCHANGED call
  <2>1. told' \subseteq Anchors /\ call' = [call EXCEPT ![c] = Idle]
    BY <1>1, <1>2
  <2> QED
    BY Zenon, <1>1, <2>1, IdleRelies, CallLocalStep
<1>3. CASE Become(c, t) /\ UNCHANGED told
  <2>1. anchor \in Anchors
    BY IdentityAssumption DEF Anchors
  <2>2. t \in CallStates /\ t.at = "save"
    BY <2>1 DEF CallStates
  <2> HIDE DEF t
  <2>3. Relies(c, t)
    BY <2>2 DEF Relies, Revising
  <2> QED
    BY Zenon, <1>1, <1>3, <2>2, <2>3, CallLocalStep DEF Become
<1> QED
  BY <1>2, <1>3 DEF Onboard

LEMMA ReviseInv ==
    ASSUME IdentityInv, UNCHANGED Postgres, NEW c \in Calls, NEW a \in Attestations,
           NEW status \in Statuses, Revise(c, a, status)
    PROVE  IdentityInv'
<1> DEFINE p == SubjectOf[a]
           r == [person |-> p, status |-> status, revision |-> object[p].revision + 1,
                 attestation |-> a, seen |-> object[p].status]
           t == [at |-> "append", revision |-> r]
<1>1. /\ UNCHANGED <<identityTables, told, lost>> /\ lost' \in 0..MaxLost /\ told' \subseteq Anchors
      /\ Become(c, t) /\ Revisable(p) /\ object[p].revision < MaxRevisions
  BY DEF Revise, IdentityInv, IdentityTypeOK
<1>2. p \in People /\ object[p] \in Objects
  BY IdentityAssumption DEF IdentityInv, IdentityTypeOK
<1>3. object[p].revision \in Nat /\ object[p].status \in Statuses
      /\ object[p].revision + 1 \in Numbers /\ object[p].revision > 0
  BY <1>1, <1>2, IdentityAssumption DEF Objects, Numbers, Revisable, Onboarded
<1>4. /\ r \in Revisions /\ r.person = p /\ r.revision = object[p].revision + 1
      /\ r.seen = object[p].status
  BY <1>2, <1>3 DEF Revisions
<1> HIDE DEF r
<1>5. t \in CallStates /\ t.at = "append" /\ t.revision = r
  BY <1>4 DEF CallStates
<1> HIDE DEF t
<1>6. BuiltOn(r)
  BY <1>1, <1>3, <1>4 DEF BuiltOn, Revisable
<1>7. Relies(c, t)
  BY <1>5, <1>6 DEF Relies, Revising
<1> QED
  BY Zenon, <1>1, <1>5, <1>7, CallLocalStep DEF Become

LEMMA InsertGenesisInv ==
    ASSUME IdentityInv, UNCHANGED Postgres, NEW c \in Calls, InsertGenesis(c)
    PROVE  IdentityInv'
<1> DEFINE t == [call[c] EXCEPT !.at = "commit_save"]
<1>1. /\ UNCHANGED <<identityTables, told, lost>> /\ lost' \in 0..MaxLost /\ told' \subseteq Anchors
      /\ call[c] \in CallStates /\ call[c].at = "save" /\ Postgres
      /\ \A d \in Calls : call[d].at = "commit_save" =>
                                call[d].anchor.person # call[c].anchor.person
  BY DEF InsertGenesis, IdentityInv, IdentityTypeOK
<1>2. CASE Become(c, Idle)
  BY <1>1, <1>2, LeaveInv
<1>3. CASE AnchorIsNew(call[c].anchor) /\ Become(c, t)
  <2>1. t \in CallStates /\ t.at = "commit_save" /\ t.anchor = call[c].anchor
    BY <1>1, SavingState DEF Saving
  <2> HIDE DEF t
  <2>2. Relies(c, t)
    BY <1>1, <1>3, <2>1 DEF Relies, Revising, AnchorIsNew, Anchored
  <2> QED
    BY Zenon, <1>1, <1>3, <2>1, <2>2, CallLocalStep DEF Become
<1> QED
  BY <1>2, <1>3 DEF InsertGenesis

LEMMA InsertRevisionInv ==
    ASSUME IdentityInv, UNCHANGED Postgres, NEW c \in Calls, InsertRevision(c)
    PROVE  IdentityInv'
<1> DEFINE t == [call[c] EXCEPT !.at = "update"]
<1>1. /\ UNCHANGED <<identityTables, told, lost>> /\ lost' \in 0..MaxLost /\ told' \subseteq Anchors
      /\ call[c] \in CallStates /\ call[c].at = "append" /\ Postgres /\ Relies(c, call[c])
      /\ (Become(c, Idle) \/ Become(c, t))
  BY DEF InsertRevision, IdentityInv, IdentityTypeOK
<1>2. t \in CallStates /\ t.at = "update" /\ t.revision = call[c].revision
  BY Zenon, <1>1, RevisingState DEF Revising
<1> HIDE DEF t
<1>3. Relies(c, t)
  BY <1>1, <1>2 DEF Relies, Revising
<1>4. CASE Become(c, t)
  BY Zenon, <1>1, <1>2, <1>3, <1>4, CallLocalStep DEF Become
<1> QED
  BY <1>1, <1>4, LeaveInv

LEMMA UpdateObjectInv ==
    ASSUME IdentityInv, UNCHANGED Postgres, NEW c \in Calls, UpdateObject(c)
    PROVE  IdentityInv'
<1> DEFINE t == [call[c] EXCEPT !.at = "commit"]
<1>1. /\ UNCHANGED <<identityTables, told, lost>> /\ lost' \in 0..MaxLost /\ told' \subseteq Anchors
      /\ call[c] \in CallStates /\ call[c].at = "update" /\ Relies(c, call[c])
      /\ \A d \in Calls : call[d].at = "commit" =>
                                call[d].revision.person # call[c].revision.person
  BY DEF UpdateObject, IdentityInv, IdentityTypeOK
<1>2. CASE Become(c, Idle)
  BY <1>1, <1>2, LeaveInv
<1>3. CASE Expected(call[c].revision) /\ Become(c, t)
  <2>1. t \in CallStates /\ t.at = "commit" /\ t.revision = call[c].revision
    BY Zenon, <1>1, RevisingState DEF Revising
  <2> HIDE DEF t
  <2>2. Relies(c, t)
    BY <1>1, <1>3, <2>1 DEF Relies, Revising
  <2> QED
    BY Zenon, <1>1, <1>3, <2>1, <2>2, CallLocalStep DEF Become
<1> QED
  BY <1>2, <1>3 DEF UpdateObject

LEMMA LoseInv ==
    ASSUME IdentityInv, UNCHANGED Postgres, NEW c \in Calls, Lose(c) PROVE IdentityInv'
<1>1. lost' \in 0..MaxLost
  BY IdentityAssumption DEF Lose, IdentityInv, IdentityTypeOK
<1> QED
  BY <1>1, LeaveInv DEF Lose

-----------------------------------------------------------------------------
(* Steps that write *)

(* A new last revision r, with the projection to match, extends a lineage   *)
(* by one and disturbs no other.                                            *)
LEMMA Extends ==
    ASSUME IdentityInv, NEW r \in Revisions, r.revision = object[r.person].revision + 1,
           object[r.person].revision > 0 =>
               object[r.person].status = r.seen /\ r.seen # "REVOKED",
           revisions' = revisions \cup {r},
           object' = [object EXCEPT ![r.person] = [revision |-> r.revision, status |-> r.status]]
    PROVE  /\ object' \in [People -> Objects] /\ revisions' \subseteq Revisions
           /\ LineageIsGapless' /\ DecisionsSawTheirBase' /\ NothingAfterRevocation'
<1> DEFINE q == r.person
           n == object[q].revision
<1>1. /\ q \in People /\ r.revision \in Numbers /\ r.status \in Statuses
      /\ object \in [People -> Objects] /\ revisions \subseteq Revisions
  BY DEF Revisions, IdentityInv, IdentityTypeOK
<1>2. /\ object'[q].revision = n + 1 /\ object'[q].status = r.status
      /\ \A p \in People \ {q} : object'[p] = object[p]
      /\ n \in Nat
  BY <1>1 DEF Objects
<1>3. object' \in [People -> Objects] /\ revisions' \subseteq Revisions
  BY <1>1, IdentityAssumption DEF Objects, Numbers
<1>4. ASSUME NEW x \in revisions
      PROVE  /\ x.person \in People /\ x.revision \in Nat
             /\ x.revision <= object[x.person].revision
             /\ x.person = q => x.revision # n + 1
             /\ x.revision = object[x.person].revision => x.status = object[x.person].status
  <2>1. x \in Revisions
    BY <1>1
  <2>2. x.person \in People /\ x.revision \in Nat
    BY <2>1 DEF Revisions, Numbers
  <2>3. object[x.person].revision \in Nat
    BY <1>1, <2>2 DEF Objects
  <2>4. /\ x.revision \in 1..object[x.person].revision
        /\ x.revision = object[x.person].revision => x.status = object[x.person].status
    BY <2>2 DEF IdentityInv, LineageIsGapless
  <2> QED
    BY <1>2, <2>2, <2>3, <2>4
<1>5. LineageIsGapless'
  <2> SUFFICES ASSUME NEW p \in People
               PROVE  LET lineage == {x \in revisions' : x.person = p}
                      IN  /\ {x.revision : x \in lineage} = 1..object'[p].revision
                          /\ \A x, y \in lineage : x.revision = y.revision => x = y
                          /\ \A x \in lineage : x.revision = object'[p].revision => x.status = object'[p].status
    BY DEF LineageIsGapless
  <2> DEFINE old == {x \in revisions : x.person = p}
             new == {x \in revisions' : x.person = p}
  <2>1. /\ {x.revision : x \in old} = 1..object[p].revision
        /\ \A x, y \in old : x.revision = y.revision => x = y
        /\ \A x \in old : x.revision = object[p].revision => x.status = object[p].status
    BY DEF IdentityInv, LineageIsGapless
  <2>2. CASE p # q
    <3>1. new = old /\ object'[p] = object[p]
      BY <1>2, <2>2
    <3> HIDE DEF new, old
    <3> QED
      BY <2>1, <3>1 DEF new
  <2>3. CASE p = q
    <3>1. new = old \cup {r} /\ r.revision = n + 1
      BY <2>3
    <3>2. \A x \in old : x.revision # n + 1
      BY <1>4, <2>3
    <3>3. {x.revision : x \in old} = 1..n
      BY <2>1, <2>3
    <3> HIDE DEF old, n
    <3>4. {x.revision : x \in old \cup {r}} = {x.revision : x \in old} \cup {n + 1}
      BY <3>1
    <3>5. (1..n) \cup {n + 1} = 1..(n + 1)
      BY <1>2
    <3>6. \A x, y \in old \cup {r} : x.revision = y.revision => x = y
      BY <2>1, <3>1, <3>2
    <3>7. \A x \in old \cup {r} : x.revision = n + 1 => x.status = r.status
      BY <3>2
    <3> QED
      BY <1>2, <2>3, <3>1, <3>3, <3>4, <3>5, <3>6, <3>7 DEF new
  <2> QED
    BY <2>2, <2>3
<1>6. DecisionsSawTheirBase'
  <2> SUFFICES ASSUME NEW x \in revisions', NEW y \in revisions',
                      x.person = y.person, y.revision = x.revision + 1
               PROVE  y.seen = x.status
    BY DEF DecisionsSawTheirBase
  <2>1. CASE x \in revisions /\ y \in revisions
    BY <2>1 DEF IdentityInv, DecisionsSawTheirBase
  <2>2. CASE x \in revisions /\ y = r
    <3>1. x.revision = n /\ x.person = q
      BY <1>2, <1>4, <2>2
    <3>2. x.status = object[q].status /\ n > 0
      <4>1. x.revision \in Numbers
        BY <1>1, <2>2 DEF Revisions
      <4> QED
        BY <1>4, <2>2, <3>1, <4>1 DEF Numbers
    <3> QED
      BY <2>2, <3>2
  <2>3. CASE x = r
    <3>1. y.person = q /\ y.revision = n + 2
      BY <1>2, <2>3
    <3>2. CASE y = r
      BY <1>2, <2>3, <3>1, <3>2
    <3>3. CASE y \in revisions
      BY <1>2, <1>4, <3>1, <3>3
    <3> QED
      BY <3>2, <3>3
  <2> QED
    BY <2>1, <2>2, <2>3
<1>7. NothingAfterRevocation'
  <2> SUFFICES ASSUME NEW x \in revisions', x.status = "REVOKED"
               PROVE  x.revision = object'[x.person].revision
    BY DEF NothingAfterRevocation
  <2>1. CASE x = r
    BY <1>2, <2>1
  <2>2. CASE x \in revisions
    <3>1. x.revision = object[x.person].revision /\ object[x.person].status = "REVOKED"
      BY <1>4, <2>2 DEF IdentityInv, NothingAfterRevocation
    <3>2. x.person # q
      <4>1. x.revision > 0
        BY <1>1, <2>2 DEF Revisions, Numbers
      <4> QED
        BY <3>1, <4>1
    <3> QED
      BY <1>2, <1>4, <2>2, <3>1, <3>2
  <2> QED
    BY <2>1, <2>2
<1> QED
  BY <1>3, <1>5, <1>6, <1>7

\* Call c ends with a new revision of q, and no other call was about to.
WritesFor(c, q) ==
    /\ UNCHANGED Postgres
    /\ call' = [call EXCEPT ![c] = Idle]
    /\ object' \in [People -> Objects]
    /\ object'[q].revision = object[q].revision + 1
    /\ \A p \in People \ {q} : object'[p] = object[p]
    /\ \A g \in genesis' \ genesis : g.person = q
    /\ \A d \in Calls \ {c} :
          /\ call[d].at = "commit" => call[d].revision.person # q
          /\ call[d].at = "commit_save" => call[d].anchor.person # q

(* What the other calls rely on outlives such a write. *)
LEMMA OthersRely ==
    ASSUME IdentityInv, NEW c \in Calls, NEW q \in People, WritesFor(c, q)
    PROVE  \A e \in Calls : Relies(e, call[e])'
<1>1. call \in [Calls -> CallStates] /\ object \in [People -> Objects]
  BY DEF IdentityInv, IdentityTypeOK
<1> USE DEF WritesFor
<1>2. ASSUME NEW e \in Calls PROVE Relies(e, call[e])'
  <2>1. CASE e = c
    BY <1>1, <2>1 DEF Relies, Revising, Idle
  <2>2. CASE e # c
    <3>1. /\ call'[e] = call[e] /\ Relies(e, call[e]) /\ call[e] \in CallStates
          /\ \A d \in Calls : call'[d].at # "idle" => call'[d] = call[d] /\ d # c
      BY <1>1, <2>2 DEF IdentityInv, Idle
    <3>2. Revising(call[e]) => BuiltOn(call[e].revision)'
      <4> SUFFICES ASSUME Revising(call[e]) PROVE BuiltOn(call[e].revision)'
        OBVIOUS
      <4> DEFINE r == call[e].revision
      <4>1. r \in Revisions /\ BuiltOn(r) /\ r' = r
        BY Zenon, <3>1, RevisingState DEF Relies
      <4> HIDE DEF r
      <4>2. r.person \in People /\ r.revision \in Int
        BY <4>1 DEF Revisions, Numbers
      <4>3. object[r.person].revision \in Int
        BY <1>1, <4>2 DEF Objects
      <4>4. CASE r.person # q
        BY <4>1, <4>2, <4>4 DEF BuiltOn, Expected, r
      <4>5. CASE r.person = q
        <5>1. object'[r.person].revision = object[r.person].revision + 1
          BY <4>5
        <5>2. object'[r.person].revision # r.revision - 1
          BY <4>1, <4>2, <4>3, <5>1 DEF BuiltOn
        <5>3. r.revision - 1 <= object'[r.person].revision /\ 1 <= r.revision - 1 /\ r.seen # "REVOKED"
          BY <4>1, <4>2, <4>3, <5>1 DEF BuiltOn
        <5> QED
          BY <4>1, <5>2, <5>3 DEF BuiltOn, Expected, r
      <4> QED
        BY <4>4, <4>5
    <3>3. call[e].at = "commit" => Expected(call[e].revision)'
      <4> SUFFICES ASSUME call[e].at = "commit" PROVE Expected(call[e].revision)'
        OBVIOUS
      <4>1. call[e].revision \in Revisions
        BY Zenon, <3>1, RevisingState DEF Revising
      <4>2. call[e].revision.person \in People \ {q}
        BY <2>2, <4>1 DEF Revisions
      <4> QED
        BY <3>1, <4>2 DEF Relies, Expected
    <3>4. call[e].at = "commit_save" => ~Anchored(call[e].anchor.person)'
      <4> SUFFICES ASSUME call[e].at = "commit_save" PROVE ~Anchored(call[e].anchor.person)'
        OBVIOUS
      <4>1. call[e].anchor \in Anchors
        BY Zenon, <3>1, SavingState DEF Saving
      <4>2. call[e].anchor.person \in People \ {q}
        BY <2>2, <4>1 DEF Anchors
      <4>3. ~Anchored(call[e].anchor.person)
        BY <3>1 DEF Relies
      <4> QED
        BY <3>1, <4>2, <4>3 DEF Anchored
    <3> QED
      BY <3>1, <3>2, <3>3, <3>4 DEF Relies, Revising
  <2> QED
    BY <2>1, <2>2
<1> QED
  BY <1>2

(* Who revises an identity and who saves its anchor never meet. *)
LEMMA ApartFromSaves ==
    ASSUME IdentityInv, NEW d \in Calls
    PROVE  /\ Revising(call[d]) => Anchored(call[d].revision.person)
           /\ call[d].at = "commit_save" => ~Anchored(call[d].anchor.person)
<1>1. call[d] \in CallStates /\ Relies(d, call[d]) /\ object \in [People -> Objects]
  BY DEF IdentityInv, IdentityTypeOK
<1>2. ASSUME Revising(call[d]) PROVE Anchored(call[d].revision.person)
  <2> DEFINE r == call[d].revision
  <2>1. r \in Revisions /\ BuiltOn(r)
    BY Zenon, <1>1, <1>2, RevisingState DEF Relies
  <2> HIDE DEF r
  <2>2. r.person \in People /\ r.revision \in Int
    BY <2>1 DEF Revisions, Numbers
  <2>3. object[r.person].revision \in Int
    BY <1>1, <2>2 DEF Objects
  <2>4. Onboarded(r.person)
    BY <2>1, <2>2, <2>3 DEF BuiltOn, Onboarded
  <2> QED
    BY <2>2, <2>4 DEF IdentityInv, AnchorsAreObjects, r
<1> QED
  BY <1>1, <1>2 DEF Relies

LEMMA WriteRevisionInv ==
    ASSUME IdentityInv, UNCHANGED <<Postgres, told, lost>>, NEW c \in Calls,
           Revising(call[c]), Expected(call[c].revision), WriteRevision(call[c].revision),
           Become(c, Idle),
           \A d \in Calls \ {c} :
               call[d].at = "commit" => call[d].revision.person # call[c].revision.person
    PROVE  IdentityInv'
<1>1. /\ call \in [Calls -> CallStates] /\ Relies(c, call[c])
      /\ object \in [People -> Objects]
  BY DEF IdentityInv, IdentityTypeOK
<1>0. PICK r \in Revisions : r = call[c].revision
  BY Zenon, <1>1, RevisingState
<1>a. PICK q \in People : q = r.person
  BY DEF Revisions
<1>2. BuiltOn(r) /\ Expected(r) /\ Anchored(q)
  BY <1>0, <1>a, <1>1, ApartFromSaves DEF Relies
<1>3. /\ revisions' = revisions \cup {r} /\ UNCHANGED genesis
      /\ object' = [object EXCEPT ![q] = [revision |-> r.revision, status |-> r.status]]
  BY <1>0, <1>a DEF WriteRevision, ProjectionOf
<1>4. \A d \in Calls \ {c} :
          /\ call[d].at = "commit" => call[d].revision.person # q
          /\ call[d].at = "commit_save" => call[d].anchor.person # q
  BY <1>0, <1>a, <1>2, ApartFromSaves
<1>5. call' = [call EXCEPT ![c] = Idle]
  BY DEF Become
<1>6. r.revision \in Int /\ object[q].revision \in Int
  BY <1>1, <1>2 DEF Revisions, Numbers, Objects
<1>7. r.revision = object[q].revision + 1 /\ r.seen = object[q].status /\ r.seen # "REVOKED"
  BY <1>a, <1>2, <1>6 DEF Expected, BuiltOn
<1>8. /\ object' \in [People -> Objects] /\ revisions' \subseteq Revisions
      /\ LineageIsGapless' /\ DecisionsSawTheirBase' /\ NothingAfterRevocation'
  BY Zenon, <1>a, <1>3, <1>7, Extends
<1>9. /\ object'[q].revision = object[q].revision + 1
      /\ \A p \in People \ {q} : object'[p] = object[p]
      /\ \A p \in People : Anchored(p)' <=> Anchored(p)
  BY <1>1, <1>3, <1>6, <1>7 DEF Anchored
<1>10. \A e \in Calls : Relies(e, call[e])'
  <2>1. WritesFor(c, q)
    BY <1>3, <1>4, <1>5, <1>8, <1>9 DEF WritesFor
  <2> QED
    BY <2>1, OthersRely
<1>11. AnchorsAreObjects'
  <2>1. Onboarded(q) /\ Onboarded(q)'
    BY <1>2, <1>6, <1>9 DEF IdentityInv, AnchorsAreObjects, Onboarded
  <2> QED
    BY <1>2, <1>9, <2>1 DEF IdentityInv, AnchorsAreObjects, Onboarded
<1>12. call' \in [Calls -> CallStates]
  BY <1>1, <1>5, IdleRelies
<1>13. IdentityTypeOK'
  BY <1>3, <1>8, <1>12 DEF IdentityInv, IdentityTypeOK
<1> QED
  BY <1>8, <1>10, <1>11, <1>13 DEF IdentityInv

LEMMA WriteIdentityInv ==
    ASSUME IdentityInv, UNCHANGED <<Postgres, lost>>, NEW c \in Calls,
           Saving(call[c]), ~Anchored(call[c].anchor.person), WriteIdentity(call[c].anchor),
           told' = told \cup {call[c].anchor}, Become(c, Idle),
           \A d \in Calls \ {c} :
               call[d].at = "commit_save" => call[d].anchor.person # call[c].anchor.person
    PROVE  IdentityInv'
<1>1. /\ call \in [Calls -> CallStates] /\ object \in [People -> Objects]
      /\ genesis \subseteq Anchors /\ told \subseteq Anchors
  BY DEF IdentityInv, IdentityTypeOK
<1>0. PICK a \in Anchors : a = call[c].anchor
  BY Zenon, <1>1, SavingState
<1>a. PICK q \in People : q = a.person
  BY DEF Anchors
<1>2. PICK r : r = FirstRevision(a)
  OBVIOUS
<1>3. /\ genesis' = genesis \cup {a} /\ revisions' = revisions \cup {r}
      /\ object' = [object EXCEPT ![q] = [revision |-> 1, status |-> "ACTIVE"]]
  BY <1>0, <1>a, <1>2 DEF WriteIdentity
<1>4. \A d \in Calls \ {c} :
          /\ call[d].at = "commit" => call[d].revision.person # q
          /\ call[d].at = "commit_save" => call[d].anchor.person # q
  BY <1>0, <1>a, ApartFromSaves DEF Revising
<1>5. call' = [call EXCEPT ![c] = Idle] /\ ~Anchored(q) /\ told' = told \cup {a}
  BY <1>0, <1>a DEF Become
<1>6. object[q].revision \in Nat
  BY <1>1 DEF Objects
<1>7. object[q].revision = 0
  <2>1. ~Onboarded(q)
    BY Zenon, <1>5 DEF IdentityInv, AnchorsAreObjects
  <2> QED
    BY <1>6, <2>1 DEF Onboarded
<1>8. r \in Revisions /\ r.person = q /\ r.revision = 1 /\ r.status = "ACTIVE"
  BY <1>a, <1>2, IdentityAssumption DEF FirstRevision, Revisions, Anchors, Numbers, Statuses
<1>9. /\ object' \in [People -> Objects] /\ revisions' \subseteq Revisions
      /\ LineageIsGapless' /\ DecisionsSawTheirBase' /\ NothingAfterRevocation'
  <2>1. /\ r.revision = object[r.person].revision + 1 /\ ~(object[r.person].revision > 0)
        /\ object' = [object EXCEPT ![r.person] = [revision |-> r.revision, status |-> r.status]]
    BY <1>3, <1>7, <1>8
  <2> QED
    BY Zenon, <1>3, <1>8, <2>1, Extends
<1>10. /\ object'[q].revision = object[q].revision + 1 /\ object'[q].revision = 1
       /\ \A p \in People \ {q} : object'[p] = object[p]
       /\ \A p \in People \ {q} : Anchored(p)' <=> Anchored(p)
       /\ Anchored(q)'
  BY <1>a, <1>1, <1>3, <1>6, <1>7 DEF Anchored
<1>11. \A e \in Calls : Relies(e, call[e])'
  <2>1. WritesFor(c, q)
    BY <1>a, <1>3, <1>4, <1>5, <1>9, <1>10 DEF WritesFor
  <2> QED
    BY <2>1, OthersRely
<1>12. AnchorsAreObjects'
  <2>1. object'[q].revision = 1
    BY Zenon, <1>10
  <2>2. 1 > 0
    OBVIOUS
  <2>3. Onboarded(q)'
    BY Zenon, <2>1, <2>2 DEF Onboarded
  <2> QED
    BY Zenon, <1>10, <2>3 DEF IdentityInv, AnchorsAreObjects, Onboarded
<1>13. call' \in [Calls -> CallStates]
  BY <1>1, <1>5, IdleRelies
<1>14. IdentityTypeOK'
  BY <1>1, <1>3, <1>5, <1>9, <1>13 DEF IdentityInv, IdentityTypeOK
<1> QED
  BY <1>9, <1>11, <1>12, <1>14 DEF IdentityInv

LEMMA SaveInMemoryInv ==
    ASSUME IdentityInv, UNCHANGED Postgres, NEW c \in Calls, SaveInMemory(c) PROVE IdentityInv'
<1>1. call[c].at = "save" /\ ~Postgres /\ Become(c, Idle) /\ UNCHANGED lost
      /\ lost' \in 0..MaxLost
  BY DEF SaveInMemory, IdentityInv, IdentityTypeOK
<1>2. CASE UNCHANGED <<identityTables, told>>
  BY <1>1, <1>2, LeaveInv
<1>3. CASE /\ AnchorIsNew(call[c].anchor) /\ WriteIdentity(call[c].anchor)
           /\ told' = told \cup {call[c].anchor}
  <2>1. ~Anchored(call[c].anchor.person)
    BY <1>3 DEF AnchorIsNew, Anchored
  <2>2. \A d \in Calls : call[d].at # "commit_save"
    BY <1>1 DEF IdentityInv, Relies
  <2> QED
    BY <1>1, <1>3, <2>1, <2>2, WriteIdentityInv DEF Saving
<1> QED
  BY <1>2, <1>3 DEF SaveInMemory

LEMMA CommitSaveInv ==
    ASSUME IdentityInv, UNCHANGED Postgres, NEW c \in Calls, CommitSave(c) PROVE IdentityInv'
<1>1. Relies(c, call[c]) /\ call[c].at = "commit_save"
  BY DEF IdentityInv, CommitSave
<1> QED
  BY <1>1, WriteIdentityInv DEF CommitSave, Relies, Saving

LEMMA AppendInMemoryInv ==
    ASSUME IdentityInv, UNCHANGED Postgres, NEW c \in Calls, AppendInMemory(c) PROVE IdentityInv'
<1>1. call[c].at = "append" /\ ~Postgres /\ Become(c, Idle) /\ UNCHANGED <<told, lost>>
      /\ lost' \in 0..MaxLost
  BY DEF AppendInMemory, IdentityInv, IdentityTypeOK
<1>2. CASE UNCHANGED identityTables
  BY <1>1, <1>2, LeaveInv
<1>3. CASE Expected(call[c].revision) /\ WriteRevision(call[c].revision)
  <2>1. \A d \in Calls : call[d].at # "commit"
    BY <1>1 DEF IdentityInv, Relies
  <2> QED
    BY <1>1, <1>3, <2>1, WriteRevisionInv DEF Revising
<1> QED
  BY <1>2, <1>3 DEF AppendInMemory

LEMMA CommitRevisionInv ==
    ASSUME IdentityInv, UNCHANGED Postgres, NEW c \in Calls, CommitRevision(c) PROVE IdentityInv'
<1>1. Relies(c, call[c]) /\ call[c].at = "commit"
  BY DEF IdentityInv, CommitRevision
<1> QED
  BY <1>1, WriteRevisionInv DEF CommitRevision, Relies, Revising

-----------------------------------------------------------------------------
(* Theorems *)

LEMMA IdentityInitInv == IdentityInit => IdentityInv
<1> SUFFICES ASSUME IdentityInit PROVE IdentityInv
  OBVIOUS
<1>1. /\ \A p \in People : object[p].revision = 0
      /\ object \in [People -> Objects]
  BY IdentityAssumption DEF IdentityInit, Objects, Statuses
<1>2. IdentityTypeOK
  BY <1>1, IdleRelies, IdentityAssumption DEF IdentityInit, IdentityTypeOK
<1>3. LineageIsGapless /\ DecisionsSawTheirBase /\ NothingAfterRevocation
  BY <1>1 DEF IdentityInit, LineageIsGapless, DecisionsSawTheirBase, NothingAfterRevocation
<1>4. AnchorsAreObjects /\ \A c \in Calls : Relies(c, call[c])
  BY <1>1 DEF IdentityInit, AnchorsAreObjects, Anchored, Onboarded, Relies, Revising, Idle
<1> QED
  BY <1>2, <1>3, <1>4 DEF IdentityInv

LEMMA IdentityStepInv == IdentityInv /\ [IdentityNext]_identityVars => IdentityInv'
<1> SUFFICES ASSUME IdentityInv, [IdentityNext]_identityVars PROVE IdentityInv'
  OBVIOUS
<1>1. CASE UNCHANGED identityVars
  <2>1. UNCHANGED <<Postgres, genesis, revisions, object, call, told, lost>>
    BY <1>1 DEF identityVars
  <2>2. IdentityTypeOK'
    BY <2>1 DEF IdentityInv, IdentityTypeOK
  <2>3. LineageIsGapless' /\ DecisionsSawTheirBase'
    BY ZenonT(30), <2>1 DEF IdentityInv, LineageIsGapless, DecisionsSawTheirBase, Onboarded
  <2>4. NothingAfterRevocation' /\ AnchorsAreObjects'
    BY ZenonT(30), <2>1 DEF IdentityInv, NothingAfterRevocation, AnchorsAreObjects, Anchored,
       Onboarded
  <2>5. ASSUME NEW c \in Calls PROVE Relies(c, call[c])'
    BY ZenonT(30), <2>1 DEF IdentityInv, Relies, Revising, BuiltOn, Expected, Anchored
  <2> QED
    BY Zenon, <2>2, <2>3, <2>4, <2>5 DEF IdentityInv
<1>2. ASSUME NEW c \in Calls, IdentityStep(c), UNCHANGED Postgres PROVE IdentityInv'
  BY <1>2, OnboardInv, ReviseInv, SaveInMemoryInv, InsertGenesisInv, CommitSaveInv,
     AppendInMemoryInv, InsertRevisionInv, UpdateObjectInv, CommitRevisionInv, LoseInv DEF IdentityStep
<1> QED
  BY <1>1, <1>2 DEF IdentityNext

\* The invariant holds of every behaviour over either repository.
THEOREM IdentityInvariant == IdentitySpec => []IdentityInv
BY IdentityInitInv, IdentityStepInv, PTL DEF IdentitySpec

\* The revisions of an identity have no gap and no fork.
THEOREM LineageHolds == IdentitySpec => []LineageIsGapless
<1>1. IdentityInv => LineageIsGapless
  BY DEF IdentityInv
<1> QED
  BY <1>1, IdentityInvariant, PTL

\* Each revision was decided on the status of the one before it.
THEOREM DecisionsHold == IdentitySpec => []DecisionsSawTheirBase
<1>1. IdentityInv => DecisionsSawTheirBase
  BY DEF IdentityInv
<1> QED
  BY <1>1, IdentityInvariant, PTL

\* No revision follows a revocation.
THEOREM RevocationIsLast == IdentitySpec => []NothingAfterRevocation
<1>1. IdentityInv => NothingAfterRevocation
  BY DEF IdentityInv
<1> QED
  BY <1>1, IdentityInvariant, PTL

-----------------------------------------------------------------------------
(* Anchors and attestations *)

\* An attestation speaks of one person, who is the one it is used for.
SpeaksFor(x) == x.person = SubjectOf[x.attestation]

Speaks(s) ==
    /\ Saving(s) => SpeaksFor(s.anchor)
    /\ Revising(s) => SpeaksFor(s.revision)

\* Who has inserted its revision is the only one to spend the attestation.
Fresh(c, s) ==
    s.at \in {"update", "commit"} =>
        /\ \A r \in revisions : r.attestation # s.revision.attestation
        /\ \A d \in Calls \ {c} :
              Writing(d) => call[d].revision.attestation # s.revision.attestation

TrustInv ==
    /\ AnchorsAreStable /\ AttestationsCountOnce
    /\ \A r \in revisions : SpeaksFor(r)
    /\ \A c \in Calls : Speaks(call[c]) /\ Fresh(c, call[c])

LEMMA TrustLocal ==
    ASSUME IdentityInv, TrustInv, NEW c \in Calls, NEW s, UNCHANGED identityTables,
           call' = [call EXCEPT ![c] = s], told' \subseteq genesis, Speaks(s), Fresh(c, s)
    PROVE  TrustInv'
<1>0. UNCHANGED <<genesis, revisions, object>>
  BY DEF identityTables
<1>1. call'[c] = s /\ \A d \in Calls \ {c} : call'[d] = call[d]
  BY DEF IdentityInv, IdentityTypeOK
<1>2. AnchorsAreStable' /\ AttestationsCountOnce' /\ \A r \in revisions' : SpeaksFor(r)
  BY <1>0 DEF TrustInv, AnchorsAreStable, AttestationsCountOnce, SpeaksFor
<1>3. ASSUME NEW e \in Calls PROVE Speaks(call'[e]) /\ Fresh(e, call[e])'
  <2>1. CASE e = c
    BY <1>0, <1>1, <2>1 DEF Fresh, Writing
  <2>2. CASE e # c
    <3>1. Speaks(call[e]) /\ Fresh(e, call[e]) /\ call'[e] = call[e]
      BY <1>1, <2>2 DEF TrustInv
    <3> QED
      BY <1>0, <1>1, <2>2, <3>1 DEF Fresh, Writing
  <2> QED
    BY <2>1, <2>2
<1> QED
  BY <1>2, <1>3 DEF TrustInv, SpeaksFor, Speaks, Saving, Revising

LEMMA IdleSpeaks == ASSUME NEW c PROVE Speaks(Idle) /\ Fresh(c, Idle)
BY DEF Speaks, Fresh, Saving, Revising, Idle

LEMMA TrustLeave ==
    ASSUME IdentityInv, TrustInv, NEW c \in Calls, Become(c, Idle),
           UNCHANGED identityTables, UNCHANGED told
    PROVE  TrustInv'
<1>1. told' \subseteq genesis
  BY DEF TrustInv, AnchorsAreStable
<1> QED
  BY Zenon, <1>1, IdleSpeaks, TrustLocal DEF Become

\* A call that ends with a new revision r.
LEMMA TrustWrite ==
    ASSUME IdentityInv, TrustInv, NEW c \in Calls, NEW r, Become(c, Idle),
           revisions' = revisions \cup {r}, SpeaksFor(r), AnchorsAreStable',
           \A x \in revisions : x.attestation # r.attestation,
           \A d \in Calls \ {c} : Writing(d) => call[d].revision.attestation # r.attestation
    PROVE  TrustInv'
<1>1. call'[c] = Idle /\ \A d \in Calls \ {c} : call'[d] = call[d]
  BY DEF IdentityInv, IdentityTypeOK, Become
<1>2. AttestationsCountOnce'
  BY DEF TrustInv, AttestationsCountOnce
<1>3. \A x \in revisions' : SpeaksFor(x)
  BY DEF TrustInv
<1>4. ASSUME NEW e \in Calls PROVE Speaks(call'[e]) /\ Fresh(e, call[e])'
  <2>1. CASE e = c
    BY <1>1, <2>1, IdleSpeaks DEF Fresh, Idle
  <2>2. CASE e # c
    <3>1. Speaks(call[e]) /\ Fresh(e, call[e]) /\ call'[e] = call[e]
      BY <1>1, <2>2 DEF TrustInv
    <3>2. \A d \in Calls : Writing(d)' => Writing(d) /\ call'[d] = call[d]
      BY <1>1 DEF Writing, Idle
    <3> QED
      BY <2>2, <3>1, <3>2 DEF Fresh, Writing
  <2> QED
    BY <2>1, <2>2
<1> QED
  BY <1>2, <1>3, <1>4 DEF TrustInv, SpeaksFor, Speaks, Saving, Revising

\* A person who has a revision has an anchor.
LEMMA RevisedIsAnchored ==
    ASSUME IdentityInv, NEW r \in revisions
    PROVE  /\ r \in Revisions /\ r.person \in People /\ Anchored(r.person)
           /\ r.revision \in 1..object[r.person].revision
<1>1. r \in Revisions /\ object \in [People -> Objects]
  BY DEF IdentityInv, IdentityTypeOK
<1>2. r.person \in People /\ object[r.person].revision \in Int
  BY <1>1 DEF Revisions, Objects
<1>3. r.revision \in 1..object[r.person].revision
  BY <1>2 DEF IdentityInv, LineageIsGapless
<1>4. Onboarded(r.person)
  BY <1>2, <1>3 DEF Onboarded
<1> QED
  BY <1>1, <1>2, <1>3, <1>4 DEF IdentityInv, AnchorsAreObjects

\* What save() and append_revision do when they write.
Founds(c, a) ==
    /\ a \in Anchors /\ ~Anchored(a.person) /\ SpeaksFor(a)
    /\ WriteIdentity(a) /\ told' = told \cup {a} /\ Become(c, Idle)

Records(c, r) ==
    /\ r \in Revisions /\ Expected(r) /\ BuiltOn(r) /\ SpeaksFor(r)
    /\ \A x \in revisions : x.attestation # r.attestation
    /\ \A d \in Calls \ {c} : Writing(d) => call[d].revision.attestation # r.attestation
    /\ WriteRevision(r) /\ UNCHANGED told /\ Become(c, Idle)

LEMMA SavesFound ==
    ASSUME IdentityInv, TrustInv, NEW c \in Calls,
           \/ SaveInMemory(c) /\ AnchorIsNew(call[c].anchor)
           \/ CommitSave(c)
    PROVE  Founds(c, call[c].anchor)
<1>1. call[c] \in CallStates /\ Saving(call[c]) /\ Speaks(call[c])
  BY DEF IdentityInv, IdentityTypeOK, TrustInv, SaveInMemory, CommitSave, Saving
<1>2. call[c].anchor \in Anchors /\ SpeaksFor(call[c].anchor)
  BY Zenon, <1>1, SavingState DEF Speaks
<1>3. ~Anchored(call[c].anchor.person)
  <2>1. CASE AnchorIsNew(call[c].anchor)
    BY <2>1 DEF AnchorIsNew, Anchored
  <2>2. CASE CommitSave(c)
    BY <2>2, ApartFromSaves DEF CommitSave
  <2> QED
    BY <2>1, <2>2
<1>4. /\ WriteIdentity(call[c].anchor) /\ told' = told \cup {call[c].anchor} /\ Become(c, Idle)
  BY DEF SaveInMemory, CommitSave
<1> QED
  BY <1>2, <1>3, <1>4 DEF Founds

LEMMA AppendsRecord ==
    ASSUME IdentityInv, TrustInv, NEW c \in Calls,
           \/ /\ AppendInMemory(c)
              /\ Expected(call[c].revision) /\ AttestationIsNew(call[c].revision)
           \/ CommitRevision(c)
    PROVE  Records(c, call[c].revision)
<1>1. /\ call[c] \in CallStates /\ Revising(call[c]) /\ Speaks(call[c]) /\ Fresh(c, call[c])
      /\ Relies(c, call[c])
  BY DEF IdentityInv, IdentityTypeOK, TrustInv, AppendInMemory, CommitRevision, Revising
<1>2. PICK r : r = call[c].revision
  OBVIOUS
<1>3. r \in Revisions /\ SpeaksFor(r) /\ BuiltOn(r)
  BY Zenon, <1>1, <1>2, RevisingState DEF Speaks, Relies
<1>4. WriteRevision(r) /\ UNCHANGED told /\ Become(c, Idle)
  BY <1>2 DEF AppendInMemory, CommitRevision
<1>5. CASE AppendInMemory(c) /\ Expected(r) /\ AttestationIsNew(r)
  <2>1. \A d \in Calls : ~Writing(d)
    BY Zenon, <1>5 DEF AppendInMemory, IdentityInv, Relies, Writing
  <2>2. \A x \in revisions : x.attestation # r.attestation
    BY Zenon, <1>3, <1>5 DEF AttestationIsNew, TrustInv, SpeaksFor
  <2> QED
    BY <1>2, <1>3, <1>4, <1>5, <2>1, <2>2 DEF Records
<1>6. CASE CommitRevision(c)
  <2>1. call[c].at = "commit"
    BY <1>6 DEF CommitRevision
  <2>2. Expected(r) /\ \A x \in revisions : x.attestation # r.attestation
    BY <1>1, <1>2, <2>1 DEF Relies, Fresh
  <2>3. \A d \in Calls \ {c} : Writing(d) => call[d].revision.attestation # r.attestation
    BY <1>1, <1>2, <2>1 DEF Fresh
  <2> QED
    BY Zenon, <1>2, <1>3, <1>4, <2>2, <2>3 DEF Records
<1> QED
  BY <1>2, <1>5, <1>6

\* No revision rests on the attestation of someone without an anchor, none is about to.
LEMMA FirstUse ==
    ASSUME IdentityInv, TrustInv, NEW a, SpeaksFor(a), ~Anchored(a.person)
    PROVE  /\ \A x \in revisions : x.attestation # a.attestation
           /\ \A d \in Calls : Writing(d) => call[d].revision.attestation # a.attestation
<1>1. \A x \in revisions : x.attestation # a.attestation
  BY RevisedIsAnchored DEF TrustInv, SpeaksFor
<1>2. ASSUME NEW d \in Calls, Writing(d) PROVE call[d].revision.attestation # a.attestation
  <2>1. Revising(call[d]) /\ Speaks(call[d])
    BY <1>2 DEF Writing, Revising, TrustInv
  <2>2. Anchored(call[d].revision.person)
    BY <2>1, ApartFromSaves
  <2> QED
    BY <2>1, <2>2 DEF Speaks, SpeaksFor
<1> QED
  BY <1>1, <1>2

LEMMA FoundsTrust ==
    ASSUME IdentityInv, TrustInv, NEW c \in Calls, NEW a, Founds(c, a) PROVE TrustInv'
<1>1. PICK r : r = FirstRevision(a)
  OBVIOUS
<1>2. r.person = a.person /\ r.attestation = a.attestation
  BY <1>1 DEF FirstRevision
<1>3. /\ revisions' = revisions \cup {r} /\ genesis' = genesis \cup {a}
      /\ told' = told \cup {a} /\ Become(c, Idle)
  BY <1>1 DEF Founds, WriteIdentity
<1>4. SpeaksFor(a) /\ SpeaksFor(r) /\ ~Anchored(a.person)
  BY <1>2 DEF Founds, SpeaksFor
<1>5. AnchorsAreStable'
  BY <1>3, <1>4 DEF TrustInv, AnchorsAreStable, Anchored
<1>6. /\ \A x \in revisions : x.attestation # r.attestation
      /\ \A d \in Calls \ {c} : Writing(d) => call[d].revision.attestation # r.attestation
  BY <1>2, <1>4, FirstUse
<1> QED
  BY <1>3, <1>4, <1>5, <1>6, TrustWrite

LEMMA RecordsTrust ==
    ASSUME IdentityInv, TrustInv, NEW c \in Calls, NEW r, Records(c, r) PROVE TrustInv'
<1>1. revisions' = revisions \cup {r} /\ UNCHANGED <<genesis, told>> /\ Become(c, Idle)
  BY DEF Records, WriteRevision
<1>2. AnchorsAreStable'
  BY <1>1 DEF TrustInv, AnchorsAreStable
<1> QED
  BY <1>1, <1>2, TrustWrite DEF Records

LEMMA OnboardTrust ==
    ASSUME IdentityInv, TrustInv, NEW c \in Calls, NEW a \in Attestations,
           NEW corridor \in Corridors, Onboard(c, a, corridor)
    PROVE  TrustInv'
<1> DEFINE anchor == [person |-> SubjectOf[a], corridor |-> corridor, attestation |-> a]
           t == [at |-> "save", anchor |-> anchor]
<1>1. /\ call[c] = Idle /\ UNCHANGED identityTables /\ call \in [Calls -> CallStates]
      /\ told \subseteq genesis
  BY DEF Onboard, IdentityInv, IdentityTypeOK, TrustInv, AnchorsAreStable
<1>2. CASE told' = told \cup {g \in genesis : g.person = SubjectOf[a]} /\ UNCHANGED call
  <2>1. told' \subseteq genesis /\ call' = [call EXCEPT ![c] = Idle]
    BY <1>1, <1>2
  <2> QED
    BY Zenon, <1>1, <2>1, IdleSpeaks, TrustLocal
<1>3. CASE Become(c, t) /\ UNCHANGED told
  <2>1. t.at = "save" /\ SpeaksFor(t.anchor)
    BY DEF SpeaksFor
  <2> HIDE DEF t
  <2>2. Speaks(t) /\ Fresh(c, t)
    BY <2>1 DEF Speaks, Saving, Revising, Fresh
  <2> QED
    BY Zenon, <1>1, <1>3, <2>2, TrustLocal DEF Become
<1> QED
  BY <1>2, <1>3 DEF Onboard

LEMMA ReviseTrust ==
    ASSUME IdentityInv, TrustInv, NEW c \in Calls, NEW a \in Attestations,
           NEW status \in Statuses, Revise(c, a, status)
    PROVE  TrustInv'
<1> DEFINE p == SubjectOf[a]
           t == [at |-> "append",
                 revision |-> [person |-> p, status |-> status,
                               revision |-> object[p].revision + 1,
                               attestation |-> a, seen |-> object[p].status]]
<1>1. UNCHANGED identityTables /\ Become(c, t) /\ told' \subseteq genesis
  BY DEF Revise, TrustInv, AnchorsAreStable
<1>2. t.at = "append" /\ SpeaksFor(t.revision)
  BY Zenon DEF SpeaksFor
<1> HIDE DEF t
<1>3. Speaks(t) /\ Fresh(c, t)
  BY <1>2 DEF Speaks, Saving, Revising, Fresh
<1> QED
  BY Zenon, <1>1, <1>3, TrustLocal DEF Become

LEMMA InsertGenesisTrust ==
    ASSUME IdentityInv, TrustInv, NEW c \in Calls, InsertGenesis(c) PROVE TrustInv'
<1> DEFINE t == [call[c] EXCEPT !.at = "commit_save"]
<1>1. /\ UNCHANGED identityTables /\ UNCHANGED told /\ told' \subseteq genesis
      /\ call[c] \in CallStates /\ Saving(call[c]) /\ Speaks(call[c])
      /\ (Become(c, Idle) \/ Become(c, t))
  BY DEF InsertGenesis, IdentityInv, IdentityTypeOK, TrustInv, AnchorsAreStable, Saving
<1>2. t.at = "commit_save" /\ t.anchor = call[c].anchor
  BY Zenon, <1>1, SavingState
<1> HIDE DEF t
<1>3. Speaks(t) /\ Fresh(c, t)
  BY <1>1, <1>2 DEF Speaks, Saving, Revising, Fresh
<1>4. CASE Become(c, t)
  BY Zenon, <1>1, <1>3, <1>4, TrustLocal DEF Become
<1> QED
  BY <1>1, <1>4, TrustLeave

LEMMA InsertRevisionTrust ==
    ASSUME IdentityInv, TrustInv, NEW c \in Calls, InsertRevision(c) PROVE TrustInv'
<1> DEFINE t == [call[c] EXCEPT !.at = "update"]
<1>1. /\ UNCHANGED identityTables /\ UNCHANGED told /\ told' \subseteq genesis
      /\ call[c] \in CallStates /\ Revising(call[c]) /\ Speaks(call[c]) /\ Postgres
      /\ \A d \in Calls :
            Writing(d) => call[d].revision.attestation # call[c].revision.attestation
      /\ \/ Become(c, Idle)
         \/ Become(c, t) /\ AttestationIsNew(call[c].revision)
  BY DEF InsertRevision, IdentityInv, IdentityTypeOK, TrustInv, AnchorsAreStable, Revising
<1>2. t.at = "update" /\ t.revision = call[c].revision
  BY Zenon, <1>1, RevisingState
<1> HIDE DEF t
<1>3. Speaks(t)
  BY <1>1, <1>2 DEF Speaks, Saving, Revising
<1>4. CASE Become(c, t) /\ AttestationIsNew(call[c].revision)
  <2>1. Fresh(c, t)
    BY <1>1, <1>2, <1>4 DEF Fresh, AttestationIsNew
  <2> QED
    BY Zenon, <1>1, <1>3, <1>4, <2>1, TrustLocal DEF Become
<1> QED
  BY <1>1, <1>4, TrustLeave

LEMMA UpdateObjectTrust ==
    ASSUME IdentityInv, TrustInv, NEW c \in Calls, UpdateObject(c) PROVE TrustInv'
<1> DEFINE t == [call[c] EXCEPT !.at = "commit"]
<1>1. /\ UNCHANGED identityTables /\ UNCHANGED told /\ told' \subseteq genesis
      /\ call[c] \in CallStates /\ Revising(call[c]) /\ Speaks(call[c]) /\ Fresh(c, call[c])
      /\ call[c].at = "update" /\ (Become(c, Idle) \/ Become(c, t))
  BY DEF UpdateObject, IdentityInv, IdentityTypeOK, TrustInv, AnchorsAreStable, Revising
<1>2. t.at = "commit" /\ t.revision = call[c].revision
  BY Zenon, <1>1, RevisingState
<1> HIDE DEF t
<1>3. Speaks(t) /\ Fresh(c, t)
  BY <1>1, <1>2 DEF Speaks, Saving, Revising, Fresh
<1>4. CASE Become(c, t)
  BY Zenon, <1>1, <1>3, <1>4, TrustLocal DEF Become
<1> QED
  BY Zenon, <1>1, <1>4, TrustLeave

LEMMA TrustStep == IdentityInv /\ TrustInv /\ [IdentityNext]_identityVars => TrustInv'
<1> SUFFICES ASSUME IdentityInv, TrustInv, [IdentityNext]_identityVars PROVE TrustInv'
  OBVIOUS
<1>1. CASE UNCHANGED identityVars
  <2>1. UNCHANGED <<genesis, revisions, call, told>>
    BY <1>1 DEF identityVars
  <2> QED
    BY ZenonT(30), <2>1 DEF TrustInv, AnchorsAreStable, AttestationsCountOnce, SpeaksFor, Speaks,
       Saving, Revising, Fresh, Writing
<1>2. ASSUME NEW c \in Calls, SaveInMemory(c) PROVE TrustInv'
  <2>1. CASE AnchorIsNew(call[c].anchor)
    BY <1>2, <2>1, SavesFound, FoundsTrust
  <2>2. CASE ~AnchorIsNew(call[c].anchor)
    BY <1>2, <2>2, TrustLeave DEF SaveInMemory
  <2> QED
    BY <2>1, <2>2
<1>3. ASSUME NEW c \in Calls, AppendInMemory(c) PROVE TrustInv'
  <2>1. CASE Expected(call[c].revision) /\ AttestationIsNew(call[c].revision)
    BY <1>3, <2>1, AppendsRecord, RecordsTrust
  <2>2. CASE ~(Expected(call[c].revision) /\ AttestationIsNew(call[c].revision))
    BY <1>3, <2>2, TrustLeave DEF AppendInMemory
  <2> QED
    BY <2>1, <2>2
<1>4. ASSUME NEW c \in Calls, CommitSave(c) PROVE TrustInv'
  BY <1>4, SavesFound, FoundsTrust
<1>5. ASSUME NEW c \in Calls, CommitRevision(c) PROVE TrustInv'
  BY <1>5, AppendsRecord, RecordsTrust
<1>6. ASSUME NEW c \in Calls, Lose(c) PROVE TrustInv'
  BY <1>6, TrustLeave DEF Lose
<1>7. ASSUME NEW c \in Calls, IdentityStep(c) PROVE TrustInv'
  BY <1>2, <1>3, <1>4, <1>5, <1>6, <1>7, OnboardTrust, ReviseTrust, InsertGenesisTrust,
     InsertRevisionTrust, UpdateObjectTrust DEF IdentityStep
<1> QED
  BY <1>1, <1>7 DEF IdentityNext

LEMMA TrustInitially == IdentityInit => TrustInv
BY IdleSpeaks DEF IdentityInit, TrustInv, AnchorsAreStable, AttestationsCountOnce

\* Whichever calls of onboard() and revise() interleave or are lost, anchors and
\* attestations stand, every revision rests on an attestation of its own
\* person, and a call that has inserted its revision alone spends it.
THEOREM TrustInvariant == IdentitySpec => []TrustInv
BY TrustInitially, TrustStep, IdentityInvariant, PTL DEF IdentitySpec

\* A person has one anchor for good, and every onboard() that returns names it,
\* whichever calls race to save it.
THEOREM AnchorsStand == IdentitySpec => []AnchorsAreStable
<1>1. TrustInv => AnchorsAreStable
  BY DEF TrustInv
<1> QED
  BY <1>1, TrustInvariant, PTL

\* No attestation carries two revisions, of one person or of two, in either repository.
THEOREM AttestationsAreSpent == IdentitySpec => []AttestationsCountOnce
<1>1. TrustInv => AttestationsCountOnce
  BY DEF TrustInv
<1> QED
  BY <1>1, TrustInvariant, PTL

-----------------------------------------------------------------------------
(* The trust history *)

\* The revisions of p among R are numbered 1 to n at least, each once.
Numbered(R, p, n) ==
    /\ \A i \in 1..n : \E r \in R : r.person = p /\ r.revision = i
    /\ \A r, s \in R : r.person = p /\ s.person = p /\ r.revision = s.revision => r = s

InOrder(R, p, n) == [i \in 1..n |-> CHOOSE r \in R : r.person = p /\ r.revision = i]

LEMMA LineageIsNumbered ==
    ASSUME LineageIsGapless, NEW p \in People PROVE Numbered(revisions, p, object[p].revision)
<1>1. /\ {r.revision : r \in {x \in revisions : x.person = p}} = 1..object[p].revision
      /\ \A r, s \in {x \in revisions : x.person = p} : r.revision = s.revision => r = s
  BY Zenon DEF LineageIsGapless
<1> QED
  BY <1>1 DEF Numbered

LEMMA InOrderIs ==
    ASSUME NEW R, NEW p, NEW n \in Nat, Numbered(R, p, n)
    PROVE  /\ InOrder(R, p, n) \in [1..n -> R] /\ InOrder(R, p, n) \in Seq(R)
           /\ Len(InOrder(R, p, n)) = n
           /\ \A i \in 1..n : /\ InOrder(R, p, n)[i].person = p
                              /\ InOrder(R, p, n)[i].revision = i
           /\ \A r \in R : r.person = p /\ r.revision \in 1..n => InOrder(R, p, n)[r.revision] = r
<1> DEFINE f == InOrder(R, p, n)
<1>1. ASSUME NEW i \in 1..n PROVE f[i] \in R /\ f[i].person = p /\ f[i].revision = i
  <2>1. \E r \in R : r.person = p /\ r.revision = i
    BY DEF Numbered
  <2>2. f[i] = CHOOSE r \in R : r.person = p /\ r.revision = i
    BY DEF InOrder
  <2> QED
    BY Zenon, <2>1, <2>2
<1>2. DOMAIN f = 1..n /\ f = [i \in 1..n |-> f[i]]
  BY DEF InOrder
<1> HIDE DEF f
<1>3. f \in [1..n -> R]
  BY <1>1, <1>2
<1>4. f \in Seq(R) /\ Len(f) = n
  BY <1>3
<1>5. \A r \in R : r.person = p /\ r.revision \in 1..n => f[r.revision] = r
  BY <1>1 DEF Numbered
<1> QED
  BY <1>1, <1>3, <1>4, <1>5 DEF f

LEMMA OthersKeepTheirOrder ==
    ASSUME NEW R, NEW p, NEW n \in Nat, NEW r, r.person # p,
           Numbered(R, p, n), Numbered(R \cup {r}, p, n)
    PROVE  InOrder(R \cup {r}, p, n) = InOrder(R, p, n)
<1>1. PICK f : f = InOrder(R, p, n)
  OBVIOUS
<1>2. PICK T : T = R \cup {r}
  OBVIOUS
<1>3. PICK g : g = InOrder(T, p, n)
  OBVIOUS
<1>4. f \in [1..n -> R] /\ \A i \in 1..n : f[i].person = p /\ f[i].revision = i
  BY <1>1, InOrderIs
<1>5. /\ g \in [1..n -> T]
      /\ \A x \in T : x.person = p /\ x.revision \in 1..n => g[x.revision] = x
  <2>1. Numbered(T, p, n)
    BY <1>2
  <2> QED
    BY <1>3, <2>1, InOrderIs
<1>6. ASSUME NEW i \in 1..n PROVE g[i] = f[i]
  <2>1. PICK x \in R : x = f[i]
    BY <1>4
  <2>2. x \in T /\ x.person = p /\ x.revision = i
    BY <1>2, <1>4, <2>1
  <2>3. g[x.revision] = x
    BY Zenon, <1>5, <2>2
  <2> QED
    BY Zenon, <2>1, <2>2, <2>3
<1>7. g = f
  BY <1>4, <1>5, <1>6
<1> QED
  BY <1>1, <1>2, <1>3, <1>7

LEMMA OrderGrows ==
    ASSUME NEW R, NEW p, NEW n \in Nat, NEW r, r.person = p, r.revision = n + 1,
           Numbered(R, p, n), Numbered(R \cup {r}, p, n + 1)
    PROVE  InOrder(R \cup {r}, p, n + 1) = Append(InOrder(R, p, n), r)
<1>1. PICK f : f = InOrder(R, p, n)
  OBVIOUS
<1>2. PICK T : T = R \cup {r}
  OBVIOUS
<1>3. PICK m \in Nat : m = n + 1
  OBVIOUS
<1>4. PICK g : g = InOrder(T, p, m)
  OBVIOUS
<1>5. /\ f \in [1..n -> R] /\ f \in Seq(R) /\ Len(f) = n
      /\ \A i \in 1..n : f[i].person = p /\ f[i].revision = i
  BY <1>1, InOrderIs
<1>6. /\ g \in [1..m -> T]
      /\ \A x \in T : x.person = p /\ x.revision \in 1..m => g[x.revision] = x
  <2>1. Numbered(T, p, m)
    BY <1>2, <1>3
  <2> QED
    BY <1>4, <2>1, InOrderIs
<1>7. ASSUME NEW i \in 1..n PROVE g[i] = f[i]
  <2>1. PICK x \in R : x = f[i]
    BY <1>5
  <2>2. x \in T /\ x.person = p /\ x.revision = i /\ i \in 1..m
    BY <1>2, <1>3, <1>5, <2>1
  <2>3. g[x.revision] = x
    BY Zenon, <1>6, <2>2
  <2> QED
    BY Zenon, <2>1, <2>2, <2>3
<1>8. g[m] = r
  BY <1>2, <1>3, <1>6
<1>9. /\ Append(f, r) \in Seq(T) /\ Len(Append(f, r)) = m /\ Append(f, r)[m] = r
      /\ \A i \in 1..n : Append(f, r)[i] = f[i]
  <2>1. f \in Seq(T) /\ r \in T /\ Len(f) = n
    BY <1>2, <1>5
  <2> QED
    BY <1>3, <2>1
<1>10. PICK h : h = Append(f, r)
  BY Zenon
<1>11. DOMAIN h = 1..m /\ h \in Seq(T) /\ h[m] = r
  BY <1>9, <1>10
<1>12. ASSUME NEW i \in 1..m PROVE g[i] = h[i]
  <2>1. i = m \/ i \in 1..n
    BY <1>3
  <2> QED
    BY Zenon, <1>7, <1>8, <1>9, <1>10, <2>1
<1>13. g = h
  BY <1>6, <1>11, <1>12
<1> QED
  BY Zenon, <1>1, <1>2, <1>3, <1>4, <1>10, <1>13

LEMMA HistoryIs ==
    ASSUME IdentityInv, NEW p \in People
    PROVE  /\ HistoryOf[p] = InOrder(revisions, p, object[p].revision)
           /\ object[p].revision \in Nat /\ Numbered(revisions, p, object[p].revision)
           /\ HistoryOf[p] \in Seq(revisions) /\ Len(HistoryOf[p]) = object[p].revision
           /\ \A i \in 1..object[p].revision :
                 /\ HistoryOf[p][i] \in revisions
                 /\ HistoryOf[p][i].person = p /\ HistoryOf[p][i].revision = i
<1>1. PICK n : n = object[p].revision
  OBVIOUS
<1>2. n \in Nat
  BY <1>1 DEF IdentityInv, IdentityTypeOK, Objects
<1>3. Numbered(revisions, p, n)
  BY <1>1, LineageIsNumbered DEF IdentityInv
<1>4. PICK f : f = InOrder(revisions, p, n)
  OBVIOUS
<1>5. HistoryOf[p] = f
  BY <1>1, <1>4 DEF HistoryOf, InOrder
<1>6. /\ f \in [1..n -> revisions] /\ f \in Seq(revisions) /\ Len(f) = n
      /\ \A i \in 1..n : f[i].person = p /\ f[i].revision = i
  BY <1>2, <1>3, <1>4, InOrderIs
<1>7. \A i \in 1..n : f[i] \in revisions
  BY <1>6
<1> QED
  BY Zenon, <1>1, <1>2, <1>3, <1>4, <1>5, <1>6, <1>7

LEMMA HistoryGrows ==
    ASSUME IdentityInv, IdentityInv', NEW r, NEW q \in People, r.person = q,
           r.revision = object[q].revision + 1, revisions' = revisions \cup {r},
           object'[q].revision = r.revision,
           \A p \in People \ {q} : object'[p] = object[p]
    PROVE  HistoryOf' = [HistoryOf EXCEPT ![q] = Append(HistoryOf[q], r)]
<1>1. ASSUME NEW p \in People
      PROVE  /\ HistoryOf[p] = InOrder(revisions, p, object[p].revision)
             /\ object[p].revision \in Nat /\ Numbered(revisions, p, object[p].revision)
  BY Zenon, HistoryIs
<1>2. ASSUME NEW p \in People
      PROVE  /\ HistoryOf'[p] = InOrder(revisions', p, object'[p].revision)
             /\ Numbered(revisions', p, object'[p].revision)
  <2>1. HistoryOf'[p] = InOrder(revisions', p, object'[p].revision)
    BY DEF HistoryOf, InOrder
  <2>2. LineageIsGapless'
    BY DEF IdentityInv
  <2>3. /\ {x.revision : x \in {y \in revisions' : y.person = p}} = 1..object'[p].revision
        /\ \A x, y \in {z \in revisions' : z.person = p} : x.revision = y.revision => x = y
    BY Zenon, <2>2 DEF LineageIsGapless
  <2>4. Numbered(revisions', p, object'[p].revision)
    BY <2>3 DEF Numbered
  <2> QED
    BY <2>1, <2>4
<1>3. ASSUME NEW p \in People, p # q PROVE HistoryOf'[p] = HistoryOf[p]
  <2>1. PICK n \in Nat : n = object[p].revision
    BY <1>1
  <2>2. object'[p].revision = n /\ r.person # p
    BY <1>3, <2>1
  <2>3. Numbered(revisions, p, n) /\ Numbered(revisions \cup {r}, p, n)
    BY Zenon, <1>1, <1>2, <2>1, <2>2
  <2>4. InOrder(revisions \cup {r}, p, n) = InOrder(revisions, p, n)
    BY <2>2, <2>3, OthersKeepTheirOrder
  <2> QED
    BY Zenon, <1>1, <1>2, <2>1, <2>2, <2>4
<1>4. HistoryOf'[q] = Append(HistoryOf[q], r)
  <2>1. PICK n \in Nat : n = object[q].revision
    BY <1>1
  <2>2. object'[q].revision = n + 1 /\ r.revision = n + 1
    BY <2>1
  <2>3. Numbered(revisions, q, n) /\ Numbered(revisions \cup {r}, q, n + 1)
    BY Zenon, <1>1, <1>2, <2>1, <2>2
  <2>4. InOrder(revisions \cup {r}, q, n + 1) = Append(InOrder(revisions, q, n), r)
    BY <2>2, <2>3, OrderGrows
  <2> QED
    BY Zenon, <1>1, <1>2, <2>1, <2>2, <2>4
<1>5. PICK h : h = HistoryOf
  OBVIOUS
<1>6. PICK k : k = HistoryOf'
  OBVIOUS
<1>7. h = [p \in People |-> h[p]] /\ k = [p \in People |-> k[p]]
  BY <1>5, <1>6 DEF HistoryOf
<1>8. k[q] = Append(h[q], r) /\ \A p \in People \ {q} : k[p] = h[p]
  BY Zenon, <1>3, <1>4, <1>5, <1>6
<1>9. PICK s : s = Append(h[q], r)
  BY Zenon
<1>10. k = [h EXCEPT ![q] = s]
  BY Zenon, <1>7, <1>8, <1>9
<1> QED
  BY Zenon, <1>5, <1>6, <1>9, <1>10

\* What Extend asks and does, in the terms of the tables.
LEMMA TablesExtend ==
    ASSUME IdentityInv, IdentityInv', NEW r \in Revisions, NEW q \in People, r.person = q,
           r.revision = object[q].revision + 1, revisions' = revisions \cup {r},
           object'[q].revision = r.revision,
           \A p \in People \ {q} : object'[p] = object[p],
           \A x \in revisions : x.attestation # r.attestation
    PROVE  Trust!Extend(q, r.status, r.attestation, r.seen)
<1>1. HistoryOf' = [HistoryOf EXCEPT ![q] = Append(HistoryOf[q], r)]
  BY Zenon, HistoryGrows
<1>2. Trust!Unused(r.attestation)
  <2> SUFFICES ASSUME NEW p \in People, NEW i \in DOMAIN HistoryOf[p]
               PROVE  HistoryOf[p][i].attestation # r.attestation
    BY Zenon DEF Trust!Unused
  <2>1. HistoryOf[p] \in Seq(revisions)
    BY Zenon, HistoryIs
  <2>2. HistoryOf[p][i] \in revisions
    BY <2>1
  <2> QED
    BY <2>2
<1>3. r = [person |-> q, revision |-> Len(HistoryOf[q]) + 1, status |-> r.status,
           attestation |-> r.attestation, seen |-> r.seen]
  <2>1. Len(HistoryOf[q]) = object[q].revision
    BY Zenon, HistoryIs
  <2>2. r.revision = Len(HistoryOf[q]) + 1
    BY <2>1
  <2>3. r = [person |-> r.person, revision |-> r.revision, status |-> r.status,
             attestation |-> r.attestation, seen |-> r.seen]
    BY DEF Revisions
  <2> QED
    BY Zenon, <2>2, <2>3
<1> QED
  BY Zenon, <1>1, <1>2, <1>3 DEF Trust!Extend

LEMMA FoundsRefines ==
    ASSUME IdentityInv, IdentityInv', TrustInv, NEW c \in Calls, NEW a, Founds(c, a)
    PROVE  Trust!Found(a) /\ a \in Anchors
<1>1. PICK q \in People : q = a.person
  BY DEF Founds, Anchors
<1>2. PICK r : r = FirstRevision(a)
  OBVIOUS
<1>3. /\ a \in Anchors /\ ~Anchored(q) /\ SpeaksFor(a)
      /\ revisions' = revisions \cup {r} /\ genesis' = genesis \cup {a} /\ told' = told \cup {a}
      /\ object' = [object EXCEPT ![q] = [revision |-> 1, status |-> "ACTIVE"]]
  BY <1>1, <1>2 DEF Founds, WriteIdentity
<1>4. /\ r \in Revisions /\ r.person = q /\ r.revision = 1 /\ r.status = "ACTIVE"
      /\ r.seen = "ACTIVE" /\ r.attestation = a.attestation
  BY <1>1, <1>2, <1>3, IdentityAssumption DEF FirstRevision, Revisions, Anchors, Numbers, Statuses
<1>5. object \in [People -> Objects] /\ object[q].revision \in Nat
  BY DEF IdentityInv, IdentityTypeOK, Objects
<1>6. object[q].revision = 0
  <2>1. ~Onboarded(q)
    BY Zenon, <1>3 DEF IdentityInv, AnchorsAreObjects
  <2> QED
    BY <1>5, <2>1 DEF Onboarded
<1>7. object'[q].revision = 1 /\ \A p \in People \ {q} : object'[p] = object[p]
  BY <1>3, <1>5
<1>8. r.revision = object[q].revision + 1 /\ object'[q].revision = r.revision
  BY <1>4, <1>6, <1>7
<1>9. \A x \in revisions : x.attestation # r.attestation
  BY <1>1, <1>3, <1>4, FirstUse
<1>10. Trust!Extend(q, r.status, r.attestation, r.seen)
  BY Zenon, <1>3, <1>4, <1>7, <1>8, <1>9, TablesExtend
<1>11. HistoryOf[q] = <<>>
  <2>1. HistoryOf[q] \in Seq(revisions) /\ Len(HistoryOf[q]) = object[q].revision
    BY Zenon, HistoryIs
  <2> QED
    BY <1>6, <2>1
<1>12. \A g \in genesis : g.person # a.person
  BY <1>1, <1>3 DEF Anchored
<1> QED
  BY Zenon, <1>1, <1>3, <1>4, <1>10, <1>11, <1>12 DEF Trust!Found

LEMMA RecordsRefines ==
    ASSUME IdentityInv, IdentityInv', TrustInv, NEW c \in Calls, NEW r, Records(c, r)
    PROVE  \E p \in People, status \in Statuses, a \in Attestations : Trust!Record(p, status, a)
<1>1. /\ r \in Revisions /\ Expected(r) /\ BuiltOn(r)
      /\ \A x \in revisions : x.attestation # r.attestation
      /\ revisions' = revisions \cup {r} /\ UNCHANGED genesis /\ UNCHANGED told
      /\ object' = [object EXCEPT ![r.person] = [revision |-> r.revision, status |-> r.status]]
  BY DEF Records, WriteRevision, ProjectionOf
<1>2. /\ r.person \in People /\ r.status \in Statuses /\ r.attestation \in Attestations
      /\ r.revision \in Int
  BY <1>1 DEF Revisions, Numbers
<1>3. PICK q \in People : q = r.person
  BY <1>2
<1>4. PICK n \in Nat : n = object[q].revision
  BY DEF IdentityInv, IdentityTypeOK, Objects
<1>5. r.revision = n + 1 /\ n >= 1 /\ r.seen # "REVOKED" /\ object[q].status = r.seen
  BY <1>1, <1>2, <1>3, <1>4 DEF Expected, BuiltOn
<1>6. object'[q].revision = r.revision /\ \A p \in People \ {q} : object'[p] = object[p]
  BY <1>1, <1>3 DEF IdentityInv, IdentityTypeOK
<1>7. Trust!Extend(q, r.status, r.attestation, r.seen)
  <2>1. r.revision = object[q].revision + 1 /\ r.person = q
    BY <1>3, <1>4, <1>5
  <2> QED
    BY Zenon, <1>1, <1>6, <2>1, TablesExtend
<1>8. /\ HistoryOf[q] \in Seq(revisions) /\ Len(HistoryOf[q]) = n
      /\ \A i \in 1..n : /\ HistoryOf[q][i] \in revisions
                         /\ HistoryOf[q][i].person = q /\ HistoryOf[q][i].revision = i
  BY Zenon, <1>4, HistoryIs
<1>9. PICK last \in revisions : /\ last = HistoryOf[q][Len(HistoryOf[q])]
                                /\ last.person = q /\ last.revision = n
  BY <1>5, <1>8
<1>10. last.status = object[q].status
  <2>1. \A x \in {y \in revisions : y.person = q} :
            x.revision = object[q].revision => x.status = object[q].status
    BY Zenon DEF IdentityInv, LineageIsGapless
  <2> QED
    BY <1>4, <1>9, <2>1
<1>11. HistoryOf[q] # <<>>
  BY <1>5, <1>8
<1>12. Trust!Record(q, r.status, r.attestation)
  BY Zenon, <1>1, <1>5, <1>7, <1>9, <1>10, <1>11 DEF Trust!Record
<1> QED
  BY Zenon, <1>2, <1>12

LEMMA TablesKept ==
    ASSUME UNCHANGED identityTables PROVE UNCHANGED <<genesis, HistoryOf>>
BY DEF identityTables, HistoryOf

LEMMA OnboardRefines ==
    ASSUME IdentityInv, TrustInv, NEW c \in Calls, NEW a \in Attestations,
           NEW corridor \in Corridors, Onboard(c, a, corridor)
    PROVE  (\E g \in genesis : Trust!Tell(g)) \/ UNCHANGED Trust!historyVars
<1>1. UNCHANGED genesis /\ UNCHANGED HistoryOf
  BY TablesKept DEF Onboard
<1>2. CASE UNCHANGED told
  BY <1>1, <1>2 DEF Trust!historyVars
<1>3. CASE Onboarded(SubjectOf[a]) /\ told' = told \cup {g \in genesis : g.person = SubjectOf[a]}
  <2>1. SubjectOf[a] \in People
    BY IdentityAssumption
  <2>2. PICK g \in genesis : g.person = SubjectOf[a]
    BY Zenon, <1>3, <2>1 DEF IdentityInv, AnchorsAreObjects, Anchored
  <2>3. {h \in genesis : h.person = SubjectOf[a]} = {g}
    BY <2>2 DEF TrustInv, AnchorsAreStable
  <2>4. told' = told \cup {g}
    BY <1>3, <2>3
  <2> QED
    BY Zenon, <1>1, <2>2, <2>4 DEF Trust!Tell
<1> QED
  BY Zenon, <1>2, <1>3 DEF Onboard

LEMMA StepRefines ==
    IdentityInv /\ IdentityInv' /\ TrustInv /\ [IdentityNext]_identityVars
        => [Trust!Next]_(Trust!historyVars)
<1> SUFFICES ASSUME IdentityInv, IdentityInv', TrustInv, [IdentityNext]_identityVars
             PROVE  Trust!Next \/ UNCHANGED Trust!historyVars
  OBVIOUS
<1> DEFINE Goal == Trust!Next \/ UNCHANGED Trust!historyVars
<1>1. ASSUME UNCHANGED identityTables, UNCHANGED told PROVE Goal
  BY <1>1, TablesKept DEF Trust!historyVars
<1>2. ASSUME NEW c \in Calls, NEW a, Founds(c, a) PROVE Goal
  BY Zenon, <1>2, FoundsRefines DEF Trust!Next
<1>3. ASSUME NEW c \in Calls, NEW r, Records(c, r) PROVE Goal
  BY Zenon, <1>3, RecordsRefines DEF Trust!Next
<1>4. ASSUME NEW c \in Calls, NEW a \in Attestations, NEW corridor \in Corridors,
             Onboard(c, a, corridor)
      PROVE  Goal
  BY Zenon, <1>4, OnboardRefines DEF Trust!Next
<1> HIDE DEF Goal
<1>5. ASSUME UNCHANGED identityVars PROVE Goal
  BY <1>1, <1>5 DEF identityVars, identityTables
<1>6. ASSUME NEW c \in Calls, IdentityStep(c) PROVE Goal
  <2>1. CASE SaveInMemory(c)
    BY Zenon, <1>1, <1>2, <2>1, SavesFound DEF SaveInMemory
  <2>2. CASE AppendInMemory(c)
    BY Zenon, <1>1, <1>3, <2>2, AppendsRecord DEF AppendInMemory
  <2>3. CASE CommitSave(c)
    BY <1>2, <2>3, SavesFound
  <2>4. CASE CommitRevision(c)
    BY <1>3, <2>4, AppendsRecord
  <2>5. CASE InsertGenesis(c) \/ InsertRevision(c) \/ UpdateObject(c) \/ Lose(c)
    BY <1>1, <2>5 DEF InsertGenesis, InsertRevision, UpdateObject, Lose
  <2>6. CASE \E a \in Attestations, status \in Statuses : Revise(c, a, status)
    BY <1>1, <2>6 DEF Revise
  <2> QED
    BY <1>4, <1>6, <2>1, <2>2, <2>3, <2>4, <2>5, <2>6 DEF IdentityStep
<1> QED
  BY <1>5, <1>6 DEF IdentityNext, Goal

LEMMA InitRefines == IdentityInit => Trust!Init
<1> SUFFICES ASSUME IdentityInit PROVE Trust!Init
  OBVIOUS
<1>1. \A p \in People : object[p].revision = 0
  BY Zenon DEF IdentityInit
<1>2. ASSUME NEW p \in People PROVE HistoryOf[p] = <<>>
  <2>1. HistoryOf[p] = [n \in 1..0 |-> CHOOSE r \in revisions : r.person = p /\ r.revision = n]
    BY <1>1 DEF HistoryOf
  <2> QED
    BY <2>1
<1>3. HistoryOf = [p \in People |-> <<>>]
  BY <1>2 DEF HistoryOf
<1> QED
  BY <1>3 DEF IdentityInit, Trust!Init

(* Either repository implements the abstract trust history, for any people, *)
(* attestations, calls and losses: the several statements of save and of    *)
(* append_revision over PostgreSQL take effect in one step, and a call that *)
(* is refused or lost in none.                                              *)
THEOREM TrustRefinement == IdentitySpec => ImplementsTrustHistory
<1>1. IdentityInit => Trust!Init
  BY InitRefines
<1> QED
  BY <1>1, StepRefines, IdentityInvariant, TrustInvariant, PTL DEF IdentitySpec, ImplementsTrustHistory

-----------------------------------------------------------------------------
(* Quote acceptance *)

Bound(k) == idempotency[k] # NoContract
SoldBy(k, quote) == Bound(k) /\ Quote(idempotency[k]) = quote

Inserted == {"insert_authority", "insert_key", "commit"}

\* The uncommitted rows of a call c in state s conflict with nothing.
HoldsAlone(c, s) ==
    /\ s.at \in Inserted => Unsold(s.contract)
    /\ s.at = "commit" => ~Bound(s.key)
    /\ \A d \in Callers \ {c} :
          /\ s.at \in Inserted /\ HoldsUtt(d) => Quote(caller[d].contract) # Quote(s.contract)
          /\ s.at = "commit" /\ HoldsKey(d) => caller[d].key # s.key

\* What a call in state s has found out and relies on.
FindingsStand(s) ==
    /\ s.at \notin {"idle", "resolve", "respond"} => Valid(Quote(s.contract), s.contract.accepted_at)
    /\ s.at = "lookup" => ~Unsold(s.contract)
    /\ s.at = "respond" => idempotency[s.key] = s.contract
    /\ s.at # "idle" => s.outcome = "none"

\* The refusal a call in state s ended with is true.
RefusalStands(s) ==
    /\ s.outcome \in {"conflict", "key_race"} =>
          Bound(s.key) /\ idempotency[s.key].request # s.contract.request
    /\ s.outcome = "quote_taken" => \E j \in Keys \ {s.key} : SoldBy(j, Quote(s.contract))

AcceptanceInv ==
    /\ TypeOK
    /\ NoHalfAcceptance /\ AnswersAreDurable /\ SoldInsideWindow
    /\ \A c \in Callers :
          HoldsAlone(c, caller[c]) /\ FindingsStand(caller[c]) /\ RefusalStands(caller[c])

-----------------------------------------------------------------------------
(* Steps that write no table *)

(* A step that moves one call and writes no table keeps the invariant if    *)
(* the new state of the call stands by itself.                              *)
LEMMA LocalStep ==
    ASSUME AcceptanceInv, NEW c \in Callers, NEW s \in CallerStates,
           UNCHANGED <<now, tables>>, crashes' \in 0..MaxCrashes,
           caller' = [caller EXCEPT ![c] = s],
           \/ UNCHANGED answered
           \/ \E k \in Keys : Bound(k) /\ answered' = answered \cup {<<k, idempotency[k]>>},
           HoldsAlone(c, s), FindingsStand(s), RefusalStands(s)
    PROVE  AcceptanceInv'
<1>0. UNCHANGED <<accepted_utts, authorities, idempotency, now>>
  BY DEF tables
<1>1. /\ caller \in [Callers -> CallerStates] /\ caller' \in [Callers -> CallerStates]
      /\ caller'[c] = s /\ \A d \in Callers \ {c} : caller'[d] = caller[d]
  BY DEF AcceptanceInv, TypeOK
<1>2. answered' \subseteq Keys \X Contracts /\ AnswersAreDurable'
  <2>1. answered \subseteq Keys \X Contracts /\ AnswersAreDurable
        /\ idempotency \in [Keys -> Contracts \cup {NoContract}]
    BY DEF AcceptanceInv, TypeOK
  <2>2. CASE UNCHANGED answered
    BY <1>0, <2>1, <2>2 DEF AnswersAreDurable
  <2>3. CASE \E k \in Keys : Bound(k) /\ answered' = answered \cup {<<k, idempotency[k]>>}
    BY <1>0, <2>1, <2>3 DEF AnswersAreDurable, Bound
  <2> QED
    BY <2>2, <2>3
<1>3. TypeOK'
  BY <1>0, <1>1, <1>2 DEF AcceptanceInv, TypeOK
<1>4. NoHalfAcceptance' /\ SoldInsideWindow'
  BY <1>0 DEF AcceptanceInv, NoHalfAcceptance, SoldInsideWindow, Valid, Quote
<1>5. ASSUME NEW e \in Callers
      PROVE  HoldsAlone(e, caller[e])' /\ FindingsStand(caller[e])' /\ RefusalStands(caller[e])'
  <2>1. CASE e = c
    BY Zenon, <1>0, <1>1, <2>1
       DEF HoldsAlone, FindingsStand, RefusalStands, Bound, SoldBy, Unsold, HoldsUtt, HoldsKey, Valid, Quote
  <2>2. CASE e # c
    <3>1. HoldsAlone(e, caller[e]) /\ FindingsStand(caller[e]) /\ RefusalStands(caller[e])
      BY DEF AcceptanceInv
    <3>2. caller'[e] = caller[e]
      BY <1>1, <2>2
    <3>3. FindingsStand(caller[e])' /\ RefusalStands(caller[e])'
      BY Zenon, <1>0, <3>1, <3>2 DEF FindingsStand, RefusalStands, Bound, SoldBy, Unsold, Valid, Quote
    <3>4. HoldsAlone(e, caller[e])'
      BY Zenon, <1>0, <1>1, <2>2, <3>1, <3>2
         DEF HoldsAlone, Bound, Unsold, HoldsUtt, HoldsKey, Inserted, Quote
    <3> QED
      BY <3>3, <3>4
  <2> QED
    BY <2>1, <2>2
<1> QED
  BY Zenon, <1>2, <1>3, <1>4, <1>5 DEF AcceptanceInv

LEMMA Moved ==
    ASSUME NEW s \in CallerStates, NEW at \in Locations
    PROVE  LET t == [s EXCEPT !.at = at]
           IN  /\ t \in CallerStates /\ t.at = at
               /\ t.key = s.key /\ t.contract = s.contract /\ t.outcome = s.outcome
BY DEF CallerStates

LEMMA Ended ==
    ASSUME NEW s \in CallerStates, NEW why \in Refusals \cup {"answered", "crashed"}
    PROVE  LET t == [s EXCEPT !.at = "idle", !.outcome = why]
           IN  /\ t \in CallerStates /\ t.at = "idle" /\ t.outcome = why
               /\ t.key = s.key /\ t.contract = s.contract
BY Zenon DEF CallerStates, Locations

(* A call that goes on to another statement of its transaction. *)
LEMMA GotoInv ==
    ASSUME AcceptanceInv, NEW c \in Callers, NEW at \in Locations \ {"idle"}, Goto(c, at),
           UNCHANGED <<now, tables, crashes>>, caller[c].at # "idle",
           HoldsAlone(c, [caller[c] EXCEPT !.at = at]),
           FindingsStand([caller[c] EXCEPT !.at = at])
    PROVE  AcceptanceInv'
<1>1. caller[c] \in CallerStates /\ FindingsStand(caller[c]) /\ RefusalStands(caller[c])
      /\ crashes \in 0..MaxCrashes
  BY DEF AcceptanceInv, TypeOK
<1>2. RefusalStands([caller[c] EXCEPT !.at = at])
  BY <1>1, Moved DEF RefusalStands
<1>3. [caller[c] EXCEPT !.at = at] \in CallerStates
  BY <1>1, Moved
<1>4. caller' = [caller EXCEPT ![c] = [caller[c] EXCEPT !.at = at]] /\ UNCHANGED answered
  BY DEF Goto
<1> QED
  BY Zenon, <1>1, <1>2, <1>3, <1>4, LocalStep

(* A call that raises or is lost. *)
LEMMA RefuseInv ==
    ASSUME AcceptanceInv, NEW c \in Callers, NEW why \in Refusals \cup {"crashed"},
           Refuse(c, why), UNCHANGED <<now, tables>>, crashes' \in 0..MaxCrashes,
           why \in {"conflict", "key_race"} =>
               Bound(caller[c].key)
               /\ idempotency[caller[c].key].request # caller[c].contract.request,
           why = "quote_taken" =>
               \E j \in Keys \ {caller[c].key} : SoldBy(j, Quote(caller[c].contract))
    PROVE  AcceptanceInv'
<1> DEFINE t == [caller[c] EXCEPT !.at = "idle", !.outcome = why]
<1>1. caller[c] \in CallerStates
  BY Zenon DEF AcceptanceInv, TypeOK
<1>2. /\ t \in CallerStates /\ t.at = "idle" /\ t.outcome = why
      /\ t.key = caller[c].key /\ t.contract = caller[c].contract
  <2>1. "answered" \in Refusals \cup {"answered", "crashed"}
    OBVIOUS
  <2> QED
    BY Zenon, <1>1, <2>1, Ended
<1>3. caller' = [caller EXCEPT ![c] = t] /\ UNCHANGED answered
  BY DEF Refuse
<1> HIDE DEF t
<1>4. HoldsAlone(c, t) /\ FindingsStand(t) /\ RefusalStands(t)
  BY Zenon, <1>2 DEF HoldsAlone, FindingsStand, RefusalStands, Inserted
<1> QED
  BY Zenon, <1>2, <1>3, <1>4, LocalStep

(* A call that is told the contract its key is bound to. *)
LEMMA AnswerInv ==
    ASSUME AcceptanceInv, NEW c \in Callers, UNCHANGED <<now, tables, crashes>>,
           Bound(caller[c].key), Answer(c, caller[c].key, idempotency[caller[c].key])
    PROVE  AcceptanceInv'
<1> DEFINE t == [caller[c] EXCEPT !.at = "idle", !.outcome = "answered"]
<1>1. caller[c] \in CallerStates /\ crashes' \in 0..MaxCrashes
  BY DEF AcceptanceInv, TypeOK
<1>2. t \in CallerStates /\ t.at = "idle" /\ t.outcome = "answered"
  <2>1. "answered" \in Refusals \cup {"answered", "crashed"}
    OBVIOUS
  <2> QED
    BY ZenonT(30), <1>1, <2>1, Ended
<1>3. /\ caller' = [caller EXCEPT ![c] = t]
      /\ answered' = answered \cup {<<caller[c].key, idempotency[caller[c].key]>>}
  BY DEF Answer
<1> HIDE DEF t
<1>4. HoldsAlone(c, t) /\ FindingsStand(t) /\ RefusalStands(t)
  BY Zenon, <1>2 DEF HoldsAlone, FindingsStand, RefusalStands, Inserted
<1>5. caller[c].key \in Keys
  BY <1>1 DEF CallerStates
<1> QED
  BY Zenon, <1>1, <1>2, <1>3, <1>4, <1>5, LocalStep

LEMMA ReplayInv ==
    ASSUME AcceptanceInv, NEW c \in Callers, UNCHANGED <<now, tables, crashes>>,
           Replay(c, caller[c].key, caller[c].contract.request)
    PROVE  AcceptanceInv'
<1>1. Bound(caller[c].key) /\ crashes' \in 0..MaxCrashes
  BY Zenon DEF Replay, Bound, AcceptanceInv, TypeOK
<1>2. CASE Answer(c, caller[c].key, idempotency[caller[c].key])
  BY <1>1, <1>2, AnswerInv
<1>3. CASE /\ Refuse(c, "conflict")
           /\ idempotency[caller[c].key].request # caller[c].contract.request
  BY Zenon, <1>1, <1>3, RefuseInv DEF Refusals
<1> QED
  BY <1>2, <1>3 DEF Replay, StoredContract

LEMMA AcceptInv ==
    ASSUME AcceptanceInv, NEW c \in Callers, NEW key \in Keys, NEW request \in Requests,
           Accept(c, key, request)
    PROVE  AcceptanceInv'
<1> DEFINE t == [at |-> "resolve", key |-> key, outcome |-> "none",
                 contract |-> [request |-> request, accepted_at |-> now]]
<1>1. t \in CallerStates /\ t.at = "resolve" /\ t.outcome = "none"
  BY Zenon DEF AcceptanceInv, TypeOK, CallerStates, Locations, Contracts
<1>2. /\ caller' = [caller EXCEPT ![c] = t]
      /\ UNCHANGED <<now, tables, answered, crashes>> /\ crashes' \in 0..MaxCrashes
  BY DEF Accept, AcceptanceInv, TypeOK
<1> HIDE DEF t
<1>3. HoldsAlone(c, t) /\ FindingsStand(t) /\ RefusalStands(t)
  BY Zenon, <1>1 DEF HoldsAlone, FindingsStand, RefusalStands, Inserted
<1> QED
  BY Zenon, <1>1, <1>2, <1>3, LocalStep

LEMMA ResolveInv ==
    ASSUME AcceptanceInv, NEW c \in Callers, Resolve(c) PROVE AcceptanceInv'
<1> DEFINE request == caller[c].contract.request
           t == [caller[c] EXCEPT !.at = "select", !.contract = Contract(request)]
<1>1. /\ UNCHANGED <<now, tables, crashes>> /\ crashes' \in 0..MaxCrashes
      /\ caller[c] \in CallerStates /\ caller[c].outcome = "none" /\ now \in Times
  BY DEF Resolve, AcceptanceInv, TypeOK, FindingsStand
<1>2. CASE Replay(c, caller[c].key, request)
  BY <1>1, <1>2, ReplayInv
<1>3. CASE Refuse(c, "not_valid")
  BY <1>1, <1>3, RefuseInv DEF Refusals
<1>4. CASE Acceptable(request) /\ caller' = [caller EXCEPT ![c] = t] /\ UNCHANGED answered
  <2>1. request \in Requests
    BY <1>1 DEF CallerStates, Contracts
  <2>2. Contract(request) \in Contracts /\ Contract(request).request = request
        /\ Contract(request).accepted_at = now
    BY <1>1, <2>1 DEF Contract, Contracts
  <2>3. /\ t \in CallerStates /\ t.at = "select" /\ t.outcome = "none"
        /\ t.contract = Contract(request)
    BY Zenon, <1>1, <2>2 DEF CallerStates, Locations
  <2>4. Valid(Quote(t.contract), t.contract.accepted_at)
    BY <1>4, <2>2, <2>3 DEF Acceptable, Quote
  <2> HIDE DEF t
  <2>5. HoldsAlone(c, t) /\ FindingsStand(t) /\ RefusalStands(t)
    BY ZenonT(30), <2>3, <2>4 DEF HoldsAlone, FindingsStand, RefusalStands, Inserted
  <2> QED
    BY Zenon, <1>1, <1>4, <2>3, <2>5, LocalStep
<1> QED
  BY <1>2, <1>3, <1>4 DEF Resolve

LEMMA SelectKeyInv ==
    ASSUME AcceptanceInv, NEW c \in Callers, SelectKey(c) PROVE AcceptanceInv'
<1>1. /\ UNCHANGED <<now, tables, crashes>> /\ caller[c].at = "select"
      /\ caller[c] \in CallerStates /\ FindingsStand(caller[c])
  BY DEF SelectKey, AcceptanceInv, TypeOK
<1>2. CASE Replay(c, caller[c].key, caller[c].contract.request)
  BY <1>1, <1>2, ReplayInv
<1>3. CASE Goto(c, "insert_utt")
  <2> DEFINE t == [caller[c] EXCEPT !.at = "insert_utt"]
  <2>1. t.at = "insert_utt" /\ t.contract = caller[c].contract /\ t.outcome = caller[c].outcome
    BY <1>1, Moved DEF Locations
  <2> HIDE DEF t
  <2>2. HoldsAlone(c, t) /\ FindingsStand(t)
    BY Zenon, <1>1, <2>1 DEF HoldsAlone, FindingsStand, Inserted
  <2> QED
    BY <1>1, <1>3, <2>2, GotoInv DEF t, Locations
<1> QED
  BY <1>2, <1>3 DEF SelectKey

LEMMA InsertUttInv ==
    ASSUME AcceptanceInv, NEW c \in Callers, InsertUtt(c) PROVE AcceptanceInv'
<1> DEFINE at == IF Unsold(caller[c].contract) THEN "insert_authority" ELSE "lookup"
           t == [caller[c] EXCEPT !.at = at]
<1>1. /\ UNCHANGED <<now, tables, crashes>> /\ caller[c].at = "insert_utt" /\ Goto(c, at)
      /\ caller[c] \in CallerStates /\ FindingsStand(caller[c]) /\ NoRowAhead(c)
  BY DEF InsertUtt, AcceptanceInv, TypeOK
<1>2. at \in Locations \ {"idle"} /\ at \in {"insert_authority", "lookup"}
      /\ (at = "insert_authority" <=> Unsold(caller[c].contract))
  BY DEF Locations
<1> HIDE DEF at
<1>3. t.at = at /\ t.contract = caller[c].contract /\ t.outcome = caller[c].outcome
  BY <1>1, <1>2, Moved
<1> HIDE DEF t
<1>4. HoldsAlone(c, t)
  BY Zenon, <1>1, <1>2, <1>3 DEF HoldsAlone, Inserted, NoRowAhead
<1>5. FindingsStand(t)
  BY Zenon, <1>1, <1>2, <1>3 DEF FindingsStand
<1> QED
  BY <1>1, <1>2, <1>4, <1>5, GotoInv DEF t

LEMMA LookupWinnerInv ==
    ASSUME AcceptanceInv, NEW c \in Callers, LookupWinner(c) PROVE AcceptanceInv'
<1>1. /\ UNCHANGED <<now, tables, crashes>> /\ caller[c].at = "lookup" /\ crashes' \in 0..MaxCrashes
      /\ FindingsStand(caller[c])
  BY DEF LookupWinner, AcceptanceInv, TypeOK
<1>2. CASE Replay(c, caller[c].key, caller[c].contract.request)
  BY <1>1, <1>2, ReplayInv
<1>3. CASE ~Bound(caller[c].key) /\ Refuse(c, "quote_taken")
  <2>1. PICK utt \in accepted_utts : Quote(utt) = Quote(caller[c].contract)
    BY <1>1 DEF FindingsStand, Unsold
  <2>2. PICK j \in Keys : idempotency[j] = utt /\ utt # NoContract
    BY <2>1 DEF AcceptanceInv, NoHalfAcceptance
  <2>3. j # caller[c].key /\ SoldBy(j, Quote(caller[c].contract))
    BY <1>3, <2>1, <2>2 DEF Bound, SoldBy
  <2> QED
    BY Zenon, <1>1, <1>3, <2>3, RefuseInv DEF Refusals
<1> QED
  BY <1>2, <1>3 DEF LookupWinner, Bound

LEMMA InsertAuthorityInv ==
    ASSUME AcceptanceInv, NEW c \in Callers, InsertAuthority(c) PROVE AcceptanceInv'
<1> DEFINE t == [caller[c] EXCEPT !.at = "insert_key"]
<1>1. /\ UNCHANGED <<now, tables, crashes>> /\ caller[c].at = "insert_authority" /\ Goto(c, "insert_key")
      /\ caller[c] \in CallerStates /\ FindingsStand(caller[c]) /\ HoldsAlone(c, caller[c])
  BY DEF InsertAuthority, AcceptanceInv, TypeOK
<1>2. t.at = "insert_key" /\ t.contract = caller[c].contract /\ t.outcome = caller[c].outcome
  BY <1>1, Moved DEF Locations
<1> HIDE DEF t
<1>3. HoldsAlone(c, t) /\ FindingsStand(t)
  BY Zenon, <1>1, <1>2 DEF HoldsAlone, FindingsStand, Inserted
<1> QED
  BY <1>1, <1>3, GotoInv DEF t, Locations

LEMMA InsertKeyInv ==
    ASSUME AcceptanceInv, NEW c \in Callers, InsertKey(c) PROVE AcceptanceInv'
<1> DEFINE t == [caller[c] EXCEPT !.at = "commit"]
<1>1. /\ UNCHANGED <<now, tables, crashes>> /\ caller[c].at = "insert_key" /\ crashes' \in 0..MaxCrashes
      /\ caller[c] \in CallerStates /\ FindingsStand(caller[c]) /\ HoldsAlone(c, caller[c])
      /\ \A d \in Callers \ {c} : HoldsKey(d) => caller[d].key # caller[c].key
  BY DEF InsertKey, AcceptanceInv, TypeOK
<1>2. CASE ~Bound(caller[c].key) /\ Goto(c, "commit")
  <2>1. /\ t.at = "commit" /\ t.contract = caller[c].contract
        /\ t.outcome = caller[c].outcome /\ t.key = caller[c].key
    BY <1>1, Moved DEF Locations
  <2> HIDE DEF t
  <2>2. HoldsAlone(c, t)
    BY Zenon, <1>1, <1>2, <2>1 DEF HoldsAlone, Inserted
  <2>3. FindingsStand(t)
    BY Zenon, <1>1, <2>1 DEF FindingsStand
  <2> QED
    BY <1>1, <1>2, <2>2, <2>3, GotoInv DEF t, Locations
<1>3. CASE Bound(caller[c].key) /\ Refuse(c, "key_race")
  <2>1. caller[c].key \in Keys
    BY Zenon, <1>1 DEF CallerStates
  <2>2. idempotency[caller[c].key] \in accepted_utts
    BY Zenon, <1>3, <2>1 DEF Bound, AcceptanceInv, NoHalfAcceptance
  <2>3. Quote(idempotency[caller[c].key]) # Quote(caller[c].contract)
    BY Zenon, <1>1, <2>2 DEF HoldsAlone, Inserted, Unsold
  <2>4. idempotency[caller[c].key].request # caller[c].contract.request
    BY <2>3 DEF Quote
  <2> QED
    BY Zenon, <1>1, <1>3, <2>4, RefuseInv DEF Refusals
<1> QED
  BY <1>2, <1>3 DEF InsertKey, Bound, AfterKeyRace

LEMMA RespondInv ==
    ASSUME AcceptanceInv, NEW c \in Callers, Respond(c) PROVE AcceptanceInv'
<1>1. /\ UNCHANGED <<now, tables, crashes>> /\ idempotency[caller[c].key] = caller[c].contract
      /\ caller[c].contract \in Contracts
  BY DEF Respond, AcceptanceInv, TypeOK, FindingsStand, CallerStates
<1>2. Bound(caller[c].key)
  BY Zenon, <1>1, AcceptanceAssumption DEF Bound
<1> QED
  BY Zenon, <1>1, <1>2, AnswerInv DEF Respond

LEMMA CrashInv ==
    ASSUME AcceptanceInv, NEW c \in Callers, Crash(c) PROVE AcceptanceInv'
<1>1. crashes' \in 0..MaxCrashes
  BY AcceptanceAssumption DEF Crash, AcceptanceInv, TypeOK
<1> QED
  BY <1>1, RefuseInv DEF Crash, Refusals

-----------------------------------------------------------------------------
(* The commit *)

(* The commit binds an unbound key to a contract whose quote is unsold, and *)
(* no other call holds the quote or the key.                                *)
LEMMA CommitFacts ==
    ASSUME AcceptanceInv, NEW c \in Callers, Commit(c)
    PROVE  LET k == caller[c].key
               contract == caller[c].contract
           IN  /\ k \in Keys /\ contract \in Contracts /\ contract # NoContract
               /\ ~Bound(k) /\ Unsold(contract)
               /\ Valid(Quote(contract), contract.accepted_at)
               /\ accepted_utts' = accepted_utts \cup {contract}
               /\ authorities' = authorities \cup {contract}
               /\ idempotency'[k] = contract
               /\ \A j \in Keys \ {k} : idempotency'[j] = idempotency[j]
               /\ idempotency' \in [Keys -> Contracts \cup {NoContract}]
               /\ caller' = [caller EXCEPT ![c] = [caller[c] EXCEPT !.at = "respond"]]
               /\ UNCHANGED <<now, answered, crashes>>
<1>1. /\ caller[c] \in CallerStates /\ caller[c].at = "commit"
      /\ HoldsAlone(c, caller[c]) /\ FindingsStand(caller[c])
      /\ idempotency \in [Keys -> Contracts \cup {NoContract}]
  BY DEF AcceptanceInv, TypeOK, Commit
<1>2. caller[c].key \in Keys /\ caller[c].contract \in Contracts
  BY <1>1 DEF CallerStates
<1>3. /\ ~Bound(caller[c].key) /\ Unsold(caller[c].contract)
      /\ Valid(Quote(caller[c].contract), caller[c].contract.accepted_at)
  BY ZenonT(30), <1>1 DEF HoldsAlone, FindingsStand, Inserted
<1> QED
  BY <1>1, <1>2, <1>3, AcceptanceAssumption DEF Commit, Written, Goto

LEMMA CommitInv ==
    ASSUME AcceptanceInv, NEW c \in Callers, Commit(c) PROVE AcceptanceInv'
<1> DEFINE k == caller[c].key
           contract == caller[c].contract
           t == [caller[c] EXCEPT !.at = "respond"]
<1>1. /\ k \in Keys /\ contract \in Contracts /\ contract # NoContract
      /\ ~Bound(k) /\ Unsold(contract) /\ Valid(Quote(contract), contract.accepted_at)
      /\ accepted_utts' = accepted_utts \cup {contract}
      /\ authorities' = authorities \cup {contract}
      /\ idempotency'[k] = contract /\ \A j \in Keys \ {k} : idempotency'[j] = idempotency[j]
      /\ idempotency' \in [Keys -> Contracts \cup {NoContract}]
      /\ caller' = [caller EXCEPT ![c] = t]
      /\ UNCHANGED <<now, answered, crashes>>
  BY CommitFacts
<1>2. /\ caller \in [Callers -> CallerStates] /\ caller[c].at = "commit"
      /\ HoldsAlone(c, caller[c]) /\ FindingsStand(caller[c]) /\ RefusalStands(caller[c])
  BY DEF AcceptanceInv, TypeOK, Commit
<1>3. /\ t \in CallerStates /\ t.at = "respond" /\ t.key = k /\ t.contract = contract
      /\ t.outcome = caller[c].outcome
  BY ZenonT(30), <1>2, Moved DEF Locations
<1> HIDE DEF t
<1>4. /\ caller' \in [Callers -> CallerStates] /\ caller'[c] = t
      /\ \A d \in Callers \ {c} : caller'[d] = caller[d]
  BY Zenon, <1>1, <1>2, <1>3
<1>5. TypeOK'
  BY Zenon, <1>1, <1>4 DEF AcceptanceInv, TypeOK
<1>6. NoHalfAcceptance'
  <2>1. /\ accepted_utts = {idempotency[j] : j \in Keys} \ {NoContract}
        /\ authorities = accepted_utts /\ idempotency[k] = NoContract
        /\ \A i, j \in Keys : idempotency[i] = idempotency[j] /\ i # j => idempotency[j] = NoContract
    BY Zenon, <1>1 DEF AcceptanceInv, NoHalfAcceptance, Bound
  <2>2. accepted_utts' = {idempotency'[j] : j \in Keys} \ {NoContract}
    <3>1. ASSUME NEW x \in accepted_utts'
          PROVE  x # NoContract /\ \E j \in Keys : idempotency'[j] = x
      <4>1. CASE x = contract
        BY Zenon, <1>1, <4>1
      <4>2. CASE x \in accepted_utts
        <5>1. PICK j \in Keys : idempotency[j] = x /\ x # NoContract
          BY Zenon, <2>1, <4>2
        <5> QED
          BY Zenon, <1>1, <2>1, <5>1
      <4> QED
        BY Zenon, <1>1, <4>1, <4>2
    <3>2. ASSUME NEW j \in Keys, idempotency'[j] # NoContract
          PROVE  idempotency'[j] \in accepted_utts'
      <4>1. CASE j = k
        BY Zenon, <1>1, <4>1
      <4>2. CASE j # k
        BY Zenon, <1>1, <2>1, <3>2, <4>2
      <4> QED
        BY Zenon, <4>1, <4>2
    <3> QED
      BY Zenon, <3>1, <3>2
  <2>3. contract \notin accepted_utts
    BY Zenon, <1>1 DEF Unsold
  <2>4. ASSUME NEW i \in Keys, NEW j \in Keys, idempotency'[i] = idempotency'[j], i # j
        PROVE  idempotency'[j] = NoContract
    <3>1. idempotency'[k] = contract /\ \A m \in Keys : m # k => idempotency'[m] = idempotency[m]
      BY Zenon, <1>1
    <3>2. \A m \in Keys : idempotency[m] = contract => idempotency[m] = NoContract
      BY Zenon, <2>1, <2>3
    <3>3. CASE i = k
      BY Zenon, <2>4, <3>1, <3>2, <3>3
    <3>4. CASE j = k
      BY Zenon, <2>4, <3>1, <3>2, <3>4
    <3>5. CASE i # k /\ j # k
      BY Zenon, <2>1, <2>4, <3>1, <3>5
    <3> QED
      BY Zenon, <3>3, <3>4, <3>5
  <2> QED
    BY Zenon, <1>1, <2>1, <2>2, <2>4 DEF NoHalfAcceptance
<1>7. AnswersAreDurable'
  <2>1. ASSUME NEW pair \in answered PROVE idempotency'[pair[1]] = pair[2]
    <3>1. pair[1] \in Keys /\ pair[2] \in Contracts /\ idempotency[pair[1]] = pair[2]
      BY DEF AcceptanceInv, TypeOK, AnswersAreDurable
    <3> QED
      BY <1>1, <3>1, AcceptanceAssumption DEF Bound
  <2> QED
    BY <1>1, <2>1 DEF AnswersAreDurable
<1>8. SoldInsideWindow'
  BY ZenonT(30), <1>1 DEF AcceptanceInv, SoldInsideWindow, Valid, Quote
<1>9. ASSUME NEW j \in Keys, Bound(j) PROVE idempotency'[j] = idempotency[j]
  BY Zenon, <1>1, <1>9
<1>10. ASSUME NEW e \in Callers
       PROVE  HoldsAlone(e, caller[e])' /\ FindingsStand(caller[e])' /\ RefusalStands(caller[e])'
  <2>1. CASE e = c
    BY Zenon, <1>1, <1>2, <1>3, <1>4, <1>9, <2>1
       DEF HoldsAlone, FindingsStand, RefusalStands, Inserted
  <2>2. CASE e # c
    <3>1. /\ HoldsAlone(e, caller[e]) /\ FindingsStand(caller[e]) /\ RefusalStands(caller[e])
          /\ caller'[e] = caller[e] /\ caller[e].key \in Keys /\ caller[e].contract \in Contracts
      BY <1>2, <1>4, <2>2 DEF AcceptanceInv, CallerStates
    <3>2. FindingsStand(caller[e])'
      BY ZenonT(30), <1>1, <1>9, <3>1, AcceptanceAssumption DEF FindingsStand, Bound, Unsold, Valid, Quote
    <3>3. RefusalStands(caller[e])'
      BY Zenon, <1>1, <1>9, <3>1 DEF RefusalStands, Bound, SoldBy, Quote
    <3>4. HoldsAlone(e, caller[e])'
      <4>1. /\ caller[e].at \in Inserted => Quote(caller[e].contract) # Quote(contract)
            /\ caller[e].at = "commit" => caller[e].key # k
        BY <1>2, <2>2 DEF HoldsAlone, Inserted, HoldsUtt, HoldsKey
      <4>2. caller[e].at \in Inserted => Unsold(caller[e].contract)'
        BY Zenon, <1>1, <3>1, <4>1 DEF HoldsAlone, Unsold, Quote
      <4>3. caller[e].at = "commit" => ~Bound(caller[e].key)'
        BY Zenon, <1>1, <3>1, <4>1 DEF HoldsAlone, Bound
      <4> QED
        BY Zenon, <1>3, <1>4, <3>1, <4>2, <4>3 DEF HoldsAlone, HoldsUtt, HoldsKey, Quote
    <3> QED
      BY <3>2, <3>3, <3>4
  <2> QED
    BY <2>1, <2>2
<1> QED
  BY Zenon, <1>5, <1>6, <1>7, <1>8, <1>10 DEF AcceptanceInv

-----------------------------------------------------------------------------
(* Theorems *)

LEMMA InitInv == Init => AcceptanceInv
<1> SUFFICES ASSUME Init PROVE AcceptanceInv
  OBVIOUS
<1>1. \A c \in Callers : caller[c].at = "idle" /\ caller[c].outcome = "none"
  BY Zenon DEF Init
<1>2. /\ (CHOOSE k \in Keys : TRUE) \in Keys
      /\ (CHOOSE r \in Requests : TRUE) \in Requests
  BY AcceptanceAssumption
<1>3. 0 \in Times /\ 0 \in 0..MaxCrashes
  BY AcceptanceAssumption DEF Times
<1>4. caller \in [Callers -> CallerStates]
  BY Zenon, <1>2, <1>3 DEF Init, CallerStates, Contracts, Locations
<1>5. TypeOK
  BY <1>3, <1>4 DEF Init, TypeOK
<1>6. NoHalfAcceptance /\ AnswersAreDurable /\ SoldInsideWindow
  BY DEF Init, NoHalfAcceptance, AnswersAreDurable, SoldInsideWindow
<1> QED
  BY Zenon, <1>1, <1>5, <1>6
     DEF AcceptanceInv, HoldsAlone, FindingsStand, RefusalStands, Inserted

(* The invariant does not depend on the clock.                              *)
LEMMA OnlyTheClock ==
    ASSUME AcceptanceInv, TypeOK',
           UNCHANGED <<accepted_utts, authorities, idempotency, caller, answered>>
    PROVE  AcceptanceInv'
<1>1. NoHalfAcceptance' /\ AnswersAreDurable' /\ SoldInsideWindow'
  BY Zenon DEF AcceptanceInv, NoHalfAcceptance, AnswersAreDurable, SoldInsideWindow
<1>2. ASSUME NEW c \in Callers PROVE HoldsAlone(c, caller[c])'
  BY Zenon DEF AcceptanceInv, HoldsAlone, Unsold, Bound, HoldsUtt, HoldsKey
<1>3. ASSUME NEW c \in Callers PROVE FindingsStand(caller[c])' /\ RefusalStands(caller[c])'
  BY Zenon DEF AcceptanceInv, FindingsStand, RefusalStands, Unsold, Bound, SoldBy
<1> QED
  BY Zenon, <1>1, <1>2, <1>3 DEF AcceptanceInv

LEMMA TickInv == ASSUME AcceptanceInv, Tick PROVE AcceptanceInv'
<1>1. now' \in Times /\ UNCHANGED <<accepted_utts, authorities, idempotency, caller, answered, crashes>>
  BY AcceptanceAssumption DEF AcceptanceInv, TypeOK, Tick, Times, tables
<1>2. TypeOK'
  BY <1>1 DEF AcceptanceInv, TypeOK
<1> QED
  BY Zenon, <1>1, <1>2, OnlyTheClock

LEMMA StepInv == AcceptanceInv /\ [Next]_vars => AcceptanceInv'
<1> SUFFICES ASSUME AcceptanceInv, [Next]_vars PROVE AcceptanceInv'
  OBVIOUS
<1>1. CASE UNCHANGED vars
  <2>1. UNCHANGED <<now, accepted_utts, authorities, idempotency, caller, answered, crashes>>
    BY <1>1 DEF vars
  <2>2. TypeOK'
    BY Zenon, <2>1 DEF AcceptanceInv, TypeOK
  <2> QED
    BY Zenon, <2>1, <2>2, OnlyTheClock
<1>2. CASE Tick
  BY <1>2, TickInv
<1>3. ASSUME NEW c \in Callers, Step(c) PROVE AcceptanceInv'
  BY <1>3, ResolveInv, SelectKeyInv, InsertUttInv, LookupWinnerInv, InsertAuthorityInv,
     InsertKeyInv, CommitInv, RespondInv DEF Step
<1> QED
  BY <1>1, <1>2, <1>3, AcceptInv, CrashInv DEF Next

\* The invariant holds of every behaviour, for all calls, keys and requests.
THEOREM AcceptanceInvariant == Spec => []AcceptanceInv
BY InitInv, StepInv, PTL DEF Spec

\* A rolled-back acceptance leaves no row, and a key has one contract.
THEOREM NothingIsHalf == Spec => []NoHalfAcceptance
<1>1. AcceptanceInv => NoHalfAcceptance
  BY DEF AcceptanceInv
<1> QED
  BY <1>1, AcceptanceInvariant, PTL

\* What a caller was told is what its key is bound to.
THEOREM AnswersStand == Spec => []AnswersAreDurable
<1>1. AcceptanceInv => AnswersAreDurable
  BY DEF AcceptanceInv
<1> QED
  BY <1>1, AcceptanceInvariant, PTL

\* No call is refused for a reason that is not so.
THEOREM RefusalsStand == Spec => []RefusalsAreTrue
<1>1. AcceptanceInv => RefusalsAreTrue
  BY Zenon DEF AcceptanceInv, RefusalStands, RefusalsAreTrue, Bound, SoldBy
<1> QED
  BY <1>1, AcceptanceInvariant, PTL

\* No contract is sold outside the window of its quote.
THEOREM SalesInsideWindow == Spec => []SoldInsideWindow
<1>1. AcceptanceInv => SoldInsideWindow
  BY DEF AcceptanceInv
<1> QED
  BY <1>1, AcceptanceInvariant, PTL

(* A step that leaves the keys alone and tells at most what a key is bound  *)
(* to is a step of the ledger, or none.                                     *)
LEMMA TellRefines ==
    ASSUME NEW k \in Keys, UNCHANGED idempotency, Bound(k),
           answered' = answered \cup {<<k, idempotency[k]>>}
    PROVE  Ledger!Next
BY DEF Ledger!Next, Ledger!Tell, Bound

LEMMA LedgerStep == AcceptanceInv /\ [Next]_vars => [Ledger!Next]_(Ledger!ledgerVars)
<1> SUFFICES ASSUME AcceptanceInv, [Next]_vars PROVE [Ledger!Next]_(Ledger!ledgerVars)
  OBVIOUS
<1>1. CASE UNCHANGED <<idempotency, answered>>
  BY <1>1 DEF Ledger!ledgerVars
<1>2. CASE UNCHANGED vars \/ Tick
  BY <1>1, <1>2 DEF vars, Tick, tables
<1>3. ASSUME NEW c \in Callers PROVE caller[c].key \in Keys
  BY DEF AcceptanceInv, TypeOK, CallerStates
<1>4. ASSUME NEW c \in Callers, Replay(c, caller[c].key, caller[c].contract.request), UNCHANGED tables
      PROVE  [Ledger!Next]_(Ledger!ledgerVars)
  BY <1>1, <1>3, <1>4, TellRefines DEF Replay, Answer, Refuse, StoredContract, Bound, tables
<1>5. ASSUME NEW c \in Callers, Respond(c) PROVE [Ledger!Next]_(Ledger!ledgerVars)
  <2>1. /\ UNCHANGED idempotency /\ idempotency[caller[c].key] = caller[c].contract
        /\ answered' = answered \cup {<<caller[c].key, caller[c].contract>>}
        /\ caller[c].contract \in Contracts
    BY <1>5 DEF Respond, Answer, tables, AcceptanceInv, FindingsStand, TypeOK, CallerStates
  <2> QED
    BY <1>3, <2>1, AcceptanceAssumption, TellRefines DEF Bound
<1>6. ASSUME NEW c \in Callers, Commit(c) PROVE Ledger!Next
  <2> DEFINE k == caller[c].key
             contract == caller[c].contract
  <2>1. k \in Keys /\ contract \in Contracts /\ ~Bound(k) /\ Unsold(contract) /\ UNCHANGED answered
    BY <1>6, CommitFacts
  <2>2. idempotency' = [idempotency EXCEPT ![k] = contract]
    BY <1>6 DEF Commit, Written
  <2>3. \A j \in Keys : idempotency[j] # NoContract => Quote(idempotency[j]) # Quote(contract)
    BY Zenon, <2>1 DEF AcceptanceInv, NoHalfAcceptance, Unsold
  <2>4. Ledger!Bind(k, contract)
    BY <2>1, <2>2, <2>3 DEF Ledger!Bind, Bound
  <2> QED
    BY <2>1, <2>4 DEF Ledger!Next
<1>7. ASSUME NEW c \in Callers, Step(c) PROVE [Ledger!Next]_(Ledger!ledgerVars)
  <2>1. CASE Resolve(c)
    BY <1>1, <1>4, <2>1 DEF Resolve, Refuse, tables
  <2>2. CASE SelectKey(c) \/ LookupWinner(c)
    BY <1>1, <1>4, <2>2 DEF SelectKey, LookupWinner, Goto, Refuse, tables
  <2>3. CASE InsertUtt(c) \/ InsertAuthority(c) \/ InsertKey(c)
    BY <1>1, <2>3 DEF InsertUtt, InsertAuthority, InsertKey, AfterKeyRace, Goto, Refuse, tables
  <2> QED
    BY <1>5, <1>6, <1>7, <2>1, <2>2, <2>3 DEF Step
<1>8. ASSUME NEW c \in Callers,
             Crash(c) \/ \E key \in Keys, request \in Requests : Accept(c, key, request)
      PROVE  UNCHANGED <<idempotency, answered>>
  BY <1>8 DEF Crash, Refuse, Accept, tables
<1> QED
  BY <1>1, <1>2, <1>7, <1>8 DEF Next

\* The interleaved statements of all calls implement the ledger that binds a
\* key, or tells its contract, in one step.
THEOREM LedgerRefinement == Spec => ImplementsLedger
<1>1. Init => Ledger!Init
  BY DEF Init, Ledger!Init
<1> QED
  BY <1>1, AcceptanceInvariant, LedgerStep, PTL DEF Spec, ImplementsLedger
=============================================================================
