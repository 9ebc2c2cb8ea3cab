---------------------------- MODULE TrustHistory ----------------------------
(***************************************************************************)
(* What the identity repository promises: a person gets one anchor, for    *)
(* good; the trust history of a person is a sequence that only grows at    *)
(* its end, each revision decided on the one before it, none after a       *)
(* revocation; an attestation counts once; onboard() only ever names the   *)
(* person's anchor.                                                        *)
(*                                                                         *)
(* InMemoryIdentityRepository takes each of these steps under one lock.    *)
(***************************************************************************)
EXTENDS Integers, Sequences

CONSTANTS
    People,        \* verified subjects
    Attestations,  \* signed attestations
    Statuses,      \* what a revision may decide
    Anchors        \* what onboarding may establish: person, corridor, attestation

VARIABLES
    anchors,    \* the anchors established
    history,    \* the trust history of each person, first revision first
    told        \* the anchors onboard() returned

historyVars == <<anchors, history, told>>

Init ==
    /\ anchors = {} /\ told = {}
    /\ history = [p \in People |-> <<>>]

Unused(attestation) ==
    \A p \in People : \A i \in DOMAIN history[p] : history[p][i].attestation # attestation

Extend(p, status, attestation, seen) ==
    /\ Unused(attestation)
    /\ history' = [history EXCEPT ![p] =
           Append(@, [person |-> p, revision |-> Len(@) + 1, status |-> status,
                      attestation |-> attestation, seen |-> seen])]

(* save: the anchor, with the first revision. *)
Found(anchor) ==
    /\ \A g \in anchors : g.person # anchor.person
    /\ history[anchor.person] = <<>>
    /\ Extend(anchor.person, "ACTIVE", anchor.attestation, "ACTIVE")
    /\ anchors' = anchors \cup {anchor}
    /\ told' = told \cup {anchor}

(* append_revision: on the last revision, whose status its author has seen. *)
Record(p, status, attestation) ==
    LET last == history[p][Len(history[p])]
    IN  /\ history[p] # <<>>
        /\ last.status # "REVOKED"
        /\ Extend(p, status, attestation, last.status)
        /\ UNCHANGED <<anchors, told>>

(* onboard() of a person who is known. *)
Tell(g) ==
    /\ told' = told \cup {g}
    /\ UNCHANGED <<anchors, history>>

Next ==
    \/ \E anchor \in Anchors : Found(anchor)
    \/ \E p \in People, status \in Statuses, a \in Attestations : Record(p, status, a)
    \/ \E g \in anchors : Tell(g)

Spec == Init /\ [][Next]_historyVars
=============================================================================
