SPECIFICATION Spec
CONSTANTS
    u1 = u1
    u2 = u2
    u3 = u3
    ann = ann
    shop = shop
    Utts = {u1, u2, u3}
    AcceptedAt <- MCAcceptedAt
    Rank <- MCRank
    Context <- MCContext
    Origin <- MCOrigin
    Payer <- MCPayer
    Beneficiary <- MCBeneficiary
    Subjects = {ann, shop}
    People = {ann}
    Nobody = nobody
    Readers = {r1}
    Scopes <- MCScopes
    Limit = 1
INVARIANTS
    PagingIsExact
    ReadsAreScopedAndAudited
    ParticipantsFindTheirs
