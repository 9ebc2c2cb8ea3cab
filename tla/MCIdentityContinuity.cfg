SPECIFICATION IdentitySpec
CONSTANTS
    ann = ann
    People = {ann}
    Attestations = {a1, a2, a3}
    SubjectOf <- MCSubjectOf
    Corridors = {east, west}
    Calls = {c1, c2}
    MaxRevisions = 3
    MaxLost = 1
INVARIANTS
    LineageIsGapless
    NothingAfterRevocation
PROPERTIES
    ImplementsTrustHistory
