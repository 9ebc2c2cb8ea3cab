SPECIFICATION SettlementSpec
SYMMETRY Symmetry
CONSTANTS
    r1 = r1
    r2 = r2
    NoRoute = NoRoute
    Routes <- MCRoutes
    Rank <- MCRank
    EstimatedCost <- MCEstimatedCost
    Budget = 0
    MaxAttempts = 2
    ActualCosts = {0}
    Callers = {o, h1, h2}
    Handlers = {h1, h2}
    DatabaseGuards = FALSE
    MaxCrashes = 1
    NoEvidence = NoEvidence
    Notifications = {sender}
    Couriers = {c1, c2}
    MaxCourierCrashes = 1
INVARIANTS
    EvidenceIsEarned
    AppliedHadItsEffect
    OutcomeHasItsCallback
    SmsTellsTheTruth
PROPERTIES
    ImplementsOneShot
