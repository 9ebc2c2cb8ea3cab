SPECIFICATION FairPartnerSpec
CONSTANTS
    NoRoute = NoRoute
    Weights <- MCWeights
    Routes <- MCRoutes
    Rank <- MCRank
    EstimatedCost <- MCEstimatedCost
    Budget = 2
    MaxAttempts = 2
    ActualCosts = {0, 2}
    Callers = {c1, c2}
    DatabaseGuards = TRUE
    MaxChanges = 2
INVARIANTS
    StartsSawActiveBindings
    IInv
    CostsAreCounted
PROPERTIES
    OutcomesAreFinal
    ImplementsRouteByRoute
    DecidedUnlessInactive
