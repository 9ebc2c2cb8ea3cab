SPECIFICATION Spec
CONSTANTS
    r1 = r1
    r2 = r2
    r3 = r3
    NoRoute = NoRoute
    Routes <- MCRoutes
    Rank <- MCRank
    EstimatedCost <- MCEstimatedCost
    Budget = 2
    MaxAttempts = 2
    ActualCosts = {0, 2}
    Callers = {c1, c2}
    DatabaseGuards = TRUE
PROPERTIES
    ReconciliationAwaitsResolution
