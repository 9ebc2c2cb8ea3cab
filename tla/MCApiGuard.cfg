SPECIFICATION GuardSpec
CONSTANTS
    Workers = {w1, w2}
    t1 = t1
    t2 = t2
    ann = ann
    Tokens = {t1, t2}
    Forged = forged
    PrincipalOf <- MCPrincipalOf
    ExpiresAt <- MCExpiresAt
    RequestIds = {x1}
    RequestsPerWindow = 2
    WindowSeconds = 1
    MaxRequests = 3
    MaxTime = 2
    MaxCrashes = 1
CHECK_DEADLOCK FALSE
INVARIANTS
    ServedIsBacked
    WindowHoldsLimit
