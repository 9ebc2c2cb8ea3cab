SPECIFICATION FairSpec
CONSTANTS
    Callers = {c1, c2}
    Keys = {k1, k2}
    Requests = {r1, r2, r3}
    q1 = q1
    q2 = q2
    r1 = r1
    r2 = r2
    r3 = r3
    QuoteOf <- MCQuoteOf
    IssuedAt <- MCIssuedAt
    ExpiresAt <- MCExpiresAt
    NoContract = NoContract
    MaxTime = 1
    MaxCrashes = 1
INVARIANTS
    NoHalfAcceptance
    AnswersAreDurable
    RefusalsAreTrue
    SoldInsideWindow
PROPERTIES
    ImplementsLedger
    CallsEnd
