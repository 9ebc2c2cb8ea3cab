SPECIFICATION Spec
CONSTANTS
    Calls = {c1, c2}
    Runs = {r1, r2}
    Adapters = {a1, a2}
    Suite <- MCSuite
    Unasked <- MCUnasked
    MaxCrashes = 1
SYMMETRY Symmetry
CHECK_DEADLOCK FALSE
INVARIANTS
    ReportsMatchRuns
    PassedIsBacked
