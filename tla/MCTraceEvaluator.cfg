SPECIFICATION TraceSpec
CONSTANTS
    Judged <- Pilot
    MaxEdits = 2
    Injected <- MCInjected
CHECK_DEADLOCK FALSE
INVARIANTS
    ReferencePasses
    SettlementIsCausal
    EffectsAreEvidenced
