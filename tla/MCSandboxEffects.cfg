SPECIFICATION SandboxSpec
CONSTANTS
    Workers = {w1, w2}
    LeaseTicks = 2
    RetryDelay = 1
    MaxAttempts = 2
    AttemptCap = 2
    MaxFaults = 3
    NoWorker = NoWorker
    NoEffect = NoEffect
SYMMETRY Symmetry
INVARIANTS
    DeliveredTookEffect
    SubmittedIsScheduled
PROPERTIES
    EffectEndsOnce
