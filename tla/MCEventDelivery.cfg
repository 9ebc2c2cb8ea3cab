SPECIFICATION DeliverySpec
CONSTRAINT RttStaysOpen
SYMMETRY Symmetry
CONSTANTS
    RttIds = {1}
    Dispatchers = {d1}
    Adapters = {a}
    Direct = {a}
    Idempotent = {}
    ProviderOf <- MCProviderOf
    Refs = {"bank@1"}
    RefOf <- MCRefOf
    RouteProvider <- MCRouteProvider
    Pinned <- MCPinned
    MaxDispatches = 1
    MaxCrashes = 0
    Workers = {w1, w2}
    LeaseTicks = 1
    BackoffCap = 1
    MaxDeliveryAttempts = 2
    BatchLimit = 1
    AttemptCap = 2
    MaxFaults = 1
    NoWorker = NoWorker
    NoEvent = NoEvent
INVARIANTS
    ProjectionIsTrue
    LeaseIsExclusive
    PublishedReachedTheBus
PROPERTIES
    DeliveryEndsOnce
