SPECIFICATION FairDispatchSpec
CONSTANTS
    RttIds = {1}
    d1 = d1
    d2 = d2
    Dispatchers = {d1, d2}
    Processes = {d1, d2}
    Adapters = {"p", "q", "r", "m"}
    Direct = {"m"}
    Idempotent = {"q"}
    ProviderOf <- MCProviderOf
    Refs = {"bank@1", "bank@2"}
    RefOf <- MCRefOf
    RouteProvider <- MCRouteProvider
    Pinned <- MCPinned
    MaxDispatches = 2
    MaxCrashes = 1
    Executable = {"p", "q", "r"}
    Offered <- MCOffered
    MaxExpired = 1
    NoBuild = NoBuild
INVARIANTS
    IInv
PROPERTIES
    ImplementsOneShot
    DispatchingEnds
