CONSTANTS
    Procs = {p1, p2}
    Nobody = Nobody
    HeaderNames = {"x"}
    ReusedAs = {3}
    Values = {0, 1, 2}
    Templates = 2
    RetryTemplates = {2}
    Cookies = {"a"}
    ConfigCalls <- HookCalls
    Requests <- HookRequests
    ZeroClient = TRUE
    MaxCalls = 2
    MaxHookCalls = 1
SPECIFICATION FairSpec
INVARIANT OneDefaultJar
PROPERTIES
    ImplementsAtomicClient
    EveryCallReturns
