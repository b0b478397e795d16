CONSTANTS
    Procs = {p1, p2}
    Nobody = Nobody
    HeaderNames = {"x"}
    ReusedAs = {3}
    Values = {0, 1, 2}
    Templates = 2
    RetryTemplates = {2}
    Cookies = {"a"}
    ConfigCalls <- BatchCalls
    Requests <- BatchRequests
    ZeroClient = FALSE
    MaxCalls = 2
    MaxHookCalls = 0
SPECIFICATION Spec
SYMMETRY Symmetry
INVARIANT TypeOK
PROPERTY ImplementsAtomicClient
