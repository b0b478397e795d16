CONSTANTS
    Procs = {p1, p2}
    Nobody = Nobody
    HeaderNames = {"x"}
    ReusedAs = {}
    Values = {0, 1, 2}
    Templates = 2
    RetryTemplates = {2}
    Cookies = {"a"}
    ConfigCalls <- OneCall
    Requests <- CookieRequests
    ZeroClient = FALSE
    MaxCalls = 1
    MaxHookCalls = 0
SPECIFICATION Spec
INVARIANT CookiesArePerRequest
