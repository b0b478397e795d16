CONSTANTS
    Limit = 2
    HasHook = FALSE
    MaxRequests = 3
    Policies = {"default", "custom"}
    Bodies = {"none", "replayable", "stream"}
    NumChunks = 2
    MaxReads = 2
SPECIFICATION ReaderSpec
INVARIANTS
    ReaderTypeOK
    WholeBodyOrNone
    OneSendAfterEnd
    SendsBounded
    NoBodyLeft
    ClosedOnReturn
    WholeOrError
PROPERTIES
    DoReturns
    ReadReturns
