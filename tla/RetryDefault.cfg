CONSTANTS
    RetryMaxCount = 3
    CustomPolicy = FALSE
    HasHook = TRUE
    Statuses = {200, 0, 503}
    TransportErrKinds = {"network"}
    PayloadLen = 2
SPECIFICATION FairSpec
INVARIANTS
    PayloadIntact
    CallerBodyClosed
    NoResponseLeak
    AtMostOneAttemptAfterCancel
    TypeOK
    ReturnedResponseReadable
    PairOnlyFromContextOrHook
    AlwaysAnAnswer
PROPERTIES
    KeepsContract
    CancelEndsRoundTrip
