CONSTANTS
    RetryMaxCount = 2
    CustomPolicy = FALSE
    HasHook = FALSE
    Statuses = {200, 503}
    TransportErrKinds = {"scheme", "untrusted"}
    PayloadLen = 1
SPECIFICATION Spec
PROPERTY PermanentErrorsNotRetried
