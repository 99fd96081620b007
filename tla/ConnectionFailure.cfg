SPECIFICATION Spec
CONSTANTS
    Conns = {a}
    MAX_ALLOC_READS = 2
    MaxOpens = 1
    MaxRequests = 1
    MaxQueue = 1
    FailureCodes = {"ActionCancelled", "PinCancelled", "ProcessError"}
INVARIANT UserCancelSurfaces
CHECK_DEADLOCK FALSE
