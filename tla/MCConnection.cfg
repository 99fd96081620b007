SPECIFICATION Spec
CONSTANTS
    Conns = {a, b}
    MAX_ALLOC_READS = 2
    MaxOpens = 2
    MaxRequests = 2
    MaxQueue = 2
    FailureCodes = {"ActionCancelled"}
SYMMETRY Symmetry
INVARIANTS TypeOK ReplyIsMine ChannelIsMine NonceUsedOnce NoncesAgree
CHECK_DEADLOCK FALSE
