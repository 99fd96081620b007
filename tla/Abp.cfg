SPECIFICATION FairSpec
CONSTANTS
    MaxRequests = 5
    MaxQueue = 3
    MaxLost = 3
    LoseRequests = TRUE
INVARIANTS TypeOK AbpInv
PROPERTIES ImplementsRequestReply SendOnlyAfterTaken ExchangeEnds
CHECK_DEADLOCK FALSE
