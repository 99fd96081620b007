SPECIFICATION CancelSpec
CONSTANTS
    MaxRequests = 6
    MaxQueue = 2
    MaxLost = 0
    LoseRequests = FALSE
PROPERTY ReplyMatches
CHECK_DEADLOCK FALSE
