SPECIFICATION Spec
CONSTANTS
    MaxCalls = 5
    MaxCancels = 2
    MaxRounds = 1
INVARIANTS TypeOK TypedResult OwnUnlessDropped OneTransaction
CHECK_DEADLOCK FALSE
