SPECIFICATION Spec
CONSTANTS
    N = 2
    W = 7
    C = 3
    J = 3
    SqrtM1 = 16200
    WORD = 3
    HARDENED = 10
    Elements <- MCElements
    BitSets <- MCBitSets
    Transactions <- MCTransactions
    Envelopes <- MCEnvelopes
    Paths <- MCPaths
    Texts <- MCTexts
    Fallback <- MCFallback
INVARIANTS MapIsElligator2 FullWidth EnvelopeRoundTrip PathRoundTrip PathKeepsComponents
PROPERTY ReadsForward
CHECK_DEADLOCK FALSE
