SPECIFICATION Spec
CONSTANTS
    HonestPsbts <- honest_psbts
    AnyPsbts <- any_psbts
    CoinTypes = {0, 1}
    AnyRequests <- any_requests
    MaxRounds = 3
INVARIANTS TypeOK SignedPsbtVerifies OkKeepsEverySignature
PROPERTY CompletePsbtIsSigned
CHECK_DEADLOCK FALSE
