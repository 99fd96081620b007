SPECIFICATION Spec
CONSTANTS
    Calls = {1, 2}
    MaxConcurrent = 2
    Codes = {7, 8}
    Typed = {7, 8, 1000008}
    MaxForgets = 1
INVARIANTS TypeOK HandshakeAgrees OkIsAuthenticated CredentialIsFresh
PROPERTY GoodCallsSucceed
CHECK_DEADLOCK FALSE
