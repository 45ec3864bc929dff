SPECIFICATION Spec
CONSTANTS
    Actions <- AllActions
    MaxTokens = 3
INVARIANTS
    TypeOK
    RetryCarriesFreshToken
    AcceptedIsReported
    NoRefreshLoop
PROPERTIES
    CallIsAtomic
