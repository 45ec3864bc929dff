SPECIFICATION Spec
CONSTANTS
    Count = 3
    Urls <- SomeUrls
    Algs = {RSA, ECDSA}
    Modes = {keyGen}
    Prefixes <- UrlPrefixes
    MaxRounds = 2
INVARIANTS
    VerdictIsFinal
    UnshadowedIsNamed
\* The loop has ended.
CHECK_DEADLOCK FALSE
