SPECIFICATION Spec
CONSTANTS
    VectorSets = {v1, v2}
    Orders <- AnyOrder
    MaxFaults = 2
INVARIANTS
    TypeOK
    ResponsesMatch
    DownloadIsComplete
PROPERTIES
    ValidatesOnlyPassed
    OfflineCompletes
\* When the session is lost or complete nothing needs to happen.
CHECK_DEADLOCK FALSE
