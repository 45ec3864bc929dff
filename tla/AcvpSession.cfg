SPECIFICATION ClientSpec
CONSTANTS
    VectorSets = {v1, v2, v3}
    MaxPolls = 1
    MaxFaults = 3
INVARIANTS
    TypeOK
    SuccessMeansAnswered
    PutComesLast
PROPERTIES
    ImplementsCertification
    NeededFileIsKept
    OperationReturns
    SessionRecovers
\* When the session is lost, cancelled or complete nothing needs to happen.
CHECK_DEADLOCK FALSE
