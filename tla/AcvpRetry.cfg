SPECIFICATION Spec
CONSTANTS
    MaxWait = 10800
    RetryMin = 5
    RetryMax = 300
    RetryTime = 30
    ModifierMax = 10
    UIntMod = 65536
    ServerRetry <- MCServerRetry
INVARIANTS
    TypeOK
    GivesUpOnTime
    NoPollFlood
PROPERTIES
    Terminates
\* A loop that has returned takes no further step.
CHECK_DEADLOCK FALSE
