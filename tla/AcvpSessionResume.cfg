SPECIFICATION Safety
CONSTANTS
    VectorSets = {v1, v2}
    MaxPolls = 1
    MaxFaults = 3
INVARIANTS
    ResumeValidates
\* When the session is lost, cancelled or complete nothing needs to happen.
CHECK_DEADLOCK FALSE
