SPECIFICATION Spec
CONSTANTS
    Actions <- MCDelete
    MaxTokens = 3
INVARIANTS
    RetriedRequestCounts
