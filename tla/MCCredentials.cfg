CONSTANTS
    MaxSecrets = 3
    MaxTokens = 2
    MaxCalls = 2
SPECIFICATION Spec
INVARIANTS NewCodeReachesUser ConfirmedStands
CHECK_DEADLOCK FALSE
