SPECIFICATION TabSpec
CONSTANTS
    Scenarios <- Retried
    Own = "api"
    Forever = 9
INVARIANTS
    RetryIsReplay
CHECK_DEADLOCK FALSE
