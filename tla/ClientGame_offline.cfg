SPECIFICATION TabSpec
CONSTANTS
    Scenarios <- Offline
    Own = "api"
    Forever = 9
INVARIANTS
    RefusedOnlyOffline
CHECK_DEADLOCK FALSE
