SPECIFICATION FairTabSpec
CONSTANTS
    Scenarios <- Ended
    Own = "api"
    Forever = 9
PROPERTIES
    ForgetsEndedRound
CHECK_DEADLOCK FALSE
