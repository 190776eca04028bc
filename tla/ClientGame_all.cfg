SPECIFICATION FairTabSpec
CONSTANTS
    Scenarios <- Tab
    Own = "api"
    Forever = 9
INVARIANTS
    NoticeOnce
    PlacedMeansPlaced
    CancelledShowsNoResult
PROPERTIES
    CatchesUp
CHECK_DEADLOCK FALSE
