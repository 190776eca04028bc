SPECIFICATION FairLogSpec
CONSTANTS
    MaxBatch = 2
    MaxQueue = 3
    MaxLogs = 7
    MaxFail = 2
INVARIANTS Accounted
PROPERTIES EveryRecordStored
CHECK_DEADLOCK FALSE
