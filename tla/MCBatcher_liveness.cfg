\* A streaming and a plain call; requests may fail, the worker loop does not.
CONSTANTS
    r1 = r1
    r2 = r2
    Requests <- TwoRequests
    Streaming <- OneRequest
    MaxTokens = 2
    MaxChecks = 1
    AllocFaults = FALSE
    MayStop = TRUE
SPECIFICATION FairSpec
PROPERTIES
    EveryCallEnds
    StopEnds
CHECK_DEADLOCK FALSE
