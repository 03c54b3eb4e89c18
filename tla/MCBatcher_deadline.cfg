\* The worker leaves its loop by an exception and calls keep arriving.
CONSTANTS
    r1 = r1
    r2 = r2
    Requests <- TwoRequests
    Streaming <- NoRequests
    MaxTokens = 1
    MaxChecks = 1
    AllocFaults = TRUE
    MayStop = FALSE
SPECIFICATION FairSpec
PROPERTY DeadlineEndsCall
CHECK_DEADLOCK FALSE
