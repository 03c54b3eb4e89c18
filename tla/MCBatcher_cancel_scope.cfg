\* The cancel callback of a call that has unwound.
CONSTANTS
    r1 = r1
    r2 = r2
    Requests <- OneRequest
    Streaming <- OneRequest
    MaxTokens = 2
    MaxChecks = 1
    AllocFaults = FALSE
    MayStop = FALSE
SPECIFICATION Spec
INVARIANT CancelCallInScope
CHECK_DEADLOCK FALSE
