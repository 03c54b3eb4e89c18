\* A streaming and a plain call, outputs of up to three tokens, every fault and
\* destruction.
CONSTANTS
    r1 = r1
    r2 = r2
    Requests <- TwoRequests
    Streaming <- OneRequest
    MaxTokens = 3
    MaxChecks = 2
    AllocFaults = TRUE
    MayStop = TRUE
SPECIFICATION Spec
INVARIANTS
    TypeOK
    ResultIsOwn
    BatchInSync
    CancelAtNextToken
    HeldOnce
    StreamIsResult
PROPERTY ImplementsService
CHECK_DEADLOCK FALSE
