\* The deadline passes while the peer listens.
CONSTANTS
    Pieces <- OnePiece
    MaxPieces = 1
    MaxCalls = 1
    MaxProbes = 1
SPECIFICATION Spec
INVARIANT DeadlineIsReported
CHECK_DEADLOCK FALSE
