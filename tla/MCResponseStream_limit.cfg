\* The last token is a part of a character.
CONSTANTS
    Pieces <- TextPieces
    MaxPieces = 2
    MaxCalls = 1
    MaxProbes = 1
SPECIFICATION Spec
INVARIANT LimitIsReported
CHECK_DEADLOCK FALSE
