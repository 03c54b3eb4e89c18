\* Every text of up to three tokens, with and without tools.
CONSTANTS
    Pieces <- SomePieces
    MaxPieces = 3
    MaxCalls = 2
    MaxProbes = 1
SPECIFICATION FairSpec
INVARIANTS
    TypeOK
    EndedStreamIsWhole
    DeltasAreTheText
    NoToolSyntax
    LifecycleInOrder
    NoSilentEnd
PROPERTY EveryStreamEnds
CHECK_DEADLOCK FALSE
