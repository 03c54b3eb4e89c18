\* One changed word, or a shorter file.
CONSTANTS
    NameOf <- MCName
    Image <- MCImage
    Faults <- MCFaults
    HeaderWords = 4
    Magic = 77
    Version = 3
    ValueTypes <- MCValueTypes
    TensorTypes <- MCTensorTypes
    Alignment = 4
    WordBits = 12
    MaxDepth = 2
    MaxDimensions = 4
    Expected <- MCExpected
    NonFinite <- MCNonFinite
    Rounded <- MCRounded
    ValidUtf8 <- MCValid
    PaddingName <- MCPadding
    Space <- MCSpace
    Layers = 2
    Hidden = 4
    Experts = 4
    ExpertHidden = 2
    Vocabulary = 4
    ExpertChunk = 2
    HeadChunks = 2
    FullInterval = 2
    QueryRows = 2
    KeyRows = 1
    Inner = 3
    Channels = 2
    Heads = 1
    HeadWidth = 1
    StateWidth = 2
    Kernel = 2
    Tile = 1
    Group = 2
    PackedWidth = 3
    NeTileWords = 1
    ExpertTileWords = 1
    StateBits = 4
    NeShift = 1
    NeRowBits = 2
    ExpertValues = 2
    NeValues = 2
SPECIFICATION Spec
INVARIANTS
    SpansInside
    ExpertsKeepTheirWords
    IndexesUsable
    TablesAgree
    AcceptedWeightsFinite
    NothingHeldAfterFailure
CHECK_DEADLOCK FALSE
