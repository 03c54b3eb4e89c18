\* Three peers for two places; a limit of two units of headers, two of body.
CONSTANTS
    p1 = p1
    p2 = p2
    p3 = p3
    Peers <- ThreePeers
    Offers <- SomeOffers
    Maximum = 2
    MaxHeaders = 2
    MaxBody = 2
    Chunk = 2
SPECIFICATION FairSpec
INVARIANTS
    TypeOK
    CountIsExact
    RequestIsWhole
    OneResponse
PROPERTY EveryConnectionEnds
CHECK_DEADLOCK FALSE
