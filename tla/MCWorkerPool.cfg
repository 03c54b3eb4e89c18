\* Nested and concurrent calls share one worker, under fair scheduling.
CONSTANTS
    main = main
    other = other
    w1 = w1
    outer = outer
    inner = inner
    plain = plain
    empty = empty
    NoCall = NoCall
    Callers <- TwoCallers
    Workers <- OneWorker
    Calls <- AllCalls
    RootCall <- Roots
    Dynamic <- DynamicCalls
    Count <- Counts
    Minimum <- Twos
    NestedCall <- Nesting
    MayThrow = TRUE
    AllocFaults = TRUE
SPECIFICATION FairSpec
INVARIANTS
    TypeOK
    UnitsExactlyOnce
    NoUseAfterReturn
PROPERTIES
    EveryCallReturns
    WorkersExit
