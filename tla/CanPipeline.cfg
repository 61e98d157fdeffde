SPECIFICATION FairSpec
CONSTANTS
    Size = 2
    MaxIds = 1
    MaxEntries = 2
    TickMod = 3
    Timeout = 1
    MaxTime = 3
    MaxArrivals = 3
    Kinds <- MCKinds
    Filters <- MCFilters
    NoFrame = NoFrame
INVARIANTS
    StatisticsMatchTraffic
    TimeoutVerdictSound
    HandlersSawTheirFrames
PROPERTIES
    ImplementsDelivery
    AcceptedFramesAreProcessed
