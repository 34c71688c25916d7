SPECIFICATION MCSpec
CONSTANTS
    Pollers = {p1, p2}
    Streams <- AllStreams
    PageLimit = 2
    ColdStart = 1
    MaxFaults = 2
    Sec = 3
    Offset = 2
    Prices = {1, 2}
    MaxTs = 7
    MaxStops = 1
    MaxPolls = 2
    Runners = {r1, r2}
    MigrationIds = {1, 2, 3}
    MaxBoots = 4
INVARIANTS NoSilentLoss ProjectionExact BarsWhole MigratedOnceInOrder
PROPERTIES ImplementsLedger PollerCatchesUp
CHECK_DEADLOCK FALSE
