SPECIFICATION FairSpec
CONSTANTS
    None = None
    Readers = {r1, r2}
    MaxEvents = 2
    Ttl = 2
INVARIANTS
    NoUseAfterClose
    NothingLeftRunning
PROPERTIES
    StatsRegressOnce
    ShutdownEnds
    RollupCatchesUp
    RealtimeCatchesUp
