SPECIFICATION FairSpec
CONSTANTS
    NumEvents = 4
    BatchSize = 2
    Rejectable = {2}
    MaxHalts = 2
INVARIANTS
    TypeOK
    MarkedIsIndexed
    NoDynamicMapping
PROPERTIES
    ImplementsMirror
    EventuallyIndexed
    OutboxDrains
