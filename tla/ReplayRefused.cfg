SPECIFICATION ReplaySpec
CONSTANTS
    s1 = s1
    s2 = s2
    e1 = e1
    e2 = e2
    w1 = w1
    w2 = w2
    r1 = r1
    r2 = r2
    Subs = {s1, s2}
    EventIds = {e1, e2}
    EventId <- OwnEventId2
    Workers = {w1}
    Unencodable = {}
    Refusable = {e1}
    QueueMaxSize = 2
    BatchSize = 2
    MaxRetries = 0
    Replays = {r1}
PROPERTIES
    RetainedUnlessStored
