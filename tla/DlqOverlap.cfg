SPECIFICATION Spec
CONSTANTS
    s1 = s1
    s2 = s2
    s3 = s3
    s4 = s4
    e1 = e1
    e2 = e2
    e3 = e3
    e4 = e4
    w1 = w1
    w2 = w2
    Subs = {s1, s2, s3}
    EventIds = {e1, e2, e3}
    EventId <- OwnEventId3
    Workers = {w1, w2}
    Unencodable = {}
    Refusable = {}
    QueueMaxSize = 2
    BatchSize = 1
    MaxRetries = 1
INVARIANTS
    NeverDropped
