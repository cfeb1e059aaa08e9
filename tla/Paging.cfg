SPECIFICATION Spec
CONSTANTS
    d1 = d1
    d2 = d2
    d3 = d3
    d4 = d4
    d5 = d5
    None = None
    Records = {d1, d2, d3, d4, d5}
    SortKey <- MCSortKey
    Limits = {1, 2}
INVARIANTS
    EventsWalkComplete
    DeletesHideFew
    RepeatsAreInserts
    TotalCoversPage
