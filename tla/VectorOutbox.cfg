CONSTANTS
    c1 = c1
    c2 = c2
    w1 = w1
    w2 = w2
    Callers = {c1, c2}
    Workers = {w1, w2}
    MaxRequests = 3
    MaxTroubles = 2
    Nobody = Nobody
SPECIFICATION FairSpec
INVARIANTS
    OutboxSafe
PROPERTIES
    ProjectionNeverGoesBack
    ProjectionCatchesUp
CHECK_DEADLOCK FALSE
