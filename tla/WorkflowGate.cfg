SPECIFICATION FairSpec
CONSTANTS
    Clients = {c1, c2}
    Workers = {k1}
    Workflows = {w1, w2}
    Locks = {l1, l2}
    None = None
    MaxConcurrent = 1
    MaxPending = 0
ACTION_CONSTRAINT
    HasteBound
INVARIANTS
    DesignsAreGuarded
    NothingLeaks
PROPERTIES
    AcceptedWorkEnds
