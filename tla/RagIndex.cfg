CONSTANTS
    c1 = c1
    c2 = c2
    b1 = b1
    b2 = b2
    b3 = b3
    b4 = b4
    b5 = b5
    Clients = {c1, c2}
    Rebuilders = {c1}
    Builds = {b1, b2, b3, b4, b5}
    MaxRevision = 2
    MaxTroubles = 1
    Nobody = Nobody
    NoBuild = NoBuild
SPECIFICATION FairSpec
INVARIANTS
    IndexSafe
PROPERTIES
    ReadersKeepTheirIndex
    EveryoneReturns
