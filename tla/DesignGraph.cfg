SPECIFICATION FairSpec
CONSTANTS
    MaxScene = 4
    Payload = 3
    MaxTroubles = 2
    Runs = 2
    Retention = 1
    AllowFallback = TRUE
INVARIANTS
    ProofsHold
    WhatRunsLeave
PROPERTIES
    EveryRunEnds
CHECK_DEADLOCK FALSE
