SPECIFICATION FollowSpec
CONSTANTS
    MaxEvents = 3
    MaxStreamed = 2
    MaxFaults = 2
    Unknown = Unknown
    Emitters = {e1, e2}
    QueueSize = 1
    MaxConnections = 2
    MaxOperations = 1
    PageSize = 1
INVARIANTS
    JournalSound
    BrowserIsTold
PROPERTIES
    StreamCatchesUp
CHECK_DEADLOCK FALSE
