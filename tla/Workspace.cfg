SPECIFICATION Spec
CONSTANTS
    t1 = t1
    t2 = t2
    c1 = c1
    c2 = c2
    Threads <- MCThreads
    Packs <- MCPacks
    Chats <- MCChats
    Designs <- MCDesigns
    MaxRevision = 3
    MaxTroubles = 1
    Requests = 3
SYMMETRY Symmetry
INVARIANTS
    PacksConsistent
    LinksHold
