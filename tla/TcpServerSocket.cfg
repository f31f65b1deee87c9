SPECIFICATION FairSpec
CONSTANTS
    noEvent = noEvent
    NoEvent <- noEvent
    Sources <- MCSources
    ServerInfo <- MCServerInfo
    Other <- MCOther
    Backlog = 3
    MaxOther = 2
CHECK_DEADLOCK FALSE
INVARIANTS
    AcceptNeverBlocks
PROPERTIES
    SilentAfterClose
    ClientsAreAnnounced
