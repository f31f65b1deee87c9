SPECIFICATION Spec
CONSTANTS
    noEvent = noEvent
    noObject = noObject
    o1 = o1
    o2 = o2
    o3 = o3
    i1 = i1
    i2 = i2
    i3 = i3
    NoEvent <- noEvent
    NoObject <- noObject
    Objects <- MCTwoObjects
    Sources <- MCSources
    Fds = {4, 5}
    EpollResults <- MCResults
    MaxPushed = 1
    MaxReady = 1
CHECK_DEADLOCK FALSE
INVARIANT
    NewChecksTheDescriptor
