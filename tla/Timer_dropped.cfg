SPECIFICATION Spec
CONSTANTS
    noEvent = noEvent
    NoEvent <- noEvent
    Sources <- MCSources
    TimerInfo <- MCTimerInfo
    Other <- MCOther
    Intervals <- MCIntervals
    MaxTicks = 2
    MaxOther = 2
CHECK_DEADLOCK FALSE
PROPERTY DroppedTimerIsSilent
