SPECIFICATION MCSpec
CONSTANTS
    Handles = {tx}
    Sources = {rx1}
    RxInfo = rx1
    NoEvent = noEvent
    MaxSent = 9
    PromptClient = FALSE
    ITERATIONS = 8
    Clients = 5
    Iterations = 3
    Capacity = 3
    MaxWrite = 5
CHECK_DEADLOCK FALSE
INVARIANTS
    ProgramsTypeOK
    EventsAreExact
    TasksInLockstep
    EveryClientIsServed
    StreamAliveIsTrue
PROPERTIES
    BenchmarksEnd
    ServerExampleEnds
    SubtaskEnds
    WritesReturn
