CONSTANTS
    TickMod = 1000
    Start = 50
    MaxTime = 7
    MaxSlips = 0
    Slots = 2
    MaxCalls = 3
    LastCall = 3
    Delays <- TwoDelays
    QueueCap = 1
    MaxWork = 2
    WorkTicks = 1
    InvokeTake = 1
    SendTicks = 1
    ServiceTake = 2
    Retry = 4
SPECIFICATION FairSpec
PROPERTIES
    UndisturbedRuns
    TasksReturn
CHECK_DEADLOCK FALSE
