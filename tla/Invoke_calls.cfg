CONSTANTS
    TickMod = 1000
    Start = 50
    MaxTime = 9
    MaxSlips = 1
    Slots = 2
    MaxCalls = 3
    LastCall = 4
    Delays <- TwoDelays
    QueueCap = 2
    MaxWork = 2
    WorkTicks = 1
    InvokeTake = 1
    SendTicks = 1
    ServiceTake = 2
    Retry = 4
SPECIFICATION Spec
INVARIANTS
    TypeOK
    NoLostWakeup
    TableGuarded
    UndisturbedOnTime
PROPERTY KeepsIdentity
CHECK_DEADLOCK FALSE
