CONSTANTS
    UiCap = 1
    SystemCap = 1
    DoorLockCap = 1
    MaxTouches = 3
    Retaps = 1
    MaxFaults = 2
    MaxSteps = 2
    EnrolWaits = 2
SPECIFICATION FairSpec
INVARIANTS
    TypeOK
    JobsPaid
PROPERTIES
    SignsInOnMatch
    KeepsJobs
    TicketSpent
CHECK_DEADLOCK FALSE
