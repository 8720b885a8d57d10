CONSTANTS
    RelockSecs = 4
    SecTicks = 3
    SendTicks = 1
    InboxCap = 2
    MaxMsgs = 4
SPECIFICATION FairSpec
INVARIANTS
    TypeOK
    OpenIsCounted
    NeverLaterThanIgnored
PROPERTIES
    NeverEarly
    EventuallyRelocks
    KeepsPromise
CHECK_DEADLOCK FALSE
