CONSTANTS
    RelockSecs = 4
    SecTicks = 3
    SendTicks = 1
    InboxCap = 2
    MaxMsgs = 4
SPECIFICATION FairSpec
PROPERTY FingerprintOpens
CHECK_DEADLOCK FALSE
