CONSTANTS
    UiCap = 2
    SystemCap = 1
    DoorLockCap = 1
    StackMax = 24
    Chars <- OneChar
    MaxInput = 2
    Default <- Zero
    Slots = 1
    MaxTouches = 0
    Retaps = 1
    RelockSecs = 2
    Presses <- SetPassword
    MaxBoots = 1
SPECIFICATION Spec
INVARIANT ChangesVerified
CHECK_DEADLOCK FALSE
