CONSTANTS
    UiCap = 2
    SystemCap = 1
    DoorLockCap = 1
    StackMax = 3
    Chars <- OneChar
    MaxInput = 2
    Default <- Zero
    Slots = 1
    MaxTouches = 2
    Retaps = 1
    RelockSecs = 2
    Presses <- InTheMenu
    MaxBoots = 1
SPECIFICATION Spec
INVARIANT StackSound
CHECK_DEADLOCK FALSE
