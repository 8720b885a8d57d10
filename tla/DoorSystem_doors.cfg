CONSTANTS
    UiCap = 1
    SystemCap = 1
    DoorLockCap = 1
    StackMax = 24
    Chars <- OneChar
    MaxInput = 2
    Default <- Zero
    Slots = 1
    MaxTouches = 1
    Retaps = 1
    RelockSecs = 2
    Presses <- AtTheDoor
    MaxBoots = 1
SPECIFICATION FairSpec
INVARIANTS
    TypeOK
    GrantsAccounted
PROPERTY ComesToRest
CHECK_DEADLOCK FALSE
