CONSTANTS
    Pad <- MCPad
    Row <- MCRow
    Btns = {"UP", "ENTER"}
    Pause = 1
    Gap = 2
    RepeatDelay = 3
    FirstDelay = 5
    Quiet = 2
SPECIFICATION Spec
INVARIANTS
    TypeOK
    HeldIsTyped
    CalmButtons
PROPERTIES
    KeysPaced
    CalmPressSent
