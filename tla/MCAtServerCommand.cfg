CONSTANTS
    RecvMax = 8
    DownLevel = 4
    Roles = {"master"}
    Slots <- MCSlots
    Links = {0, 1}
    None = 255
    MtuData = 3
    Lines <- MCLinesShort
    AutoTransStored = {TRUE}
    MaxLines = 4
    MaxConns = 2
SPECIFICATION Spec
CHECK_DEADLOCK FALSE
INVARIANTS CommandKept
