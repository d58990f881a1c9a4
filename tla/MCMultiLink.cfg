CONSTANTS
    Roles = {"slave", "master"}
    Slots <- MCSlots
    Links = {0, 1}
    None = 255
    Sync = 165
    PayloadMax = 2
    DataDefault = 1
    DataLens = {2}
    Frames <- MCFrames
    DoneWhenLost = TRUE
    WritesFail = FALSE
    Budgets <- MCBudgets
SPECIFICATION Spec
CHECK_DEADLOCK FALSE
INVARIANTS TypeOK Conserved InStep FrameWhole SentOnce
PROPERTIES Forwarded
