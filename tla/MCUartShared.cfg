CONSTANTS
    TxSizes = {1}
    Uses <- MCUsesShared
    Prompt = TRUE
    FifoDepth = 2
    TriggerHigh = 2
    CountRange = 16
    RxDmaSizes = {1, 2}
    MaxTx = 1
    MaxCalls = 2
    Half = 3
    Turns = 4
    Stride = 2
    Timeouts = {2, 5, 9}
    EndSeen = TRUE
SPECIFICATION PolledSpec
CHECK_DEADLOCK FALSE
INVARIANTS RxServed
