CONSTANTS
    TxSizes = {1, 2, 4}
    Uses <- MCUses
    Prompt = TRUE
    FifoDepth = 2
    TriggerHigh = 2
    CountRange = 16
    RxDmaSizes = {1, 2}
    MaxTx = 3
    MaxCalls = 2
    Half = 3
    Turns = 4
    Stride = 2
    Timeouts = {2, 5, 9}
    EndSeen = TRUE
SPECIFICATION PolledSpec
CHECK_DEADLOCK FALSE
INVARIANTS TypeOK RxServed EndedWhenSent DmaServed NotEarly WaitBounded
PROPERTIES LineSpec TransmitEnds
