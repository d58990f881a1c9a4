CONSTANTS
    BufferSize = 3
    MaxData = 3
    DefaultData = 1
    DataLens = {2}
    WriteLens = {1, 2}
    DoneWhenLost = TRUE
    MaxRx = 5
    MaxLinks = 2
SPECIFICATION Spec
CHECK_DEADLOCK FALSE
INVARIANTS TypeOK InOrder NtfFits BusyMeansBusy
PROPERTIES Drained WritesAccepted
