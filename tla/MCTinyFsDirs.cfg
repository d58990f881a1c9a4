CONSTANTS
    v1 = v1
    v2 = v2
    SectionNum = 3
    SectionSize = 12
    PageSize = 1
    HeadLen = 1
    AddLen = 2
    DirLen = 2
    RecordRemoveLen = 2
    DirRemoveLen = 1
    CrcLen = 1
    Names = {1}
    Values = {v1}
    DataLen <- MCDataLenOne
    DirIdMax = 2
    CountRange = 16
    CopyLen = 1
    NodeMax = 3
    BufferingNum = 1
    CountMax = 3
SPECIFICATION Spec
CHECK_DEADLOCK FALSE
INVARIANTS TreeSound
