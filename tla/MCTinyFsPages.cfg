CONSTANTS
    v1 = v1
    v2 = v2
    SectionNum = 3
    SectionSize = 12
    PageSize = 4
    HeadLen = 1
    AddLen = 2
    DirLen = 2
    RecordRemoveLen = 2
    DirRemoveLen = 1
    CrcLen = 1
    Names = {1, 2}
    Values = {v1}
    DataLen <- MCDataLenOne
    DirIdMax = 0
    CountRange = 16
    CopyLen = 1
    NodeMax = 2
    BufferingNum = 1
    CountMax = 4
SPECIFICATION Spec
CHECK_DEADLOCK FALSE
INVARIANTS TypeOK CacheAligned FreeExact RoomLeft ErasedAhead LiveReadable ListsExact WipeAsserted
PROPERTIES CallsReturn
