CONSTANTS
    v1 = v1
    v2 = v2
    n1 = n1
    n2 = n2
    SectionNum = 3
    SectionSize = 12
    PageSize = 6
    HeadLen = 3
    AddLen = 2
    DirLen = 2
    RecordRemoveLen = 2
    DirRemoveLen = 1
    CrcLen = 1
    Names = {n1}
    Values = {v1, v2}
    DataLen <- MCDataLenTwo
    DirIdMax = 1
    CountRange = 16
    CopyLen = 2
    NodeMax = 2
    BufferingNum = 1
    CountMax = 3
SYMMETRY ValueSymmetry
SPECIFICATION RSpec
CONSTRAINT NotTorn
INVARIANTS Recovered
PROPERTIES StoreSpec
