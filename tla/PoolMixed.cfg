SPECIFICATION FairSpec
CONSTANTS
    PoolSize = 45
    HeaderSize = 8
    MinAlloc = 8
    Spare = 8
    h1 = h1
    h2 = h2
    h3 = h3
    h4 = h4
    Handles = {h1, h2}
    Sizes = {8, 16, 24, 26, 34}
    GrowSizes = {0, 3, 4, 13, 20}
    StaleDeletes = TRUE
    NULL = NULL
    Data = Data
INVARIANTS
    TypeOK
    ChunksInPool
    ListUsable
    AnswerFits
    CopyStaysInBlock
    MaxAllocServed
PROPERTIES
    CallAnswers
CHECK_DEADLOCK FALSE
