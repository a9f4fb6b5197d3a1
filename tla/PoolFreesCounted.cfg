SPECIFICATION Spec
CONSTANTS
    PoolSize = 60
    HeaderSize = 8
    MinAlloc = 8
    Spare = 8
    h1 = h1
    h2 = h2
    h3 = h3
    h4 = h4
    Handles = {h1, h2, h3}
    Sizes = {8, 16}
    GrowSizes = {}
    StaleDeletes = FALSE
    NULL = NULL
    Data = Data
INVARIANTS
    FreesCounted
CHECK_DEADLOCK FALSE
