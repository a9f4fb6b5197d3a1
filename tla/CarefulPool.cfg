SPECIFICATION CarefulSpec
CONSTANTS
    PoolSize = 61
    HeaderSize = 8
    MinAlloc = 8
    Spare = 8
    h1 = h1
    h2 = h2
    h3 = h3
    Handles = {h1, h2}
    Sizes = {8, 13}
    GrowSizes = {0, 8, 11, 20}
    StaleDeletes = FALSE
    NULL = NULL
    Data = Data
INVARIANTS
    FreeListIsFreed
    NoDoubleHandOut
    Conservation
    RefusesOnlyWhenFull
    WalkOnList
PROPERTIES
    ImplementsQueue
