SPECIFICATION HeapSpec
CONSTANTS
    Align = 4
    OffsetSize = 2
    Raws = {1, 2, 3, 4}
    Sizes = {1, 4, 5}
INVARIANTS
    PayloadInBlock
