SPECIFICATION ToolsSpec
CONSTANTS
    Items = {"a", "b"}
    Caps = {0, 1, 3}
    Indices <- SomeIndices
    MaxBound = 3
    Checks = TRUE
    MaxWord = 1023
    Header = 24
    ItemSizes = {0, 1, 4, 8}
    Counts = {0, 1, 3, 124, 125, 249, 250, 600, 999, 1000, 1023}
    Positions <- SomePositions
    Numbers <- SomeNumbers
    MaxFormat = 4
    Align = 4
    OffsetSize = 2
    Raws = {1, 2, 3, 4, 5, 6, 7, 8, 9, 10, 11, 12, 13, 14, 15, 16, 17, 18, 19, 20}
    Sizes = {1, 4, 5}
INVARIANTS
    TypeOK
    CellsInBlock
    IndexMeansCell
    TextIsRight
    OneReading
    LengthAndBase
    FreeFindsRaw
    PayloadsApart
PROPERTIES
    ImplementsStack
    ConversionEnds
CHECK_DEADLOCK FALSE
