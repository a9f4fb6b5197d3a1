SPECIFICATION Spec
CONSTANTS
    a = a
    b = b
    Items = {a, b}
    Caps = {0, 1, 3}
    Indices <- SomeIndices
    MaxBound = 3
    Checks = TRUE
PROPERTIES
    MapVisitsAll
CHECK_DEADLOCK FALSE
