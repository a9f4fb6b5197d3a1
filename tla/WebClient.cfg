SPECIFICATION WebSpec
CONSTANTS
    Descriptors = {3, 4}
    Hosts = {"NULL", "name"}
    MaxAddrs = 2
    DefSize = 6
    Growth = 3
    SizeMax = 10
    AskSizes = {0}
    GivenSizes = {9}
    Methods = {0}
    CmdLens = {1}
    FieldLens = {1}
    ValueLens = {0, 1}
    RawLens = {2}
    ProtocolLen = 2
    MayMove = TRUE
INVARIANTS
    NothingWithoutClient
CHECK_DEADLOCK FALSE
