SPECIFICATION FairSpec
CONSTANTS
    DefSize = 6
    Growth = 3
    SizeMax = 13
    AskSizes = {0, 8}
    GivenSizes = {0, 1, 9}
    Methods = {0, 3}
    CmdLens = {1}
    FieldLens = {1, 2}
    ValueLens = {0, 4}
    RawLens = {0, 2}
    ProtocolLen = 2
    MayMove = TRUE
INVARIANTS
    TypeOK
    SpaceAccounted
    NoWriteOutside
    HeapAccounted
    AnswersTell
    GivenBufferSafe
    ShowsJoined
PROPERTIES
    ImplementsText
    AddAnswers
CHECK_DEADLOCK FALSE
