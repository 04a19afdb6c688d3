SPECIFICATION SplitSpec
CONSTANTS
    ULLONG_MAX = 25
    HTTP_MAX_HEADER_SIZE = 1
    MaxCount = 1
    Words <- FramingWords
INVARIANTS
    TypeOK
    AssertionsHold
    LengthKnown
    FramedOnce
    CallbacksAlternate
    SplitInvisible
CHECK_DEADLOCK FALSE
