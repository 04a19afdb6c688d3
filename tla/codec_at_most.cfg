SPECIFICATION CodecSpec
CONSTANTS
    ULLONG_MAX = 999
    HTTP_MAX_HEADER_SIZE = 999
    MaxCount = 1000
    Words = {}
    Sent <- FewSent
INVARIANTS
    AtMostAccepted
CHECK_DEADLOCK FALSE
