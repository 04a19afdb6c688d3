SPECIFICATION CodecSpec
CONSTANTS
    ULLONG_MAX = 999
    HTTP_MAX_HEADER_SIZE = 999
    MaxCount = 1000
    Words = {}
    Sent <- AllSent
INVARIANTS
    RoundTrip
    NeverMisread
    ConnectionListed
CHECK_DEADLOCK FALSE
