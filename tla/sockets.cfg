SPECIFICATION Spec
CONSTANTS
    s1 = s1
    s2 = s2
    e1 = e1
    e2 = e2
    unresolved = unresolved
    NoSocket = NoSocket
    Anywhere = Anywhere
    Closed = Closed
    Sockets <- MCSocketSet
    Endpoints <- MCEndpoints
    Resolvable <- MCResolvable
    MaxMade = 5
SYMMETRY Symmetry
CHECK_DEADLOCK FALSE
INVARIANT FlagsTruthful
INVARIANT HeldOnce
INVARIANT OnlyAfterFailure
