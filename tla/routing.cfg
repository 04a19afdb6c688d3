SPECIFICATION Spec
CONSTANTS
    Numbers <- MCNumbers
    Schemes <- MCSchemes
    Curly <- MCCurly
    Symbols <- MCSymbols
    RouteTexts <- MCRoutes
    Requests <- MCRequests
    Callbacks <- MCCallbacks
    MaxRoutes = 2
INVARIANTS
    FirstFit
    PositionsInRange
    ValuesFromPath
    QueryDelivered
    QueryForwarded
    CallbackAddressed
CHECK_DEADLOCK FALSE
