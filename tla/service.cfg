SPECIFICATION SysSpec
CONSTANTS
    c1 = c1
    c2 = c2
    p1 = p1
    p2 = p2
    temp1 = temp1
    NoClient = NoClient
    NoPort = NoPort
    NoTag = NoTag
    NoEndpoint = NoEndpoint
    Absent = Absent
    NoApp = NoApp
    Clients <- MCClients
    MayCollide = FALSE
    MayFail = FALSE
    MayReuse = FALSE
    MaxCalls = 2
    HostTag <- MCOneHost
    Tags <- MCOneTag
    TempTags <- MCOneTag
    Endpoints <- MCPorts
    Connectable <- MCPorts
    AppMessages <- MCNone
    MsgHandlers <- MCNone
    AppEvents <- MCNone
    EvtHandlers <- MCNone
    Advertised <- MCNone
    MaxEmit = 0
    MaxQueue = 3
    DelNodeMayCrash = TRUE
SYMMETRY Symmetry
PROPERTY Implements
INVARIANT CallersAnswered
INVARIANT ClientReplyRouted
INVARIANT NoBacklog
