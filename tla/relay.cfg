SPECIFICATION QuietSpec
CONSTANTS
    c1 = c1
    c2 = c2
    temp1 = temp1
    time_service = time_service
    NoClient = NoClient
    NoPort = NoPort
    NoTag = NoTag
    NoEndpoint = NoEndpoint
    Absent = Absent
    NoApp = NoApp
    Clients <- MCClients
    MayCollide = FALSE
    MayFail = FALSE
    MayReuse = FALSE
    MaxCalls = 2
    HostTag <- MCHosts
    Tags <- MCTags
    TempTags <- MCTempTags
    Endpoints <- MCPorts
    Connectable <- MCPorts
    AppMessages <- MCNone
    MsgHandlers <- MCNone
    AppEvents <- MCEvents
    EvtHandlers <- MCEvents
    Advertised <- MCNone
    MaxEmit = 0
    MaxQueue = 8
    DelNodeMayCrash = TRUE
    TimeEndpoint <- MCTimeEndpoint
    Routes <- MCRoutes
    TIMEOUT = 2
    MaxServed = 2
INVARIANT RelayTypeOK
CHECK_DEADLOCK FALSE
INVARIANT OwnAnswersIfQuiet
INVARIANT GivesUpLastIfPatient
PROPERTY KillObeyed
