SPECIFICATION DrawsSpec
CONSTANTS
    c1 = c1
    c2 = c2
    p1 = p1
    p2 = p2
    NoClient = NoClient
    NoPort = NoPort
    Clients <- MCClients
    Ports <- MCPorts
    MayCollide = TRUE
    MayFail = TRUE
    MayReuse = TRUE
    MaxCalls = 2
INVARIANT TypeOK
INVARIANT PortsHeldIfBound
INVARIANT OwnAnswerIfQuiet
PROPERTY CallsReturn
