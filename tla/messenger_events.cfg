SPECIFICATION FairSpec
CONSTANTS
    temp1 = temp1
    temp2 = temp2
    e1 = e1
    bad = bad
    m1 = m1
    m2 = m2
    NoTag = NoTag
    NoEndpoint = NoEndpoint
    Absent = Absent
    NoApp = NoApp
    Tags <- MCTags
    TempTags <- MCTempTags
    Endpoints <- MCEndpoints
    Connectable <- MCConnectable
    AppMessages <- MCAppMessages
    MsgHandlers <- MCMsgHandlers
    AppEvents <- MCAppEvents
    EvtHandlers <- MCEvtHandlers
    Advertised <- MCAdvertised
    MaxEmit = 1
    MaxQueue = 2
    DelNodeMayCrash = TRUE
INVARIANT TypeOK
INVARIANT TempNodeTracked
INVARIANT TimeoutTracksQueue
PROPERTY NeverRepointed
PROPERTY TerminateHonoured
PROPERTY TempNodeReclaimed
