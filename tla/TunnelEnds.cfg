CONSTANTS
    u1 = u1
    u2 = u2
    NAgents = 2
    NData = 0
    Uids = {u1, u2}
    Sids <- MCAgents
    Bodies <- MCBodies
    NoUid = NoUid
    NoSid = 0
    Conns = {1, 2}
    Agents <- MCAgents
    NoAgent = NoAgent
    linkTo <- MCLinkTo
    Request = Request
    MaxData <- MCMaxData
    DrainsOnClose = TRUE
    NoConn = NoConn
    BadLen = BadLen
    BadTxtLen = BadTxtLen
    MaxFaults = 1
    Faults = {"break", "router", "client"}
    KeepsSids = TRUE
    WaitsForRouter = TRUE
SPECIFICATION FairSpec
CHECK_DEADLOCK FALSE
PROPERTIES NoHalfOpen UserReachable
