CONSTANTS
    u1 = u1
    u2 = u2
    NAgents = 3
    NData = 1
    Uids = {u1, u2}
    Sids <- MCAgents
    Bodies <- MCBodies
    NoUid = NoUid
    NoSid = 0
    Conns = {1, 2}
    Agents <- MCAgents
    NoAgent = NoAgent
    linkTo <- MCLinkTo
    Request = Request
    MaxData <- MCMaxData
    DrainsOnClose = FALSE
    NoConn = NoConn
    BadLen = BadLen
    BadTxtLen = BadTxtLen
    MaxFaults = 0
    Faults = {}
    KeepsSids = TRUE
    WaitsForRouter = TRUE
SPECIFICATION Spec
CHECK_DEADLOCK FALSE
PROPERTIES TunnelIsService DataAddressed
