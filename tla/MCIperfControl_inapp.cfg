CONSTANTS
    c1 = c1
    c2 = c2
    Clients = {c1, c2}
    MaxStreams = 1
    Configs <- OptsTimed
    InApp = {c1}
    StaleCookie = FALSE
    NoConn = NoConn
    NoClient = NoClient
SPECIFICATION FairSpec
PROPERTY ServerFreed
CHECK_DEADLOCK FALSE
