CONSTANTS
    c1 = c1
    c2 = c2
    Clients = {c1, c2}
    MaxStreams = 1
    Configs <- OptsReverseBytes
    InApp = {}
    StaleCookie = FALSE
    NoConn = NoConn
    NoClient = NoClient
SPECIFICATION FairSpec
PROPERTY ClientFinishes
CHECK_DEADLOCK FALSE
