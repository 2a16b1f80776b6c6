CONSTANTS
    c1 = c1
    c2 = c2
    Clients = {c1, c2}
    MaxStreams = 2
    Configs <- OptsWide
    InApp = {c2}
    StaleCookie = FALSE
    NoConn = NoConn
    NoClient = NoClient
SPECIFICATION Spec
INVARIANTS TypeOK StreamAgreement SingleSession PhaseAgreement InSync ResultsComplete StreamsReleased
PROPERTY ImplementsService
CHECK_DEADLOCK FALSE
