CONSTANTS
    c1 = c1
    c2 = c2
    Clients = {c1, c2}
    Total = 2
    Settings <- MixedSettings
    DefaultBuf = 3000
    MaxBuf = 2400
    MaxQueued = 2
    NoClient = NoClient
SPECIFICATION FairSpec
INVARIANTS TypeOK UdpPairing BufferHolds
PROPERTY SetupEnds
CHECK_DEADLOCK FALSE
