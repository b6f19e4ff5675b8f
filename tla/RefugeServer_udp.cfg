SPECIFICATION Spec
CONSTANTS
    c1 = c1
    c2 = c2
    c3 = c3
    u1 = u1
    u2 = u2
    u3 = u3
    NoClient = NoClient
    Items <- OneItem
    Updates <- AddOne
    IntMax = 1
    Clients = {}
    Admins = {c1, u1}
    UdpPeers = {u1, u2, u3}
    PortOf <- SamePort
    MaxClients = 2
    MaxFd = 8
    Sensors = {"NORTH", "EAST", "WEST"}
    TcpMessages = {}
    UdpMessages = {"update", "status", "torn"}
    MaxRequests = 2
    MaxDatagrams = 2
    MaxAlerts = 3
    MaxFailures = 0
    MaxSigints = 0
CHECK_DEADLOCK FALSE
INVARIANT
    UdpCacheDistinct
    NoPhantomAlerts
