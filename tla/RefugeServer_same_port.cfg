SPECIFICATION Spec
CONSTANTS
    c1 = c1
    c2 = c2
    c3 = c3
    u1 = u1
    u2 = u2
    u3 = u3
    NoClient = NoClient
    Items <- OneItem
    Updates <- AddOne
    IntMax = 1
    Clients = {}
    Admins = {}
    UdpPeers = {u1, u2, u3}
    PortOf <- SamePort
    MaxClients = 3
    MaxFd = 8
    Sensors = {"NORTH"}
    TcpMessages = {}
    UdpMessages = {"status"}
    MaxRequests = 0
    MaxDatagrams = 2
    MaxAlerts = 1
    MaxFailures = 0
    MaxSigints = 0
CHECK_DEADLOCK FALSE
PROPERTY
    NotifiesEveryUdpPeer
