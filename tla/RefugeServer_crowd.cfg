SPECIFICATION Spec
CONSTANTS
    c1 = c1
    c2 = c2
    c3 = c3
    u1 = u1
    u2 = u2
    u3 = u3
    NoClient = NoClient
    Items <- OneItem
    Updates <- AddOne
    IntMax = 1
    Clients = {c1, c2, c3}
    Admins = {}
    UdpPeers = {}
    PortOf <- NoPorts
    MaxClients = 2
    MaxFd = 9
    Sensors = {"NORTH"}
    TcpMessages = {}
    UdpMessages = {}
    MaxRequests = 0
    MaxDatagrams = 0
    MaxAlerts = 1
    MaxFailures = 1
    MaxSigints = 0
CHECK_DEADLOCK FALSE
INVARIANT
    RecordsAgree
PROPERTIES
    ListingForLife
    ImplementsService
