SPECIFICATION Spec
CONSTANTS
    Kinds = {"update", "status"}
    Notices = {"auth"}
    MaxUnread = 2
    Addresses = {"server", "stranger"}
    MaxDatagrams = 1
CHECK_DEADLOCK FALSE
INVARIANTS
    TcpTypeOK
    OrphanReader
    DeafMenu
    RequestsGoToServer
PROPERTIES
    KeepsPromise
    ExitEndsBoth
    DisconnectObeyed
    HangUpNoticed
    UdpExitEndsBoth
