---------------------------- MODULE RefugeServer ----------------------------
(***************************************************************************)
(* The server process of src/server/server.c: one thread that sleeps in    *)
(* select() and then visits every ready descriptor in ascending order, with *)
(* the handlers it runs for the five kinds of descriptor.  Around it are   *)
(* the processes it talks to: TCP clients (src/clients/tcp_client.c), UDP  *)
(* peers, the sensor process that writes alerts to the FIFO, the process   *)
(* that reports power failures on the unix socket, and SIGINT.             *)
(*                                                                         *)
(* A handler is one action, except for the unix one: it blocks in recv()   *)
(* between its accept and its broadcast, where others may act.             *)
(***************************************************************************)
EXTENDS Supplies, ClientLists, FiniteSets

CONSTANTS
    Clients,       \* runs of the TCP client program, one connection each
    UdpPeers,      \* UDP endpoints
    Admins,        \* those of both that send ADMIN_USER as their hostname
    NoClient,      \* the owner of a descriptor that is not open
    MaxFd,         \* the last descriptor the process may open (RLIMIT_NOFILE)
    TcpMessages,   \* what a TCP client may ask for once it has sent its greeting
    UdpMessages,   \* what a UDP peer may send
    Updates,       \* the contents of update requests: amounts for some Items
    \* bounds of the exploration
    Sensors,       \* the entries whose sensors may raise alerts
    MaxRequests,   \* requests a client sends, its greeting included
    MaxDatagrams,  \* datagrams waiting in the UDP socket
    MaxAlerts,     \* alerts the sensors raise
    MaxFailures,   \* power failures reported
    MaxSigints     \* SIGINTs delivered

\* start_server opens these four first, and each socket() takes the lowest
\* free number.
TcpFd  == 3
UdpFd  == 4
UnixFd == 5
FifoFd == 6
ListenFds == {TcpFd, UdpFd, UnixFd, FifoFd}
ClientFds == 7 .. MaxFd

Entries   == {"NORTH", "SOUTH", "EAST", "WEST"}
Notices   == {"auth_success", "auth_failure", "alert", "disconnect"}
Links     == {"none", "open", "fin", "provoked", "rst", "reset", "cut"}
NoUpdate  == [i \in {} |-> 0]
TcpKinds  == {"authenticateme", "status", "update", "summary", "other", "torn"}
UdpKinds  == {"update", "status", "summary", "other", "incomplete", "torn"}
Requests  == [msg : TcpKinds, update : Updates \cup {NoUpdate}]
Datagrams == [from : UdpPeers, msg : UdpKinds, update : Updates \cup {NoUpdate}]

ASSUME ServerAssumption ==
    /\ NoClient \notin Clients
    /\ Sensors \subseteq Entries
    /\ MaxFd \in Nat /\ MaxFd >= 7
    /\ TcpMessages \subseteq TcpKinds \ {"authenticateme"}
    /\ UdpMessages \subseteq UdpKinds
    /\ \A u \in Updates : \A i \in DOMAIN u : i \in Items /\ u[i] \in Int

VARIABLES
    \* the loop of start_server
    pc,            \* where the server's thread is
    running,       \* SERVER_RUNNING
    master_fds,    \* the client descriptors in master_fds
    max_fd,        \* the highest descriptor ever watched
    read_fds,      \* what the last select() returned
    fd,            \* the loop variable: descriptors below it have had their turn
    \* what the handlers keep
    tcp_clients,   \* TCPClientList
    udp_clients,   \* UDPClientList
    supplies,      \* the stock in shared memory
    emergency_info,       \* which kind of event last_event tells of
    entry_alerts_count,   \* EntryAlertsCount
    \* the kernel
    fd_owner,      \* whose connection an open client descriptor is
    backlog,       \* connections that wait in the TCP listen queue
    link,          \* how each client's connection stands
    inbox,         \* requests that have arrived on it, unread
    udp_queue,     \* datagrams that have arrived
    unix_conn,     \* the connection of the power failure process
    fifo,          \* alerts written to the FIFO, unread
    \* the environment, and history
    said,          \* requests a client has sent, its greeting included
    sent,          \* notices the server has sent on a client's connection
    served,        \* UDP peers that have had a request read
    raised,        \* alerts the sensors have raised, by entry
    failures,      \* power failures reported
    sigints        \* SIGINTs delivered

loopVars   == <<pc, running, max_fd, read_fds, fd>>
watchVars  == <<master_fds, tcp_clients, fd_owner, backlog>>
connVars   == <<link, inbox, said, sent>>
udpVars    == <<udp_clients, udp_queue, served>>
dataVars   == <<supplies, emergency_info>>
alertVars  == <<entry_alerts_count, fifo, raised>>
powerVars  == <<unix_conn, failures>>
vars == <<loopVars, watchVars, connVars, udpVars, dataVars, alertVars,
          powerVars, sigints>>

Down == pc \in {"stopped", "failed", "killed"}

\* max_fd before the loop: the largest of the four descriptors.
InitialMaxFdOfPorts == UdpFd    \* mutant: the FIFO and the unix socket forgotten
InitialMaxFd == FifoFd

Init ==
    /\ pc = "test" /\ running = TRUE
    /\ master_fds = {} /\ max_fd = InitialMaxFd /\ read_fds = {} /\ fd = TcpFd
    /\ tcp_clients = <<>> /\ udp_clients = <<>>
    /\ supplies = EmptyStock /\ emergency_info = "none"
    /\ entry_alerts_count = [e \in Entries |-> 0]
    /\ fd_owner = [f \in ClientFds |-> NoClient]
    /\ backlog = <<>>
    /\ link = [c \in Clients |-> "none"]
    /\ inbox = [c \in Clients |-> <<>>]
    /\ udp_queue = <<>> /\ unix_conn = "none" /\ fifo = <<>>
    /\ said = [c \in Clients |-> 0]
    /\ sent = [c \in Clients |-> {}]
    /\ served = {}
    /\ raised = [e \in Entries |-> 0]
    /\ failures = 0 /\ sigints = 0

-----------------------------------------------------------------------------
(***************************************************************************)
(* The environment.  link[c] follows one connection from the server's side:*)
(*   open      both ends are up                                            *)
(*   fin       the client has closed; recv() will return 0 at the end      *)
(*   provoked  ... and the server has written to it since, so that the     *)
(*             client's kernel is answering with a reset                   *)
(*   rst       the client closed with unread data: reset, error not yet    *)
(*             reported to a send()                                        *)
(*   reset     reset: the next send() raises SIGPIPE                       *)
(*   cut       the server has closed, the client process is still there    *)
(***************************************************************************)

\* establish_connection: the kernel completes the handshake on its own.
Connect(c) ==
    /\ ~Down /\ link[c] = "none"
    /\ link' = [link EXCEPT ![c] = "open"]
    /\ backlog' = Append(backlog, c)
    /\ UNCHANGED <<master_fds, tcp_clients, fd_owner, inbox, said, sent,
                   loopVars, udpVars, dataVars, alertVars, powerVars, sigints>>

\* authenticate() comes first on the stream, then what the menu offers; the
\* program sends updates whatever the server answered (`authenticated` is set
\* before any answer arrives).
Ask(c) ==
    /\ ~Down /\ link[c] = "open"
    /\ said[c] < MaxRequests
    /\ \E m \in IF said[c] = 0 THEN {"authenticateme"} ELSE TcpMessages :
       \E u \in IF m = "update" THEN Updates ELSE {NoUpdate} :
          inbox' = [inbox EXCEPT ![c] = Append(@, [msg |-> m, update |-> u])]
    /\ said' = [said EXCEPT ![c] = @ + 1]
    /\ UNCHANGED <<link, sent, loopVars, watchVars, udpVars, dataVars,
                   alertVars, powerVars, sigints>>

\* The client exits (menu, Ctrl+C, or its reader saw a disconnect).  Data it
\* has not read makes its kernel send a reset instead of a FIN.
Leave(c) ==
    /\ ~Down
    /\ \/ /\ link[c] = "open"
          /\ \E l \in IF sent[c] = {} THEN {"fin"} ELSE {"fin", "rst"} :
                link' = [link EXCEPT ![c] = l]
          /\ sent' = sent
       \/ /\ link[c] = "cut"
          /\ link' = [link EXCEPT ![c] = "none"]
          /\ sent' = [sent EXCEPT ![c] = {}]
    /\ said' = [said EXCEPT ![c] = 0]
    /\ UNCHANGED <<inbox, loopVars, watchVars, udpVars, dataVars, alertVars,
                   powerVars, sigints>>

ResetArrives(c) ==
    /\ ~Down /\ link[c] = "provoked"
    /\ link' = [link EXCEPT ![c] = "reset"]
    /\ UNCHANGED <<inbox, said, sent, loopVars, watchVars, udpVars, dataVars,
                   alertVars, powerVars, sigints>>

UdpSend(p) ==
    /\ ~Down /\ Len(udp_queue) < MaxDatagrams
    /\ \E m \in UdpMessages :
       \E u \in IF m = "update" THEN Updates ELSE {NoUpdate} :
          udp_queue' = Append(udp_queue, [from |-> p, msg |-> m, update |-> u])
    /\ UNCHANGED <<udp_clients, served, loopVars, watchVars, connVars, dataVars,
                   alertVars, powerVars, sigints>>

AlertsRaised == raised["NORTH"] + raised["SOUTH"] + raised["EAST"] + raised["WEST"]

\* send_alert in the sensor process.
RaiseAlert(e) ==
    /\ ~Down /\ AlertsRaised < MaxAlerts
    /\ fifo' = Append(fifo, e)
    /\ raised' = [raised EXCEPT ![e] = @ + 1]
    /\ UNCHANGED <<entry_alerts_count, loopVars, watchVars, connVars, udpVars,
                   dataVars, powerVars, sigints>>

\* init_emergency_notification connects ...
PowerConnect ==
    /\ ~Down /\ unix_conn = "none" /\ failures < MaxFailures
    /\ unix_conn' = "connected"
    /\ failures' = failures + 1
    /\ UNCHANGED <<loopVars, watchVars, connVars, udpVars, dataVars, alertVars,
                   sigints>>

\* ... and simulate_electricity_failure sends, unless the process dies first.
PowerSend ==
    /\ ~Down /\ unix_conn = "connected"
    /\ unix_conn' \in {"sent", "eof"}
    /\ UNCHANGED <<failures, loopVars, watchVars, connVars, udpVars, dataVars,
                   alertVars, sigints>>

-----------------------------------------------------------------------------
(***************************************************************************)
(* The loop.                                                               *)
(***************************************************************************)

\* recv() would not block: data, an end of file, or an error is there.
Readable(c) == inbox[c] # <<>> \/ link[c] \in {"fin", "provoked", "rst", "reset"}

\* What select() reports now for the descriptors of master_fds.
ReadyFds ==
    {f \in ListenFds \cup master_fds :
        /\ f <= max_fd
        /\ \/ f = TcpFd /\ backlog # <<>>
           \/ f = UdpFd /\ udp_queue # <<>>
           \/ f = UnixFd /\ unix_conn # "none"
           \/ f = FifoFd /\ fifo # <<>>
           \/ f \in master_fds /\ Readable(fd_owner[f])}

\* The bits FD_ISSET finds in the scan that follows.
FdIssetMaster == ListenFds \cup master_fds   \* mutant: FD_ISSET(fd, &master_fds)
FdIsset == ReadyFds

\* while (SERVER_RUNNING)
TestRunning ==
    /\ pc = "test"
    /\ pc' = IF running THEN "enter" ELSE "stopped"
    /\ UNCHANGED <<running, max_fd, read_fds, fd, watchVars, connVars, udpVars,
                   dataVars, alertVars, powerVars, sigints>>

\* read_fds = master_fds, and into the system call.
CallSelect ==
    /\ pc = "enter"
    /\ pc' = "select"
    /\ UNCHANGED <<running, max_fd, read_fds, fd, watchVars, connVars, udpVars,
                   dataVars, alertVars, powerVars, sigints>>

SelectReturns ==
    /\ pc = "select"
    /\ ReadyFds # {}
    /\ pc' = "scan" /\ read_fds' = FdIsset /\ fd' = TcpFd
    /\ UNCHANGED <<running, max_fd, watchVars, connVars, udpVars, dataVars,
                   alertVars, powerVars, sigints>>

\* What is left of for (fd = tcp_socket_fd; fd <= max_fd; fd++).
AheadButLast(f) == fd <= f /\ f < max_fd   \* mutant: fd < max_fd
Ahead(f) == fd <= f /\ f <= max_fd

\* The descriptor whose turn it is.
Due(f) ==
    /\ pc = "scan"
    /\ f \in read_fds /\ Ahead(f)
    /\ \A g \in read_fds : Ahead(g) => f <= g

\* The handler of f returns to the loop.
Visited(f) == pc' = "scan" /\ fd' = f + 1 /\ UNCHANGED <<running, read_fds>>

EndPass ==
    /\ pc = "scan"
    /\ \A f \in read_fds : ~Ahead(f)
    /\ pc' = "test" /\ read_fds' = {} /\ fd' = TcpFd
    /\ UNCHANGED <<running, max_fd, watchVars, connVars, udpVars, dataVars,
                   alertVars, powerVars, sigints>>

\* sigint_handler.  select() and a blocked recv() return EINTR, because the
\* handler is installed without SA_RESTART; select() looks at the descriptors
\* first.  start_server answers EINTR from select() with exit(EXIT_FAILURE),
\* and handle_unix_socket_activity one from recv() by closing the connection.
SelectInterrupted == pc = "select" /\ ReadyFds = {}
RecvInterrupted == pc = "recv_unix" /\ unix_conn = "connected"
Sigint ==
    /\ ~Down /\ sigints < MaxSigints
    /\ sigints' = sigints + 1
    /\ running' = FALSE
    /\ \/ /\ SelectInterrupted
          /\ pc' = "failed" /\ UNCHANGED <<fd, unix_conn>>
       \/ /\ RecvInterrupted
          /\ pc' = "scan" /\ fd' = UnixFd + 1 /\ unix_conn' = "none"
       \/ /\ ~SelectInterrupted /\ ~RecvInterrupted
          /\ UNCHANGED <<pc, fd, unix_conn>>
    /\ UNCHANGED <<failures, max_fd, read_fds, watchVars, connVars, udpVars,
                   dataVars, alertVars>>

-----------------------------------------------------------------------------
(***************************************************************************)
(* TCP clients.                                                            *)
(***************************************************************************)
FreeFds == {f \in ClientFds : fd_owner[f] = NoClient}
LowestFree(f) == f \in FreeFds /\ \A g \in FreeFds : f <= g

\* accept_tcp_connection, and FD_SET of what it returns: also of a descriptor
\* that add_tcp_client has refused.
AcceptTcp ==
    /\ Due(TcpFd)
    /\ \E f \in ClientFds :
        /\ LowestFree(f)
        /\ fd_owner' = [fd_owner EXCEPT ![f] = Head(backlog)]
        /\ tcp_clients' = AddTcpClient(f, tcp_clients)
        /\ master_fds' = master_fds \cup {f}
        /\ max_fd' = IF f > max_fd THEN f ELSE max_fd
    /\ backlog' = Tail(backlog)
    /\ Visited(TcpFd)
    /\ UNCHANGED <<connVars, udpVars, dataVars, alertVars, powerVars, sigints>>

\* accept() or open() fails with EMFILE; what was ready stays ready.
NoDescriptor(f) ==
    /\ f \in {TcpFd, UnixFd, FifoFd} /\ Due(f)
    /\ FreeFds = {}
    /\ Visited(f)
    /\ UNCHANGED <<max_fd, watchVars, connVars, udpVars, dataVars, alertVars,
                   powerVars, sigints>>

\* A send() as the connection sees it.
AfterSend(l) ==
    CASE l = "fin" -> "provoked" [] l = "rst" -> "reset" [] OTHER -> l

\* Mutant: the close() is missing.
ForgetConnection(f, c) ==
    /\ fd_owner' = fd_owner
    /\ master_fds' = master_fds \ {f}
    /\ tcp_clients' = RemoveTcpClient(f, tcp_clients)
    /\ inbox' = [inbox EXCEPT ![c] = <<>>]
    /\ link' = [link EXCEPT ![c] = IF @ = "open" THEN "cut" ELSE "none"]

\* close, FD_CLR, remove_tcp_client; the kernel drops what is unread.
CloseConnection(f, c) ==
    /\ fd_owner' = [fd_owner EXCEPT ![f] = NoClient]
    /\ master_fds' = master_fds \ {f}
    /\ tcp_clients' = RemoveTcpClient(f, tcp_clients)
    /\ inbox' = [inbox EXCEPT ![c] = <<>>]
    /\ link' = [link EXCEPT ![c] = IF @ = "open" THEN "cut" ELSE "none"]

\* handle_tcp_socket_activity when there is nothing to answer: getpeername
\* fails on a reset connection, recv() returns 0 behind the last request, or
\* cJSON_Parse refuses what recv() returned.
ConnectionOver(f, c) ==
    \/ link[c] \in {"rst", "reset"}
    \/ inbox[c] = <<>>
    \/ inbox[c] # <<>> /\ Head(inbox[c]).msg = "torn"

HangUp(f) ==
    LET c == fd_owner[f] IN
    /\ Due(f)
    /\ ConnectionOver(f, c)
    /\ CloseConnection(f, c)
    /\ sent' = [sent EXCEPT ![c] = IF link[c] = "open" THEN @ ELSE {}]
    /\ Visited(f)
    /\ UNCHANGED <<max_fd, backlog, said, udpVars, dataVars, alertVars,
                   powerVars, sigints>>

\* check_tcp_clients_messages: one recv() takes all that has arrived, and
\* cJSON_Parse reads the first object and ignores the text behind it.
Receive(f, c, kinds) ==
    /\ Due(f)
    /\ ~ConnectionOver(f, c)
    /\ Head(inbox[c]).msg \in kinds

Authenticate(f) ==
    LET c == fd_owner[f] IN
    /\ Receive(f, c, {"authenticateme"})
    /\ c \in Admins
    /\ inbox' = [inbox EXCEPT ![c] = <<>>]
    /\ link' = [link EXCEPT ![c] = AfterSend(@)]
    /\ sent' = [sent EXCEPT ![c] = @ \cup {"auth_success"}]
    /\ Visited(f)
    /\ UNCHANGED <<max_fd, said, watchVars, udpVars, dataVars, alertVars,
                   powerVars, sigints>>

\* Mutant: the refusal returns 1, as the other answers do.
RefuseOnly(f) ==
    LET c == fd_owner[f] IN
    /\ Receive(f, c, {"authenticateme"})
    /\ c \notin Admins
    /\ inbox' = [inbox EXCEPT ![c] = <<>>]
    /\ link' = [link EXCEPT ![c] = AfterSend(@)]
    /\ sent' = [sent EXCEPT ![c] = @ \cup {"auth_failure"}]
    /\ Visited(f)
    /\ UNCHANGED <<max_fd, said, watchVars, udpVars, dataVars, alertVars,
                   powerVars, sigints>>

\* The answer to any other hostname, whose return value closes the connection.
Refuse(f) ==
    LET c == fd_owner[f] IN
    /\ Receive(f, c, {"authenticateme"})
    /\ c \notin Admins
    /\ CloseConnection(f, c)
    /\ sent' = [sent EXCEPT ![c] = IF link[c] = "open"
                                   THEN @ \cup {"auth_failure"} ELSE {}]
    /\ Visited(f)
    /\ UNCHANGED <<max_fd, backlog, said, udpVars, dataVars, alertVars,
                   powerVars, sigints>>

\* "status" and "summary" are answered; only the first is remembered as the
\* last event.  "other" stands for every message the server does not know.
Answer(f) ==
    LET c == fd_owner[f]
        m == Head(inbox[c]).msg IN
    /\ Receive(f, c, {"status", "summary", "other"})
    /\ emergency_info' = IF m = "status" THEN "status" ELSE emergency_info
    /\ link' = [link EXCEPT ![c] = IF m = "other" THEN @ ELSE AfterSend(@)]
    /\ inbox' = [inbox EXCEPT ![c] = <<>>]
    /\ Visited(f)
    /\ UNCHANGED <<max_fd, said, sent, supplies, watchVars, udpVars, alertVars,
                   powerVars, sigints>>

\* "update" changes the stock and is not answered.
UpdateByTcp(f) ==
    LET c == fd_owner[f] IN
    /\ Receive(f, c, {"update"})
    /\ supplies' = UpdateSupplies(supplies, Head(inbox[c]).update)
    /\ emergency_info' = "update"
    /\ inbox' = [inbox EXCEPT ![c] = <<>>]
    /\ Visited(f)
    /\ UNCHANGED <<max_fd, link, said, sent, watchVars, udpVars, alertVars,
                   powerVars, sigints>>

HandleTcp(f) ==
    HangUp(f) \/ Authenticate(f) \/ Refuse(f) \/ Answer(f) \/ UpdateByTcp(f)

-----------------------------------------------------------------------------
(***************************************************************************)
(* UDP, alerts and power failures.                                         *)
(***************************************************************************)

\* An update by UDP counts if its own hostname field is the administrator's.
GrantUpdate(d) == d.msg = "update" /\ d.from \in Admins

\* check_udp_clients_messages: the sender is cached before its request is
\* looked at, and every datagram brings its own hostname.
HandleUdp ==
    LET d == Head(udp_queue) IN
    /\ Due(UdpFd)
    /\ udp_queue' = Tail(udp_queue)
    /\ udp_clients' = IF d.msg = "torn" THEN udp_clients
                      ELSE AddUdpClient(d.from, udp_clients)
    /\ served' = served \cup {p \in {d.from} : d.msg # "torn"}
    /\ supplies' = IF GrantUpdate(d) THEN UpdateSupplies(supplies, d.update) ELSE supplies
    /\ Visited(UdpFd)
    /\ UNCHANGED <<max_fd, emergency_info, watchVars, connVars, alertVars,
                   powerVars, sigints>>

\* send_to_all_tcp_clients.  A write to a reset connection kills the process:
\* nothing handles SIGPIPE and no send() has MSG_NOSIGNAL.
ListenersButLast ==                     \* mutant: i < num_clients - 1
    {fd_owner[tcp_clients[i]] : i \in 1 .. Len(tcp_clients) - 1}
Listeners == {fd_owner[f] : f \in Listed(tcp_clients)}
SendKills == \E c \in Listeners : link[c] = "reset"
SendToAllTcp(notice) ==
    /\ ~SendKills
    /\ link' = [c \in Clients |-> IF c \in Listeners THEN AfterSend(link[c])
                                                     ELSE link[c]]
    /\ sent' = [c \in Clients |-> IF c \in Listeners THEN sent[c] \cup {notice}
                                                     ELSE sent[c]]
    /\ UNCHANGED <<inbox, said>>

\* Mutant: two of the names confused.
DetectEntryConfused(alerts) ==
    CASE "NORTH" \in Listed(alerts) -> "NORTH"
      [] "NORTH" \notin Listed(alerts) /\ "SOUTH" \in Listed(alerts) -> "SOUTH"
      [] Listed(alerts) \subseteq {"EAST", "WEST"} /\ "EAST" \in Listed(alerts) -> "WEST"
      [] OTHER -> "EAST"

\* detect_entry: the first of the four names that occurs in the text read.
DetectEntry(alerts) ==
    CASE "NORTH" \in Listed(alerts) -> "NORTH"
      [] "NORTH" \notin Listed(alerts) /\ "SOUTH" \in Listed(alerts) -> "SOUTH"
      [] Listed(alerts) \subseteq {"EAST", "WEST"} /\ "EAST" \in Listed(alerts) -> "EAST"
      [] OTHER -> "WEST"

\* check_alerts: one read() takes every alert that is queued (its buffer holds
\* some forty of them), one message goes to everyone on the two lists, one
\* entry is counted.
CheckAlerts ==
    /\ Due(FifoFd)
    /\ FreeFds # {}
    /\ fifo' = <<>>
    /\ emergency_info' = "alert"
    /\ SendToAllTcp("alert")
    /\ entry_alerts_count' = [entry_alerts_count EXCEPT ![DetectEntry(fifo)] = @ + 1]
    /\ Visited(FifoFd)
    /\ UNCHANGED <<max_fd, raised, supplies, watchVars, udpVars, powerVars, sigints>>

\* handle_unix_socket_activity, up to its recv() ...
AcceptUnix ==
    /\ Due(UnixFd)
    /\ FreeFds # {}
    /\ pc' = "recv_unix"
    /\ UNCHANGED <<running, max_fd, read_fds, fd, watchVars, connVars, udpVars,
                   dataVars, alertVars, powerVars, sigints>>

\* ... and behind it.
ReceiveUnix ==
    /\ pc = "recv_unix"
    /\ unix_conn \in {"sent", "eof"}
    /\ IF unix_conn = "sent" THEN SendToAllTcp("disconnect") ELSE UNCHANGED connVars
    /\ unix_conn' = "none"
    /\ Visited(UnixFd)
    /\ UNCHANGED <<failures, max_fd, watchVars, udpVars, dataVars, alertVars, sigints>>

\* The broadcast of either kind that meets a reset connection.
KilledBySend ==
    /\ SendKills
    /\ \/ Due(FifoFd) /\ FreeFds # {}
       \/ pc = "recv_unix" /\ unix_conn = "sent"
    /\ pc' = "killed"
    /\ UNCHANGED <<running, max_fd, read_fds, fd, watchVars, connVars, udpVars,
                   dataVars, alertVars, powerVars, sigints>>

-----------------------------------------------------------------------------
ServerStep ==
    \/ TestRunning \/ CallSelect \/ SelectReturns \/ EndPass
    \/ AcceptTcp \/ HandleUdp \/ AcceptUnix \/ ReceiveUnix \/ CheckAlerts
    \/ KilledBySend
    \/ \E f \in ListenFds : NoDescriptor(f)
    \/ \E f \in ClientFds : HandleTcp(f)

Environment ==
    \/ \E c \in Clients : Connect(c) \/ Ask(c) \/ Leave(c) \/ ResetArrives(c)
    \/ \E p \in UdpPeers : UdpSend(p)
    \/ \E e \in Sensors : RaiseAlert(e)
    \/ PowerConnect \/ PowerSend
    \/ Sigint

\* The behaviours of interest end with the server process.
Next == ServerStep \/ Environment

Spec == Init /\ [][Next]_vars

\* The server is a thread the kernel schedules, and the process that has
\* connected to the unix socket sends next.  Nothing else need ever happen.
FairSpec == Spec /\ WF_vars(ServerStep) /\ WF_vars(PowerSend)

-----------------------------------------------------------------------------
(***************************************************************************)
(* Invariants.                                                             *)
(***************************************************************************)

LoopTypes ==
    /\ pc \in {"test", "enter", "select", "scan", "recv_unix",
               "stopped", "failed", "killed"}
    /\ running \in BOOLEAN
    /\ max_fd \in FifoFd .. MaxFd
    /\ read_fds \subseteq ListenFds \cup ClientFds
    /\ fd \in TcpFd .. MaxFd + 1
WatchTypes ==
    /\ master_fds \subseteq ClientFds
    /\ tcp_clients \in Seq(ClientFds)
    /\ fd_owner \in [ClientFds -> Clients \cup {NoClient}]
    /\ backlog \in Seq(Clients)
ConnTypes ==
    /\ link \in [Clients -> Links]
    /\ inbox \in [Clients -> Seq(Requests)]
    /\ said \in [Clients -> Nat]
    /\ sent \in [Clients -> SUBSET Notices]
UdpTypes ==
    /\ udp_clients \in Seq(UdpPeers) /\ udp_queue \in Seq(Datagrams)
    /\ served \subseteq UdpPeers
DataTypes ==
    /\ supplies \in Stocks
    /\ emergency_info \in {"none", "status", "update", "alert"}
AlertTypes ==
    /\ entry_alerts_count \in [Entries -> Nat]
    /\ fifo \in Seq(Entries)
    /\ raised \in [Entries -> Nat]
PowerTypes ==
    /\ unix_conn \in {"none", "connected", "sent", "eof"}
    /\ failures \in Nat /\ sigints \in Nat

\* Every variable keeps its type: the handlers of src/server/server.c never take
\* the head of an empty queue nor look up the owner of a closed descriptor, and
\* no counter of the stock leaves 0 .. INT_MAX (update_supplies_from_json).
TypeOK ==
    LoopTypes /\ WatchTypes /\ ConnTypes /\ UdpTypes /\ DataTypes /\ AlertTypes
    /\ PowerTypes

\* The three records the server keeps of its connections agree: a descriptor
\* is in master_fds exactly while it is open, within the range that select()
\* and the for loop look at, and tcp_clients names some of those, none twice
\* (accept_tcp_connection, handle_tcp_socket_activity, remove_tcp_client).
RecordsAgree ==
    /\ master_fds = {f \in ClientFds : fd_owner[f] # NoClient}
    /\ \A f \in master_fds : f <= max_fd
    /\ Listed(tcp_clients) \subseteq master_fds
    /\ NoDuplicates(tcp_clients)
    /\ Len(tcp_clients) <= MaxClients

\* A connection that is up, or of which the server has not yet seen the end, is
\* in exactly one place: waiting in the listen queue or behind one descriptor.
\* One that is over is in neither (no leak and no second owner after accept,
\* close and the reuse of descriptor numbers).
Holders(c) == {f \in ClientFds : fd_owner[f] = c}
Waits(c) == {i \in DOMAIN backlog : backlog[i] = c}
OneHolder(c) ==
    IF link[c] \in {"none", "cut"}
    THEN Holders(c) = {} /\ Waits(c) = {}
    ELSE \/ (\E f \in ClientFds : Holders(c) = {f}) /\ Waits(c) = {}
         \/ Holders(c) = {} /\ \E i \in DOMAIN backlog : Waits(c) = {i}
ConnectionsHeld == \A c \in Clients : OneHolder(c)

\* A bit that select() has set is still true when its turn comes, whatever the
\* handlers before it and the peers have done since: no handler finds its
\* descriptor closed, and no accept(), read() or recv() of a handler blocks.
PendingStillReady ==
    pc \in {"scan", "recv_unix"} =>
        \A f \in read_fds : Ahead(f) => f \in ReadyFds

\* Neither a coalesced read nor a name found inside another makes the counter
\* of an entry exceed the alerts its sensor has raised (check_alerts,
\* detect_entry).
Queued(e) == Cardinality({i \in DOMAIN fifo : fifo[i] = e})
NoPhantomAlerts ==
    \A e \in Entries : entry_alerts_count[e] + Queued(e) <= raised[e]

\* Two cached UDP peers never have one endpoint, so a broadcast never sends a
\* peer the same alert twice; the list stays within its array (add_udp_client).
UdpCacheDistinct ==
    /\ \A i, j \in DOMAIN udp_clients :
          SameEntry(udp_clients[i], udp_clients[j]) => i = j
    /\ Len(udp_clients) <= MaxClients

-----------------------------------------------------------------------------
(***************************************************************************)
(* Action properties.                                                      *)
(***************************************************************************)

\* The stock changes only for someone the server has recognised: a TCP
\* connection it has answered with auth_success, although it keeps no record
\* of that answer, or a datagram with the administrator's hostname.
Granted ==
    \/ Due(UdpFd) /\ Head(udp_queue).from \in Admins
    \/ \E f \in ClientFds : Due(f) /\ "auth_success" \in sent[fd_owner[f]]
UpdateGranted == [][supplies' # supplies => Granted]_vars

\* Whether a connection is notified is settled when it is accepted: as long as
\* it is watched it neither leaves tcp_clients nor enters it (accept,
\* remove_tcp_client with its shift, and the reuse of descriptor numbers).
ListingStays ==
    \A f \in master_fds \cap master_fds' :
        f \in Listed(tcp_clients) <=> f \in Listed(tcp_clients')
ListingForLife == [][ListingStays]_vars

\* The promise of NotificationService, with a descriptor for a slot.
Broadcasts == {"alert", "disconnect"}
deliveredTo == [f \in ClientFds |-> IF fd_owner[f] = NoClient THEN {}
                                    ELSE sent[fd_owner[f]] \cap Broadcasts]
Service == INSTANCE NotificationService
    WITH Slots <- ClientFds, Limit <- MaxClients, Notifications <- Broadcasts,
         connected <- master_fds, registered <- Listed(tcp_clients),
         delivered <- deliveredTo

\* Accepts, hang-ups, refusals and broadcasts implement that promise; every
\* other step of the server and of its peers leaves it alone.
ImplementsService == Service!ServiceSpec

-----------------------------------------------------------------------------
(***************************************************************************)
(* Liveness, of FairSpec.                                                  *)
(***************************************************************************)

\* Whatever the other descriptors do, what a client has sent is read, or the
\* connection is closed: the scan starves nobody.
RequestsRead == \A c \in Clients : inbox[c] # <<>> ~> (inbox[c] = <<>> \/ Down)

\* A connection whose client has gone is closed and forgotten.
DeparturesReaped == \A c \in Clients : link[c] = "fin" ~> (link[c] = "none" \/ Down)

\* Alerts in the FIFO are read and broadcast.
AlertsRead == fifo # <<>> ~> (fifo = <<>> \/ Down)

\* A reported power failure is handled, although recv() blocks the whole server
\* until the reporter has written.
FailuresHandled == unix_conn = "sent" ~> (unix_conn = "none" \/ Down)

-----------------------------------------------------------------------------
(***************************************************************************)
(* What the documentation says and the code does not do.                   *)
(***************************************************************************)

\* include/server.h:473: the message goes "to all TCP clients currently
\* connected to the server".
NotifiesEveryClient ==
    [][fifo # <<>> /\ fifo' = <<>> =>
          \A f \in master_fds : "alert" \in sent'[fd_owner[f]]]_vars

\* README.md:203: the server "reads the fifo and sends the alert to all TCP/UDP
\* clients", for include/server.h:509 "all UDP clients currently connected":
\* here, whoever has had a request read.  The senders of requests are told apart
\* by add_udp_client ("Compare client address and port", src/server/server.c:1107).
NotifiesEveryUdpPeer ==
    [][fifo # <<>> /\ fifo' = <<>> => served \subseteq Listed(udp_clients)]_vars

\* include/server.h:135: "Number of alerts in the north entry point", and so on
\* for the other three.
CountsEveryAlert ==
    fifo = <<>> => \A e \in Entries : entry_alerts_count[e] = raised[e]

\* README.md:178: a client that exits must not leave the server "not able to
\* receive messages from another TCP clients anymore".
SurvivesDepartures == pc # "killed"

\* include/server.h:227: SIGINT tells "that the server should shut down".
SigintStops == sigints > 0 ~> Down

=============================================================================
