------------------------- MODULE RefugeServerPromises -------------------------
(***************************************************************************)
(* What the server promises its peers: updates only from those it has      *)
(* recognised, one cache entry for a UDP endpoint, and the service of      *)
(* NotificationService to every TCP connection.                            *)
(***************************************************************************)
EXTENDS RefugeServerProofs

-----------------------------------------------------------------------------
(***************************************************************************)
(* Updates.  The server keeps no record of the connections it has answered *)
(* with auth_success.  The first request of a connection is its greeting,  *)
(* and a greeting that is refused ends the connection with everything that *)
(* waits on it: so what is read later comes after an auth_success.         *)
(***************************************************************************)

GreetedClient(c) ==
    /\ link[c] \in Over => inbox[c] = <<>>
    /\ link[c] \notin {"open", "cut"} => said[c] = 0
    /\ inbox[c] # <<>> =>
          Head(inbox[c]).msg = "authenticateme" \/ "auth_success" \in sent[c]
    /\ link[c] = "open" /\ said[c] # 0 /\ inbox[c] = <<>> => "auth_success" \in sent[c]
Greeted == \A c \in Clients : GreetedClient(c)

\* A send() never turns a connection into an open or a closed one.
LEMMA SendKeepsOpen ==
    ASSUME NEW l \in Links
    PROVE  AfterSend(l) = "open" <=> l = "open"
<1>1. CASE l = "fin"
  BY <1>1 DEF AfterSend
<1>2. CASE l = "rst"
  BY <1>2 DEF AfterSend
<1>3. CASE l \notin {"fin", "rst"}
  BY <1>3 DEF AfterSend
<1> QED
  BY <1>1, <1>2, <1>3

\* A queue keeps its head when something is queued behind it.
LEMMA HeadOfAppend ==
    ASSUME NEW S, NEW list \in Seq(S), NEW x
    PROVE  Head(Append(list, x)) = IF list = <<>> THEN x ELSE Head(list)
<1>1. list \in Seq(S \cup {x})
  OBVIOUS
<1>2. CASE list = <<>>
  BY <1>2
<1>3. CASE list # <<>>
  BY <1>1, <1>3
<1> QED
  BY <1>2, <1>3

\* Clients come with a greeting and leave with nothing to their name.
LEMMA GreetedEnvironment ==
    ASSUME IInv, Greeted, Environment
    PROVE  Greeted'
<1>0. /\ link \in [Clients -> Links] /\ inbox \in [Clients -> Seq(Requests)]
      /\ said \in [Clients -> Nat] /\ sent \in [Clients -> SUBSET Notices]
  BY DEF IInv, TypeOK, ConnTypes
<1> HIDE DEF Requests
<1>1. ASSUME NEW c \in Clients, Connect(c)
      PROVE  Greeted'
  BY <1>0, <1>1 DEF Connect, Greeted, GreetedClient, Over
<1>2. ASSUME NEW c \in Clients, Ask(c)
      PROVE  Greeted'
  <2>1. PICK m \in IF said[c] = 0 THEN {"authenticateme"} ELSE TcpMessages,
             u \in Updates \cup {NoUpdate} :
            inbox' = [inbox EXCEPT ![c] = Append(@, [msg |-> m, update |-> u])]
    BY <1>2 DEF Ask
  <2> DEFINE r == [msg |-> m, update |-> u]
  <2>2. /\ link[c] = "open" /\ UNCHANGED <<link, sent>>
        /\ said' = [said EXCEPT ![c] = @ + 1]
    BY <1>2 DEF Ask
  <2>3. inbox'[c] # <<>> /\ Head(inbox'[c]) = IF inbox[c] = <<>> THEN r ELSE Head(inbox[c])
    BY <1>0, <2>1, AppendNotEmpty, HeadOfAppend
  <2>4. said[c] = 0 => r.msg = "authenticateme"
    BY <2>1
  <2>5. GreetedClient(c)'
    <3> HIDE DEF r
    <3> QED
      BY <2>2, <2>3, <2>4 DEF Greeted, GreetedClient, Over
  <2>6. \A d \in Clients : d # c => GreetedClient(d)'
    BY <1>0, <2>1, <2>2 DEF Greeted, GreetedClient
  <2> QED
    BY <2>5, <2>6 DEF Greeted
<1>3. ASSUME NEW c \in Clients, Leave(c) \/ ResetArrives(c)
      PROVE  Greeted'
  <2>1. inbox' = inbox /\ \A d \in Clients : d # c =>
            link'[d] = link[d] /\ said'[d] = said[d] /\ sent'[d] = sent[d]
    BY <1>0, <1>3 DEF Leave, ResetArrives
  <2>2. CASE Leave(c) /\ link[c] = "open"
    <3>1. link'[c] \in {"fin", "rst"} /\ said'[c] = 0 /\ sent' = sent
      BY <1>0, <2>2 DEF Leave
    <3> QED
      BY <2>1, <3>1 DEF Greeted, GreetedClient, Over
  <2>3. CASE Leave(c) /\ link[c] = "cut"
    <3>1. link'[c] = "none" /\ said'[c] = 0
      BY <1>0, <2>3 DEF Leave
    <3> QED
      BY <2>1, <2>3, <3>1 DEF Greeted, GreetedClient, Over
  <2>4. CASE ResetArrives(c)
    <3>1. link[c] = "provoked" /\ link'[c] = "reset" /\ said' = said /\ sent' = sent
      BY <1>0, <2>4 DEF ResetArrives
    <3> QED
      BY <2>1, <3>1 DEF Greeted, GreetedClient, Over
  <2> QED
    BY <1>3, <2>2, <2>3, <2>4 DEF Leave
<1>4. CASE UNCHANGED connVars
  BY <1>4 DEF connVars, Greeted, GreetedClient
<1> QED
  BY <1>1, <1>2, <1>3, <1>4
     DEF Environment, UdpSend, RaiseAlert, PowerConnect, PowerSend, Sigint

\* check_tcp_clients_messages reads everything that has arrived, and closes the
\* connection with it when it refuses a greeting.
LEMMA GreetedClients ==
    ASSUME IInv, Greeted, NEW f \in ClientFds, HandleTcp(f)
    PROVE  Greeted'
<1>0. /\ link \in [Clients -> Links] /\ inbox \in [Clients -> Seq(Requests)]
      /\ said \in [Clients -> Nat] /\ sent \in [Clients -> SUBSET Notices]
  BY DEF IInv, TypeOK, ConnTypes
<1>1. Due(f) /\ said' = said
  BY DEF HandleTcp, HangUp, Authenticate, Refuse, Answer, UpdateByTcp, Receive
<1>2. PICK c \in Clients : c = fd_owner[f]
  BY <1>1, DueClient
<1>3. link[c] \notin Over
  BY <1>1, <1>2, DueClient DEF IInv, Exclusive, Owned, Over
<1> HIDE DEF Requests
<1>4. ASSUME HangUp(f) \/ Refuse(f)
      PROVE  Greeted'
  <2>1. /\ inbox' = [inbox EXCEPT ![c] = <<>>]
        /\ link' = [link EXCEPT ![c] = IF @ = "open" THEN "cut" ELSE "none"]
        /\ \A d \in Clients : d # c => sent'[d] = sent[d]
    BY <1>0, <1>2, <1>4 DEF HangUp, Refuse, CloseConnection
  <2>2. GreetedClient(c)'
    BY <1>0, <1>1, <1>2, <1>3, <2>1 DEF Greeted, GreetedClient, Over
  <2>3. \A d \in Clients : d # c => GreetedClient(d)'
    BY <1>0, <1>1, <2>1 DEF Greeted, GreetedClient
  <2> QED
    BY <2>2, <2>3 DEF Greeted
<1>5. ASSUME Authenticate(f) \/ Answer(f) \/ UpdateByTcp(f)
      PROVE  Greeted'
  <2>1. /\ inbox' = [inbox EXCEPT ![c] = <<>>]
        /\ link' = link \/ link' = [link EXCEPT ![c] = AfterSend(@)]
        /\ \A d \in Clients : d # c => sent'[d] = sent[d]
    BY <1>0, <1>2, <1>5 DEF Authenticate, Answer, UpdateByTcp
  <2>2. "auth_success" \in sent'[c]
    <3>1. CASE Authenticate(f)
      BY <1>0, <1>2, <3>1 DEF Authenticate
    <3>2. CASE Answer(f) \/ UpdateByTcp(f)
      <4>1. inbox[c] # <<>> /\ Head(inbox[c]).msg # "authenticateme" /\ sent' = sent
        BY <1>2, <3>2 DEF Answer, UpdateByTcp, Receive, ConnectionOver
      <4> QED
        BY <1>2, <4>1 DEF Greeted, GreetedClient
    <3> QED
      BY <1>5, <3>1, <3>2
  <2>3. /\ link'[c] = "open" <=> link[c] = "open"
        /\ link'[c] \in Over <=> link[c] \in Over
    BY <1>0, <1>2, <2>1, SendKeepsOpen, SendTypes DEF Over
  <2>4. GreetedClient(c)'
    BY <1>0, <1>1, <1>2, <1>3, <2>1, <2>2, <2>3 DEF Greeted, GreetedClient, Over
  <2>5. \A d \in Clients : d # c => GreetedClient(d)'
    BY <1>0, <1>1, <2>1 DEF Greeted, GreetedClient
  <2> QED
    BY <2>4, <2>5 DEF Greeted
<1> QED
  BY <1>4, <1>5 DEF HandleTcp

\* Broadcasts take no request away and no auth_success back.
LEMMA GreetedBroadcast ==
    ASSUME IInv, Greeted, NEW notice, SendToAllTcp(notice)
    PROVE  Greeted'
<1>0. link \in [Clients -> Links]
  BY DEF IInv, TypeOK, ConnTypes
<1>1. ASSUME NEW d \in Clients
      PROVE  GreetedClient(d)'
  <2>1. /\ inbox' = inbox /\ said' = said
        /\ link'[d] = link[d] \/ link'[d] = AfterSend(link[d])
        /\ sent[d] \subseteq sent'[d]
    BY DEF SendToAllTcp
  <2>2. /\ link'[d] = "open" <=> link[d] = "open"
        /\ link'[d] \in Over <=> link[d] \in Over
    BY <1>0, <2>1, SendKeepsOpen, SendTypes DEF Over
  <2>3. link'[d] \notin {"open", "cut"} => link[d] \notin {"open", "cut"}
    <3>1. link[d] = "cut" => AfterSend(link[d]) = "cut"
      BY DEF AfterSend
    <3> QED
      BY <2>1, <2>2, <3>1
  <2> QED
    BY <2>1, <2>2, <2>3 DEF Greeted, GreetedClient
<1> QED
  BY <1>1 DEF Greeted

\* No step breaks what the connections have said and been told.
LEMMA GreetedStep == IInv /\ Greeted /\ [Next]_vars => Greeted'
<1> SUFFICES ASSUME IInv, Greeted, [Next]_vars PROVE Greeted'
  OBVIOUS
<1>1. CASE UNCHANGED connVars
  BY <1>1 DEF connVars, Greeted, GreetedClient
<1>2. CASE Environment
  BY <1>2, GreetedEnvironment
<1>3. CASE \E f \in ClientFds : HandleTcp(f)
  BY <1>3, GreetedClients
<1>4. CASE ReceiveUnix \/ CheckAlerts
  BY <1>1, <1>4, GreetedBroadcast DEF ReceiveUnix, CheckAlerts
<1>5. CASE \/ TestRunning \/ CallSelect \/ SelectReturns \/ EndPass \/ AcceptTcp
           \/ HandleUdp \/ AcceptUnix \/ KilledBySend
           \/ \E f \in ListenFds : NoDescriptor(f)
  BY <1>1, <1>5 DEF TestRunning, CallSelect, SelectReturns, EndPass, AcceptTcp,
     HandleUdp, AcceptUnix, KilledBySend, NoDescriptor
<1>6. CASE UNCHANGED vars
  BY <1>1, <1>6 DEF vars
<1> QED
  BY <1>2, <1>3, <1>4, <1>5, <1>6 DEF Next, ServerStep

\* The stock changes only for a connection that has been answered auth_success
\* (check_tcp_clients_messages) or for a datagram with the administrator's
\* hostname (check_udp_clients_messages), for any number of either.
THEOREM UpdatesAlwaysGranted == Spec => UpdateGranted
<1>1. Init => Greeted
  BY ServerAssumption DEF Init, Greeted, GreetedClient, Over
<1>2. IInv /\ Greeted /\ [Next]_vars => Greeted'
  BY GreetedStep
<1>3. ASSUME IInv, Greeted, [Next]_vars, supplies' # supplies
      PROVE  Granted
  <2>1. CASE HandleUdp
    BY <1>3, <2>1 DEF HandleUdp, GrantUpdate, Granted
  <2>2. ASSUME NEW f \in ClientFds, HandleTcp(f)
        PROVE  Granted
    <3>1. UpdateByTcp(f)
      BY <1>3, <2>2 DEF HandleTcp, HangUp, Authenticate, Refuse, Answer, dataVars
    <3>2. /\ Due(f) /\ inbox[fd_owner[f]] # <<>>
          /\ Head(inbox[fd_owner[f]]).msg = "update"
      BY <3>1 DEF UpdateByTcp, Receive, ConnectionOver
    <3>3. "auth_success" \in sent[fd_owner[f]]
      BY <1>3, <3>2, DueClient DEF Greeted, GreetedClient
    <3> QED
      BY <3>2, <3>3 DEF Granted
  <2>3. CASE CheckAlerts
    BY <1>3, <2>3 DEF CheckAlerts
  <2>4. CASE Environment
    BY <1>3, <2>4 DEF Environment, Connect, Ask, Leave, ResetArrives, UdpSend,
       RaiseAlert, PowerConnect, PowerSend, Sigint, dataVars
  <2>5. CASE \/ TestRunning \/ CallSelect \/ SelectReturns \/ EndPass \/ AcceptTcp
             \/ AcceptUnix \/ ReceiveUnix \/ KilledBySend
             \/ \E f \in ListenFds : NoDescriptor(f)
    BY <1>3, <2>5 DEF TestRunning, CallSelect, SelectReturns, EndPass, AcceptTcp,
       AcceptUnix, ReceiveUnix, KilledBySend, NoDescriptor, dataVars
  <2>6. CASE UNCHANGED vars
    BY <1>3, <2>6 DEF vars, dataVars
  <2> QED
    BY <1>3, <2>1, <2>2, <2>3, <2>4, <2>5, <2>6 DEF Next, ServerStep
<1>4. IInv /\ Greeted /\ [Next]_vars => [supplies' # supplies => Granted]_vars
  BY <1>3
<1> QED
  BY <1>1, <1>2, <1>4, Invariance, PTL DEF Spec, UpdateGranted

-----------------------------------------------------------------------------
(***************************************************************************)
(* The UDP cache.                                                          *)
(***************************************************************************)

\* add_udp_client is the only place that changes the cache, and it looks for the
\* sender first: for any number of peers, ports and places.
THEOREM UdpCacheAlwaysDistinct == Spec => []UdpCacheDistinct
<1>1. Init => UdpCacheDistinct
  BY MaxClientsAssumption DEF Init, UdpCacheDistinct
<1>2. ASSUME IInv, UdpCacheDistinct, [Next]_vars
      PROVE  UdpCacheDistinct'
  <2>1. CASE udp_clients' = udp_clients
    BY <1>2, <2>1 DEF UdpCacheDistinct
  <2>2. CASE HandleUdp
    <3>1. udp_queue # <<>> /\ udp_queue \in Seq(Datagrams) /\ udp_clients \in Seq(UdpPeers)
      BY <1>2, <2>2, DueListen DEF HandleUdp, IInv, TypeOK, UdpTypes
    <3>2. Head(udp_queue).from \in UdpPeers
      <4>1. Head(udp_queue) \in Datagrams
        <5> HIDE DEF Datagrams
        <5> QED
          BY <3>1
      <4> QED
        BY <4>1 DEF Datagrams
    <3>3. \/ udp_clients' = udp_clients
          \/ udp_clients' = AddUdpClient(Head(udp_queue).from, udp_clients)
      BY <2>2 DEF HandleUdp
    <3>4. \/ udp_clients' = udp_clients
          \/ /\ Len(udp_clients') <= MaxClients
             /\ \A i, j \in DOMAIN udp_clients' :
                   SameEntry(udp_clients'[i], udp_clients'[j]) => i = j
      BY <1>2, <3>1, <3>2, <3>3, AddUdpClientFacts DEF UdpCacheDistinct
    <3> QED
      BY <2>1, <3>4 DEF UdpCacheDistinct
  <2>3. CASE Environment
    <3>1. ASSUME NEW p \in UdpPeers, UdpSend(p)
          PROVE  udp_clients' = udp_clients
      BY <3>1 DEF UdpSend
    <3> QED
      BY <2>1, <2>3, <3>1 DEF Environment, Connect, Ask, Leave, ResetArrives,
         RaiseAlert, PowerConnect, PowerSend, Sigint, udpVars
  <2>4. CASE \/ TestRunning \/ CallSelect \/ SelectReturns \/ EndPass \/ AcceptTcp
             \/ AcceptUnix \/ ReceiveUnix \/ CheckAlerts \/ KilledBySend
             \/ \E f \in ListenFds : NoDescriptor(f)
    BY <2>1, <2>4 DEF TestRunning, CallSelect, SelectReturns, EndPass, AcceptTcp,
       AcceptUnix, ReceiveUnix, CheckAlerts, KilledBySend, NoDescriptor, udpVars
  <2>5. CASE \E f \in ClientFds : HandleTcp(f)
    BY <2>1, <2>5 DEF HandleTcp, HangUp, Authenticate, Refuse, Answer, UpdateByTcp, udpVars
  <2>6. CASE UNCHANGED vars
    BY <2>1, <2>6 DEF vars, udpVars
  <2> QED
    BY <1>2, <2>2, <2>3, <2>4, <2>5, <2>6 DEF Next, ServerStep
<1>3. IInv /\ UdpCacheDistinct /\ [Next]_vars => UdpCacheDistinct'
  BY <1>2
<1> QED
  BY <1>1, <1>3, Invariance, PTL DEF Spec

-----------------------------------------------------------------------------
(***************************************************************************)
(* The server implements NotificationService: a descriptor is a slot.      *)
(***************************************************************************)

\* Nobody has been told anything before being accepted.
Fresh == \A c \in Clients : link[c] # "cut" /\ ~Owned(c) => sent[c] = {}

\* A client that reconnects, or whose number is reused, starts with a clean slate.
LEMMA FreshStep == IInv /\ Fresh /\ [Next]_vars => Fresh'
<1> SUFFICES ASSUME IInv, Fresh, [Next]_vars PROVE Fresh'
  OBVIOUS
<1>0. /\ link \in [Clients -> Links] /\ sent \in [Clients -> SUBSET Notices]
      /\ fd_owner \in [ClientFds -> Clients \cup {NoClient}]
      /\ NoClient \notin Clients
  BY ServerAssumption DEF IInv, TypeOK, ConnTypes, WatchTypes
<1>1. CASE UNCHANGED <<link, sent, fd_owner>>
  BY <1>1 DEF Fresh, Owned
<1>2. CASE Environment
  <2>1. ASSUME NEW c \in Clients, Connect(c) \/ Ask(c) \/ ResetArrives(c)
        PROVE  Fresh'
    BY <1>0, <2>1 DEF Connect, Ask, ResetArrives, Fresh, Owned, watchVars
  <2>2. ASSUME NEW c \in Clients, Leave(c)
        PROVE  Fresh'
    BY <1>0, <2>2 DEF Leave, Fresh, Owned, watchVars
  <2> QED
    BY <1>1, <1>2, <2>1, <2>2 DEF Environment, UdpSend, RaiseAlert, PowerConnect,
       PowerSend, Sigint, connVars, watchVars
<1>3. CASE AcceptTcp
  <2>1. PICK f \in ClientFds :
            /\ fd_owner[f] = NoClient
            /\ fd_owner' = [fd_owner EXCEPT ![f] = Head(backlog)]
    BY <1>3, AcceptFacts
  <2>2. \A d \in Clients : Owned(d) => Owned(d)'
    BY <1>0, <2>1 DEF Owned
  <2> QED
    BY <1>3, <2>2 DEF AcceptTcp, connVars, Fresh
<1>4. ASSUME NEW f \in ClientFds, HandleTcp(f)
      PROVE  Fresh'
  <2>1. Due(f)
    BY <1>4 DEF HandleTcp, HangUp, Authenticate, Refuse, Answer, UpdateByTcp, Receive
  <2>2. PICK c \in Clients : c = fd_owner[f]
    BY <2>1, DueClient
  <2>3. CASE HangUp(f) \/ Refuse(f)
    <3>1. /\ fd_owner' = [fd_owner EXCEPT ![f] = NoClient]
          /\ link' = [link EXCEPT ![c] = IF @ = "open" THEN "cut" ELSE "none"]
          /\ \A d \in Clients : d # c => sent'[d] = sent[d]
          /\ link[c] # "open" => sent'[c] = {}
      BY <1>0, <2>2, <2>3 DEF HangUp, Refuse, CloseConnection
    <3>2. \A d \in Clients : d # c /\ Owned(d) => Owned(d)'
      BY <1>0, <2>2, <3>1 DEF Owned
    <3> QED
      BY <1>0, <3>1, <3>2 DEF Fresh
  <2>4. CASE Authenticate(f) \/ Answer(f) \/ UpdateByTcp(f)
    <3>1. /\ fd_owner' = fd_owner
          /\ link' = link \/ link' = [link EXCEPT ![c] = AfterSend(@)]
          /\ \A d \in Clients : d # c => sent'[d] = sent[d]
      BY <1>0, <2>2, <2>4 DEF Authenticate, Answer, UpdateByTcp, watchVars
    <3>2. Owned(c)
      BY <2>2 DEF Owned
    <3> QED
      BY <1>0, <3>1, <3>2 DEF Fresh, Owned
  <2> QED
    BY <1>4, <2>3, <2>4 DEF HandleTcp
<1>5. ASSUME NEW notice, SendToAllTcp(notice), fd_owner' = fd_owner
      PROVE  Fresh'
  <2>1. \A c \in Listeners : Owned(c)
    BY DEF Listeners, Owned, IInv, RecordsAgree, TypeOK, WatchTypes
  <2>2. \A c \in Clients : c \notin Listeners => link'[c] = link[c] /\ sent'[c] = sent[c]
    BY <1>5 DEF SendToAllTcp
  <2> QED
    BY <1>5, <2>1, <2>2 DEF Fresh, Owned
<1>6. CASE ReceiveUnix \/ CheckAlerts
  BY <1>1, <1>5, <1>6 DEF ReceiveUnix, CheckAlerts, connVars, watchVars
<1>7. CASE \/ TestRunning \/ CallSelect \/ SelectReturns \/ EndPass
           \/ HandleUdp \/ AcceptUnix \/ KilledBySend
           \/ \E f \in ListenFds : NoDescriptor(f)
  BY <1>1, <1>7 DEF TestRunning, CallSelect, SelectReturns, EndPass,
     HandleUdp, AcceptUnix, KilledBySend, NoDescriptor, connVars, watchVars
<1>8. CASE UNCHANGED vars
  BY <1>1, <1>8 DEF vars, connVars, watchVars
<1> QED
  BY <1>2, <1>3, <1>4, <1>6, <1>7, <1>8 DEF Next, ServerStep

\* accept_tcp_connection with add_tcp_client is Join.
LEMMA AcceptJoins ==
    ASSUME IInv, Fresh, AcceptTcp
    PROVE  \E f \in ClientFds : Service!Join(f)
<1>0. /\ fd_owner \in [ClientFds -> Clients \cup {NoClient}]
      /\ tcp_clients \in Seq(ClientFds) /\ NoDuplicates(tcp_clients)
      /\ Len(tcp_clients) <= MaxClients /\ NoClient \notin Clients
  BY ServerAssumption DEF IInv, TypeOK, WatchTypes, RecordsAgree
<1>1. PICK f \in ClientFds :
         /\ fd_owner[f] = NoClient /\ f \notin master_fds
         /\ backlog # <<>> /\ Head(backlog) \in Clients
         /\ fd_owner' = [fd_owner EXCEPT ![f] = Head(backlog)]
         /\ tcp_clients' = AddTcpClient(f, tcp_clients)
         /\ master_fds' = master_fds \cup {f}
  BY AcceptFacts
<1>2. Cardinality(Listed(tcp_clients)) = Len(tcp_clients)
  BY <1>0, ListedCardinality
<1>3. Listed(tcp_clients') = IF Cardinality(Listed(tcp_clients)) < MaxClients
                             THEN Listed(tcp_clients) \cup {f}
                             ELSE Listed(tcp_clients)
  BY <1>0, <1>1, <1>2, AddTcpClientFacts
<1>4. sent[Head(backlog)] = {}
  <2>1. backlog \in Seq(Clients)
    BY DEF IInv, TypeOK, WatchTypes
  <2>2. Head(backlog) \in Listed(backlog)
    BY <1>1, <2>1, ListedTail
  <2>3. ~Owned(Head(backlog)) /\ link[Head(backlog)] # "cut"
    BY <1>1, <2>2 DEF IInv, Exclusive, Owned
  <2> QED
    BY <1>1, <2>3 DEF Fresh
<1>5. UNCHANGED deliveredTo
  <2>1. UNCHANGED sent
    BY DEF AcceptTcp, connVars
  <2>2. \A g \in ClientFds : g # f => fd_owner'[g] = fd_owner[g]
    BY <1>0, <1>1
  <2>3. fd_owner'[f] = Head(backlog) /\ Head(backlog) # NoClient
    BY <1>0, <1>1
  <2> QED
    BY <1>1, <1>4, <2>1, <2>2, <2>3 DEF deliveredTo
<1>6. Service!Join(f)
  BY <1>1, <1>3, <1>5 DEF Service!Join, Service!Cardinality, Cardinality
<1> QED
  BY <1>6

\* close, FD_CLR and remove_tcp_client are Part.
LEMMA CloseParts ==
    ASSUME IInv, NEW f \in ClientFds, HangUp(f) \/ Refuse(f)
    PROVE  Service!Part(f)
<1>0. /\ fd_owner \in [ClientFds -> Clients \cup {NoClient}]
      /\ tcp_clients \in Seq(ClientFds) /\ NoDuplicates(tcp_clients)
      /\ sent \in [Clients -> SUBSET Notices] /\ NoClient \notin Clients
  BY ServerAssumption DEF IInv, TypeOK, WatchTypes, ConnTypes, RecordsAgree
<1>1. Due(f) /\ CloseConnection(f, fd_owner[f])
  BY DEF HangUp, Refuse, Receive
<1>2. fd_owner[f] \in Clients /\ f \in master_fds
  BY <1>1, DueClient
<1>3. /\ fd_owner' = [fd_owner EXCEPT ![f] = NoClient]
      /\ master_fds' = master_fds \ {f}
      /\ Listed(tcp_clients') = Listed(tcp_clients) \ {f}
  BY <1>0, <1>1, RemoveTcpClientFacts DEF CloseConnection
<1>4. \A d \in Clients : d # fd_owner[f] => sent'[d] = sent[d]
  BY <1>0, <1>2 DEF HangUp, Refuse
<1>5. \A g \in ClientFds : g # f /\ fd_owner[g] # NoClient =>
          fd_owner[g] \in Clients /\ fd_owner[g] # fd_owner[f]
  BY <1>0 DEF IInv, Exclusive
<1>6. deliveredTo' = [deliveredTo EXCEPT ![f] = {}]
  <2>1. deliveredTo'[f] = {}
    BY <1>0, <1>3 DEF deliveredTo
  <2>2. \A g \in ClientFds : g # f => deliveredTo'[g] = deliveredTo[g]
    BY <1>0, <1>3, <1>4, <1>5 DEF deliveredTo
  <2>3. deliveredTo' = [g \in ClientFds |-> deliveredTo'[g]]
    BY DEF deliveredTo
  <2>4. deliveredTo = [g \in ClientFds |-> deliveredTo[g]]
    BY DEF deliveredTo
  <2> HIDE DEF deliveredTo
  <2> QED
    BY <2>1, <2>2, <2>3, <2>4
<1> QED
  BY <1>2, <1>3, <1>6 DEF Service!Part

\* send_to_all_tcp_clients is Notify: it reaches those on the list, and no other.
LEMMA BroadcastNotifies ==
    ASSUME IInv, NEW n \in Broadcasts, SendToAllTcp(n),
           UNCHANGED <<master_fds, tcp_clients, fd_owner>>
    PROVE  Service!Notify(n)
<1>0. /\ fd_owner \in [ClientFds -> Clients \cup {NoClient}]
      /\ Listed(tcp_clients) \subseteq ClientFds
      /\ \A f \in Listed(tcp_clients) : fd_owner[f] # NoClient
      /\ NoClient \notin Clients
  BY ServerAssumption DEF IInv, TypeOK, WatchTypes, RecordsAgree
<1>1. \A f \in ClientFds : fd_owner[f] # NoClient =>
          (fd_owner[f] \in Listeners <=> f \in Listed(tcp_clients))
  BY <1>0 DEF Listeners, IInv, Exclusive
<1>2. \A c \in Clients :
          sent'[c] = IF c \in Listeners THEN sent[c] \cup {n} ELSE sent[c]
  BY DEF SendToAllTcp
<1>3. deliveredTo' = [f \in ClientFds |-> IF f \in Listed(tcp_clients)
                                          THEN deliveredTo[f] \cup {n}
                                          ELSE deliveredTo[f]]
  <2>1. \A f \in ClientFds :
            deliveredTo'[f] = IF f \in Listed(tcp_clients) THEN deliveredTo[f] \cup {n}
                                                           ELSE deliveredTo[f]
    <3> TAKE f \in ClientFds
    <3>1. CASE fd_owner[f] = NoClient
      BY <1>0, <3>1 DEF deliveredTo
    <3>2. CASE fd_owner[f] # NoClient
      <4>1. /\ deliveredTo[f] = sent[fd_owner[f]] \cap Broadcasts
            /\ deliveredTo'[f] = sent'[fd_owner[f]] \cap Broadcasts
        BY <3>2 DEF deliveredTo
      <4>2. fd_owner[f] \in Clients
        BY <1>0, <3>2
      <4>3. CASE f \in Listed(tcp_clients)
        <5>1. sent'[fd_owner[f]] = sent[fd_owner[f]] \cup {n}
          BY <1>1, <1>2, <3>2, <4>2, <4>3
        <5> QED
          BY <4>1, <4>3, <5>1
      <4>4. CASE f \notin Listed(tcp_clients)
        <5>1. sent'[fd_owner[f]] = sent[fd_owner[f]]
          BY <1>1, <1>2, <3>2, <4>2, <4>4
        <5> QED
          BY <4>1, <4>4, <5>1
      <4> QED
        BY <4>3, <4>4
    <3> QED
      BY <3>1, <3>2
  <2>2. deliveredTo' = [f \in ClientFds |-> deliveredTo'[f]]
    BY DEF deliveredTo
  <2> HIDE DEF deliveredTo
  <2> QED
    BY <2>1, <2>2
<1> QED
  BY <1>3 DEF Service!Notify

\* A step that leaves the records alone and broadcasts nothing.
LEMMA OtherStutter ==
    ASSUME UNCHANGED <<master_fds, tcp_clients, fd_owner>>,
           \A f \in ClientFds : fd_owner[f] # NoClient =>
              sent'[fd_owner[f]] \cap Broadcasts = sent[fd_owner[f]] \cap Broadcasts
    PROVE  UNCHANGED Service!serviceVars
<1>1. UNCHANGED deliveredTo
  BY DEF deliveredTo
<1> QED
  BY <1>1 DEF Service!serviceVars

\* Every step of the server and of its peers is one step of the service, or none.
LEMMA ServiceStep == IInv /\ Fresh /\ [Next]_vars => [Service!ServiceNext]_(Service!serviceVars)
<1> SUFFICES ASSUME IInv, Fresh, [Next]_vars
             PROVE  Service!ServiceNext \/ UNCHANGED Service!serviceVars
  OBVIOUS
<1>0. /\ fd_owner \in [ClientFds -> Clients \cup {NoClient}]
      /\ sent \in [Clients -> SUBSET Notices] /\ NoClient \notin Clients
      /\ \A f \in ClientFds : fd_owner[f] # NoClient => fd_owner[f] \in Clients
  BY ServerAssumption DEF IInv, TypeOK, ConnTypes, WatchTypes
<1>1. CASE UNCHANGED <<master_fds, tcp_clients, fd_owner, sent>>
  BY <1>1, OtherStutter
<1>2. CASE Environment
  <2>1. ASSUME NEW c \in Clients, Leave(c)
        PROVE  UNCHANGED Service!serviceVars
    <3>1. link[c] = "cut" => ~Owned(c)
      BY DEF IInv, Exclusive
    <3>2. \A f \in ClientFds : fd_owner[f] # NoClient => sent'[fd_owner[f]] = sent[fd_owner[f]]
      BY <1>0, <2>1, <3>1 DEF Leave, Owned
    <3> QED
      BY <2>1, <3>2, OtherStutter DEF Leave, watchVars
  <2>2. ASSUME NEW c \in Clients, Connect(c) \/ Ask(c) \/ ResetArrives(c)
        PROVE  UNCHANGED Service!serviceVars
    BY <1>1, <2>2, OtherStutter DEF Connect, Ask, ResetArrives, watchVars
  <2> QED
    BY <1>1, <1>2, <2>1, <2>2, OtherStutter
       DEF Environment, UdpSend, RaiseAlert, PowerConnect, PowerSend, Sigint,
           connVars, watchVars
<1>3. CASE AcceptTcp
  BY <1>3, AcceptJoins DEF Service!ServiceNext
<1>4. ASSUME NEW f \in ClientFds, HandleTcp(f)
      PROVE  Service!ServiceNext \/ UNCHANGED Service!serviceVars
  <2>1. CASE HangUp(f) \/ Refuse(f)
    BY <2>1, CloseParts DEF Service!ServiceNext
  <2>2. CASE Authenticate(f)
    <3>1. sent' = [sent EXCEPT ![fd_owner[f]] = @ \cup {"auth_success"}]
      BY <2>2 DEF Authenticate
    <3>2. \A c \in Clients : sent'[c] \cap Broadcasts = sent[c] \cap Broadcasts
      BY <1>0, <3>1 DEF Broadcasts
    <3> QED
      BY <1>0, <2>2, <3>2, OtherStutter DEF Authenticate, watchVars
  <2>3. CASE Answer(f) \/ UpdateByTcp(f)
    BY <1>1, <2>3, OtherStutter DEF Answer, UpdateByTcp, watchVars
  <2> QED
    BY <1>4, <2>1, <2>2, <2>3 DEF HandleTcp
<1>5. CASE CheckAlerts
  <2>1. SendToAllTcp("alert") /\ UNCHANGED <<master_fds, tcp_clients, fd_owner>>
        /\ "alert" \in Broadcasts
    BY <1>5 DEF CheckAlerts, watchVars, Broadcasts
  <2> QED
    BY <2>1, BroadcastNotifies DEF Service!ServiceNext
<1>6. CASE ReceiveUnix
  <2>1. UNCHANGED <<master_fds, tcp_clients, fd_owner>> /\ "disconnect" \in Broadcasts
    BY <1>6 DEF ReceiveUnix, watchVars, Broadcasts
  <2>2. SendToAllTcp("disconnect") \/ UNCHANGED sent
    BY <1>6 DEF ReceiveUnix, connVars
  <2> QED
    BY <1>1, <2>1, <2>2, BroadcastNotifies DEF Service!ServiceNext
<1>7. CASE \/ TestRunning \/ CallSelect \/ SelectReturns \/ EndPass
           \/ HandleUdp \/ AcceptUnix \/ KilledBySend
           \/ \E f \in ListenFds : NoDescriptor(f)
  BY <1>1, <1>7 DEF TestRunning, CallSelect, SelectReturns, EndPass,
     HandleUdp, AcceptUnix, KilledBySend, NoDescriptor, connVars, watchVars
<1>8. CASE UNCHANGED vars
  BY <1>1, <1>8 DEF vars, connVars, watchVars
<1> QED
  BY <1>2, <1>3, <1>4, <1>5, <1>6, <1>7, <1>8 DEF Next, ServerStep

\* For any number of clients, descriptors and list places the server keeps the
\* promise of NotificationService: who is registered is settled on accept, and a
\* broadcast reaches the registered, all of them and nobody else, in one step.
THEOREM ServiceImplemented == Spec => ImplementsService
<1>1. Init => Fresh
  BY DEF Init, Fresh
<1>2. IInv /\ Fresh /\ [Next]_vars => Fresh'
  BY FreshStep
<1>3. Init => Service!ServiceInit
  BY DEF Init, Service!ServiceInit, deliveredTo, Listed
<1>4. IInv /\ Fresh /\ [Next]_vars => [Service!ServiceNext]_(Service!serviceVars)
  BY ServiceStep
<1> QED
  BY <1>1, <1>2, <1>3, <1>4, Invariance, PTL
     DEF Spec, ImplementsService, Service!ServiceSpec

-----------------------------------------------------------------------------
(***************************************************************************)
(* Alerts.                                                                 *)
(***************************************************************************)

\* The alerts of an entry among those written to the FIFO.
Places(alerts, e) == {i \in DOMAIN alerts : alerts[i] = e}

\* The number of queued alerts of an entry is a number, and not zero when the
\* entry's name occurs in what check_alerts reads.
LEMMA PlacesFinite ==
    ASSUME NEW alerts \in Seq(Entries), NEW e
    PROVE  /\ IsFiniteSet(Places(alerts, e))
           /\ Cardinality(Places(alerts, e)) \in Nat
           /\ e \in Listed(alerts) => Cardinality(Places(alerts, e)) >= 1
<1>1. Len(alerts) \in Nat /\ DOMAIN alerts = 1 .. Len(alerts)
  OBVIOUS
<1>2. IsFiniteSet(1 .. Len(alerts)) /\ Places(alerts, e) \subseteq 1 .. Len(alerts)
  BY <1>1, FS_Interval DEF Places
<1>3. IsFiniteSet(Places(alerts, e))
  BY <1>2, FS_Subset
<1>4. Cardinality(Places(alerts, e)) \in Nat
  BY <1>3, FS_CardinalityType
<1>5. e \in Listed(alerts) => Places(alerts, e) # {}
  BY DEF Listed, Places
<1>6. Cardinality(Places(alerts, e)) = 0 => Places(alerts, e) = {}
  BY <1>3, FS_EmptySet
<1> QED
  BY <1>3, <1>4, <1>5, <1>6

\* One more alert in the FIFO is one more of its entry, and of no other.
LEMMA PlacesAppend ==
    ASSUME NEW alerts \in Seq(Entries), NEW a \in Entries, NEW e
    PROVE  Cardinality(Places(Append(alerts, a), e)) =
              Cardinality(Places(alerts, e)) + (IF a = e THEN 1 ELSE 0)
<1> DEFINE n == Len(alerts)
           new == Append(alerts, a)
<1>1. n \in Nat /\ DOMAIN alerts = 1 .. n /\ DOMAIN new = 1 .. n + 1
  OBVIOUS
<1>2. (\A i \in 1 .. n : new[i] = alerts[i]) /\ new[n + 1] = a
  OBVIOUS
<1>3. 1 .. n + 1 = 1 .. n \cup {n + 1} /\ n + 1 \notin 1 .. n
  BY <1>1
<1> HIDE DEF n, new
<1>4. Places(new, e) = Places(alerts, e) \cup (IF a = e THEN {n + 1} ELSE {})
  BY <1>1, <1>2, <1>3 DEF Places
<1>5. n + 1 \notin Places(alerts, e)
  BY <1>1, <1>3 DEF Places
<1>6. IsFiniteSet(Places(alerts, e)) /\ Cardinality(Places(alerts, e)) \in Nat
  BY PlacesFinite
<1>7. CASE a = e
  <2>1. Places(new, e) = Places(alerts, e) \cup {n + 1}
    BY <1>4, <1>7
  <2>2. Cardinality(Places(new, e)) = Cardinality(Places(alerts, e)) + 1
    BY <1>5, <1>6, <2>1, FS_AddElement
  <2> QED
    BY <1>7, <2>2 DEF new
<1>8. CASE a # e
  <2>1. Places(new, e) = Places(alerts, e)
    BY <1>4, <1>8
  <2> QED
    BY <1>6, <1>8, <2>1 DEF new
<1> QED
  BY <1>7, <1>8

\* detect_entry names an entry that occurs in what has been read.
LEMMA DetectedIsQueued ==
    ASSUME NEW alerts \in Seq(Entries), alerts # <<>>
    PROVE  DetectEntry(alerts) \in Listed(alerts)
<1>1. Listed(alerts) \subseteq Entries
  BY DEF Listed
<1>2. Head(alerts) \in Listed(alerts)
  BY ListedTail
<1>3. CASE "NORTH" \in Listed(alerts)
  BY <1>3 DEF DetectEntry
<1>4. CASE "NORTH" \notin Listed(alerts) /\ "SOUTH" \in Listed(alerts)
  BY <1>4 DEF DetectEntry
<1>5. CASE "NORTH" \notin Listed(alerts) /\ "SOUTH" \notin Listed(alerts)
           /\ "EAST" \in Listed(alerts)
  BY <1>1, <1>5 DEF DetectEntry, Entries
<1>6. CASE "NORTH" \notin Listed(alerts) /\ "SOUTH" \notin Listed(alerts)
           /\ "EAST" \notin Listed(alerts)
  <2>1. "WEST" \in Listed(alerts)
    BY <1>1, <1>2, <1>6 DEF Entries
  <2>2. DetectEntry(alerts) = "WEST"
    BY <1>6 DEF DetectEntry
  <2> QED
    BY <2>1, <2>2
<1> QED
  BY <1>3, <1>4, <1>5, <1>6

\* However the alerts are read together, no counter ever exceeds what its sensor
\* has raised, the alerts still in the FIFO included (check_alerts).
THEOREM NeverPhantomAlerts == Spec => []NoPhantomAlerts
<1>1. Init => NoPhantomAlerts
  <2>1. SUFFICES ASSUME Init, NEW e \in Entries
                 PROVE  entry_alerts_count[e] + Queued(e) <= raised[e]
    BY DEF NoPhantomAlerts
  <2>2. Queued(e) = Cardinality({})
    BY <2>1 DEF Init, Queued
  <2> QED
    BY <2>1, <2>2, FS_EmptySet DEF Init
<1>2. ASSUME IInv, NoPhantomAlerts, [Next]_vars
      PROVE  NoPhantomAlerts'
  <2>0. /\ fifo \in Seq(Entries) /\ raised \in [Entries -> Nat]
        /\ entry_alerts_count \in [Entries -> Nat]
    BY <1>2 DEF IInv, TypeOK, AlertTypes
  <2>1. \A e : Queued(e) = Cardinality(Places(fifo, e)) /\ Queued(e) \in Nat
    BY <2>0, PlacesFinite DEF Queued, Places
  <2>2. \A e : Queued(e)' = Cardinality(Places(fifo', e))
    BY DEF Queued, Places
  <2>3. CASE UNCHANGED alertVars
    BY <1>2, <2>1, <2>2, <2>3 DEF alertVars, NoPhantomAlerts
  <2>4. ASSUME NEW s \in Sensors, RaiseAlert(s)
        PROVE  NoPhantomAlerts'
    <3>1. /\ fifo' = Append(fifo, s) /\ entry_alerts_count' = entry_alerts_count
          /\ raised' = [raised EXCEPT ![s] = @ + 1] /\ s \in Entries
      BY <2>4, ServerAssumption DEF RaiseAlert
    <3>2. \A e : Queued(e)' = Queued(e) + (IF s = e THEN 1 ELSE 0)
      BY <2>0, <2>1, <2>2, <3>1, PlacesAppend
    <3> QED
      BY <1>2, <2>0, <2>1, <3>1, <3>2 DEF NoPhantomAlerts
  <2>5. CASE CheckAlerts
    <3>1. /\ fifo' = <<>> /\ raised' = raised /\ fifo # <<>>
          /\ entry_alerts_count' = [entry_alerts_count EXCEPT ![DetectEntry(fifo)] = @ + 1]
      BY <1>2, <2>5, DueListen DEF CheckAlerts
    <3>2. Queued(DetectEntry(fifo)) >= 1
      BY <2>0, <2>1, <3>1, DetectedIsQueued, PlacesFinite
    <3>3. \A e : Queued(e)' = 0
      <4>1. \A e : Places(fifo', e) = {}
        BY <3>1 DEF Places
      <4> QED
        BY <2>2, <4>1, FS_EmptySet
    <3> QED
      <4>1. SUFFICES ASSUME NEW e \in Entries
                     PROVE  entry_alerts_count'[e] + Queued(e)' <= raised'[e]
        BY DEF NoPhantomAlerts
      <4>2. /\ entry_alerts_count[e] \in Nat /\ raised[e] \in Nat /\ Queued(e) \in Nat
            /\ entry_alerts_count[e] + Queued(e) <= raised[e]
        BY <1>2, <2>0, <2>1 DEF NoPhantomAlerts
      <4>3. Queued(e)' = 0 /\ raised'[e] = raised[e]
        BY <3>1, <3>3
      <4>4. CASE e = DetectEntry(fifo)
        <5>1. entry_alerts_count'[e] = entry_alerts_count[e] + 1 /\ Queued(e) >= 1
          BY <2>0, <3>1, <3>2, <4>4
        <5> QED
          BY <4>2, <4>3, <5>1
      <4>5. CASE e # DetectEntry(fifo)
        <5>1. entry_alerts_count'[e] = entry_alerts_count[e]
          BY <2>0, <3>1, <4>5
        <5> QED
          BY <4>2, <4>3, <5>1
      <4> QED
        BY <4>4, <4>5
  <2>6. CASE Environment
    BY <2>3, <2>4, <2>6 DEF Environment, Connect, Ask, Leave, ResetArrives, UdpSend,
       PowerConnect, PowerSend, Sigint
  <2>7. CASE \/ TestRunning \/ CallSelect \/ SelectReturns \/ EndPass \/ AcceptTcp
             \/ HandleUdp \/ AcceptUnix \/ ReceiveUnix \/ KilledBySend
             \/ \E f \in ListenFds : NoDescriptor(f)
    BY <2>3, <2>7 DEF TestRunning, CallSelect, SelectReturns, EndPass, AcceptTcp,
       HandleUdp, AcceptUnix, ReceiveUnix, KilledBySend, NoDescriptor
  <2>8. CASE \E f \in ClientFds : HandleTcp(f)
    BY <2>3, <2>8 DEF HandleTcp, HangUp, Authenticate, Refuse, Answer, UpdateByTcp
  <2>9. CASE UNCHANGED vars
    BY <2>3, <2>9 DEF vars
  <2> QED
    BY <1>2, <2>5, <2>6, <2>7, <2>8, <2>9 DEF Next, ServerStep
<1>3. IInv /\ NoPhantomAlerts /\ [Next]_vars => NoPhantomAlerts'
  BY <1>2
<1> QED
  BY <1>1, <1>3, Invariance, PTL DEF Spec
===============================================================================
