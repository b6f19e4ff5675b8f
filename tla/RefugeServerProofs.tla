------------------------- MODULE RefugeServerProofs -------------------------
(***************************************************************************)
(* Type correctness and the agreement of the server's records, for any     *)
(* number of clients, descriptors, list places and requests.               *)
(*                                                                         *)
(* Neither TypeOK nor RecordsAgree is inductive.  A handler takes the head *)
(* of a queue, or looks up the owner of a descriptor, because select() has *)
(* said so earlier in the pass: Snapshot says that this is still true when *)
(* the turn comes.  Closing a connection leaves the other bits true only if*)
(* no two descriptors have one owner: Exclusive.                           *)
(***************************************************************************)
EXTENDS RefugeServer, FiniteSetTheorems, FunctionTheorems, TLAPS

-----------------------------------------------------------------------------
(***************************************************************************)
(* What the operations on the client lists preserve and change.            *)
(***************************************************************************)

\* What the append at the end of a client list adds to it.
LEMMA ListedAppend ==
    ASSUME NEW S, NEW list \in Seq(S), NEW x \in S
    PROVE  /\ Append(list, x) \in Seq(S)
           /\ Len(Append(list, x)) = Len(list) + 1
           /\ Listed(Append(list, x)) = Listed(list) \cup {x}
<1> DEFINE new == Append(list, x)
           n == Len(list)
<1>1. /\ new \in Seq(S) /\ n \in Nat /\ Len(new) = n + 1
      /\ DOMAIN list = 1 .. n /\ DOMAIN new = 1 .. n + 1
  OBVIOUS
<1>2. (\A i \in 1 .. n : new[i] = list[i]) /\ new[n + 1] = x
  OBVIOUS
<1>3. \A i \in 1 .. n + 1 : i \in 1 .. n \/ i = n + 1
  BY <1>1
<1>4. Listed(new) = Listed(list) \cup {x}
  <2> HIDE DEF new, n
  <2>1. Listed(new) \subseteq Listed(list) \cup {x}
    BY <1>1, <1>2, <1>3 DEF Listed
  <2>2. \A i \in 1 .. n : i \in 1 .. n + 1
    BY <1>1
  <2>3. Listed(list) \subseteq Listed(new)
    BY <1>1, <1>2, <2>2 DEF Listed
  <2>4. x \in Listed(new)
    BY <1>1, <1>2 DEF Listed
  <2> QED
    BY <2>1, <2>3, <2>4
<1> QED
  BY <1>1, <1>4

\* Appending a newcomer that is not listed makes no duplicate.
LEMMA AppendNoDuplicates ==
    ASSUME NEW S, NEW list \in Seq(S), NEW x \in S,
           NoDuplicates(list), x \notin Listed(list)
    PROVE  NoDuplicates(Append(list, x))
BY DEF NoDuplicates, Listed

\* What taking the head off a queue leaves.
LEMMA ListedTail ==
    ASSUME NEW S, NEW list \in Seq(S), list # <<>>
    PROVE  /\ Head(list) \in S
           /\ Tail(list) \in Seq(S)
           /\ Listed(list) = Listed(Tail(list)) \cup {Head(list)}
<1>1. Head(list) = list[1] /\ 1 \in DOMAIN list
  OBVIOUS
<1>2. \A i \in DOMAIN Tail(list) : i + 1 \in DOMAIN list /\ Tail(list)[i] = list[i + 1]
  OBVIOUS
<1>3. \A i \in DOMAIN list : i # 1 => i - 1 \in DOMAIN Tail(list)
                                      /\ Tail(list)[i - 1] = list[i]
  OBVIOUS
<1> QED
  BY <1>1, <1>2, <1>3 DEF Listed

\* Taking the head off a queue without duplicates removes it altogether.
LEMMA TailNoDuplicates ==
    ASSUME NEW S, NEW list \in Seq(S), list # <<>>, NoDuplicates(list)
    PROVE  NoDuplicates(Tail(list)) /\ Head(list) \notin Listed(Tail(list))
<1>1. Head(list) = list[1] /\ 1 \in DOMAIN list
  OBVIOUS
<1>2. \A i \in DOMAIN Tail(list) : i \in Nat /\ i # 0 /\ i + 1 \in DOMAIN list
                                   /\ Tail(list)[i] = list[i + 1]
  OBVIOUS
<1> QED
  BY <1>1, <1>2 DEF NoDuplicates, Listed

\* A list without duplicates has as many members as entries, so that the length
\* that add_tcp_client compares with MAX_CLIENTS counts connections.
LEMMA ListedCardinality ==
    ASSUME NEW S, NEW list \in Seq(S), NoDuplicates(list)
    PROVE  IsFiniteSet(Listed(list)) /\ Cardinality(Listed(list)) = Len(list)
<1> DEFINE n == Len(list)
           place == [i \in 1 .. n |-> list[i]]
<1>1. n \in Nat /\ DOMAIN list = 1 .. n
  OBVIOUS
<1>2. IsFiniteSet(1 .. n) /\ Cardinality(1 .. n) = n
  <2>1. n \in Nat BY <1>1
  <2> HIDE DEF n
  <2>2. /\ IsFiniteSet(1 .. n)
        /\ Cardinality(1 .. n) = IF 1 > n THEN 0 ELSE n - 1 + 1
    BY ONLY <2>1, FS_Interval
  <2> QED BY ONLY <2>1, <2>2
<1>3. /\ place \in [1 .. n -> Listed(list)]
      /\ \A i, j \in 1 .. n : place[i] = place[j] => i = j
      /\ \A x \in Listed(list) : \E i \in 1 .. n : place[i] = x
  BY <1>1 DEF Listed, NoDuplicates
<1>4. place \in Bijection(1 .. n, Listed(list))
  <2> HIDE DEF place, n
  <2> QED
    BY <1>3, Fun_IsBij
<1>5. ExistsBijection(1 .. n, Listed(list))
  <2> HIDE DEF place, n
  <2> QED
    BY <1>4, Fun_ExistsBij
<1> QED
  BY <1>2, <1>5, FS_Bijection

(***************************************************************************)
(* add_tcp_client.                                                         *)
(***************************************************************************)

\* The newcomer is appended, or the list stays as it is because it is full.
LEMMA AddTcpClientFacts ==
    ASSUME NEW S, NEW list \in Seq(S), NEW f \in S, Len(list) <= MaxClients
    PROVE  LET new == AddTcpClient(f, list) IN
           /\ new \in Seq(S)
           /\ Len(new) <= MaxClients
           /\ Listed(new) = IF Len(list) < MaxClients THEN Listed(list) \cup {f}
                                                      ELSE Listed(list)
           /\ NoDuplicates(list) /\ f \notin Listed(list) => NoDuplicates(new)
<1>1. CASE Len(list) < MaxClients
  <2>1. Len(list) \in Nat /\ Len(list) + 1 <= MaxClients
    BY <1>1, MaxClientsAssumption
  <2>2. AddTcpClient(f, list) = Append(list, f)
    BY <1>1 DEF AddTcpClient
  <2> QED
    BY <1>1, <2>1, <2>2, ListedAppend, AppendNoDuplicates
<1>2. CASE ~(Len(list) < MaxClients)
  BY <1>2 DEF AddTcpClient
<1> QED
  BY <1>1, <1>2

(***************************************************************************)
(* remove_tcp_client.                                                      *)
(***************************************************************************)

\* The loop shifts everything behind the entry: that entry is gone and every
\* other is still there, once.
LEMMA ShiftLeftFacts ==
    ASSUME NEW S, NEW list \in Seq(S), NoDuplicates(list), NEW k \in DOMAIN list
    PROVE  /\ ShiftLeft(list, k) \in Seq(S)
           /\ Len(ShiftLeft(list, k)) = Len(list) - 1
           /\ Listed(ShiftLeft(list, k)) = Listed(list) \ {list[k]}
           /\ NoDuplicates(ShiftLeft(list, k))
<1> DEFINE new == ShiftLeft(list, k)
           n == Len(list)
<1>0. n \in Nat /\ k \in 1 .. n /\ DOMAIN list = 1 .. n /\ n - 1 \in Nat
  OBVIOUS
<1>1. /\ DOMAIN new = 1 .. n - 1
      /\ \A i \in 1 .. n - 1 : new[i] = IF i < k THEN list[i] ELSE list[i + 1]
  BY DEF ShiftLeft
<1>2. \A i \in 1 .. n - 1 : new[i] \in S
  BY <1>0, <1>1
<1>3. new \in Seq(S) /\ Len(new) = n - 1
  <2>1. new = [i \in 1 .. n - 1 |-> IF i < k THEN list[i] ELSE list[i + 1]]
    BY DEF ShiftLeft
  <2>2. new \in [1 .. n - 1 -> S]
    BY <1>1, <1>2, <2>1
  <2> HIDE DEF new, n
  <2> QED
    BY <1>0, <2>2
<1>4. NoDuplicates(new)
  <2> DEFINE place(i) == IF i < k THEN i ELSE i + 1
  <2>1. \A i \in 1 .. n - 1 : place(i) \in 1 .. n /\ new[i] = list[place(i)]
    BY <1>0, <1>1
  <2>2. \A i, j \in 1 .. n - 1 : place(i) = place(j) => i = j
    BY <1>0
  <2> HIDE DEF new, n, place
  <2> QED
    BY <1>0, <1>1, <2>1, <2>2 DEF NoDuplicates
<1>5. \A i \in 1 .. n - 1 : new[i] \in Listed(list) /\ new[i] # list[k]
  BY <1>0, <1>1 DEF NoDuplicates, Listed
<1>6. \A i \in 1 .. n : list[i] # list[k] => list[i] \in Listed(new)
  <2> TAKE i \in 1 .. n
  <2> HAVE list[i] # list[k]
  <2>1. CASE i < k
    BY <2>1, <1>0, <1>1 DEF Listed
  <2>2. CASE i > k
    <3>1. i - 1 \in 1 .. n - 1 /\ new[i - 1] = list[i]
      BY <2>2, <1>0, <1>1
    <3> QED
      BY <3>1, <1>1 DEF Listed
  <2> QED
    BY <2>1, <2>2, <1>0
<1>7. Listed(new) = Listed(list) \ {list[k]}
  BY <1>0, <1>1, <1>5, <1>6 DEF Listed
<1> QED
  BY <1>3, <1>4, <1>7

\* remove_tcp_client removes the descriptor, and only that.
LEMMA RemoveTcpClientFacts ==
    ASSUME NEW S, NEW list \in Seq(S), NoDuplicates(list), NEW f
    PROVE  LET new == RemoveTcpClient(f, list) IN
           /\ new \in Seq(S)
           /\ Len(new) <= Len(list)
           /\ Listed(new) = Listed(list) \ {f}
           /\ NoDuplicates(new)
<1>1. CASE f \in Listed(list)
  <2> DEFINE k == CHOOSE j \in DOMAIN list : FirstAt(f, list, j)
  <2>1. \E j \in DOMAIN list : FirstAt(f, list, j)
    BY <1>1 DEF Listed, FirstAt, NoDuplicates
  <2>2. k \in DOMAIN list /\ list[k] = f
    BY <2>1 DEF FirstAt
  <2>3. RemoveTcpClient(f, list) = ShiftLeft(list, k)
    BY <1>1 DEF RemoveTcpClient
  <2> HIDE DEF k
  <2> QED
    BY <2>2, <2>3, ShiftLeftFacts
<1>2. CASE f \notin Listed(list)
  BY <1>2 DEF RemoveTcpClient
<1> QED
  BY <1>1, <1>2

(***************************************************************************)
(* add_udp_client.                                                         *)
(***************************************************************************)

\* add_udp_client never lets two entries with one port in, nor one too many.
LEMMA AddUdpClientFacts ==
    ASSUME NEW S, NEW list \in Seq(S), NEW p \in S, Len(list) <= MaxClients,
           \A i, j \in DOMAIN list : SameEntry(list[i], list[j]) => i = j
    PROVE  LET new == AddUdpClient(p, list) IN
           /\ new \in Seq(S)
           /\ Len(new) <= MaxClients
           /\ \A i, j \in DOMAIN new : SameEntry(new[i], new[j]) => i = j
<1>1. CASE (\E q \in Listed(list) : SameEntry(q, p)) \/ Len(list) >= MaxClients
  BY <1>1 DEF AddUdpClient
<1>2. CASE ~((\E q \in Listed(list) : SameEntry(q, p)) \/ Len(list) >= MaxClients)
  <2>1. AddUdpClient(p, list) = Append(list, p)
    BY <1>2 DEF AddUdpClient
  <2>2. Append(list, p) \in Seq(S) /\ Len(Append(list, p)) <= MaxClients
    BY <1>2, MaxClientsAssumption
  <2>3. \A i \in DOMAIN list : ~SameEntry(list[i], p) /\ ~SameEntry(p, list[i])
    BY <1>2 DEF Listed, SameEntry
  <2>4. \A i, j \in DOMAIN Append(list, p) :
            SameEntry(Append(list, p)[i], Append(list, p)[j]) => i = j
    BY <2>3
  <2> QED
    BY <2>1, <2>2, <2>4
<1> QED
  BY <1>1, <1>2

-----------------------------------------------------------------------------
(***************************************************************************)
(* The arithmetic of the supplies library.                                 *)
(***************************************************************************)
\* An int stays an int, whatever is added to it.
LEMMA WrapRange ==
    ASSUME NEW n \in Int
    PROVE  Wrap(n) \in IntMin .. IntMax
<1> DEFINE m == 2 * (IntMax + 1)
<1>1. m \in Nat \ {0}
  BY IntMaxAssumption
<1>2. (n + IntMax + 1) % m \in 0 .. m - 1
  <2> HIDE DEF m
  <2> QED BY <1>1, IntMaxAssumption
<1> QED
  BY <1>2, IntMaxAssumption DEF Wrap, IntMin

\* The stock is never negative and never above INT_MAX.
LEMMA AddStockRange ==
    ASSUME NEW q \in 0 .. IntMax, NEW a \in Int
    PROVE  AddStock(q, a) \in 0 .. IntMax
<1>1. Wrap(q + a) \in IntMin .. IntMax
  BY WrapRange, IntMaxAssumption
<1> QED
  BY <1>1, IntMaxAssumption DEF AddStock, IntMin

\* Adding what fits adds it, exactly.
LEMMA AddStockExact ==
    ASSUME NEW q \in 0 .. IntMax, NEW a \in Int, q + a \in 0 .. IntMax
    PROVE  AddStock(q, a) = q + a
<1> DEFINE m == 2 * (IntMax + 1)
           x == q + a + IntMax + 1
<1>1. m \in Nat \ {0} /\ x \in 0 .. m - 1
  BY IntMaxAssumption
<1>2. x % m = x
  <2> HIDE DEF m, x
  <2> QED BY <1>1
<1>3. Wrap(q + a) = q + a
  BY <1>2, IntMaxAssumption DEF Wrap
<1> QED
  BY <1>3, IntMaxAssumption DEF AddStock

\* An update keeps every counter in range.
LEMMA UpdateKeepsStock ==
    ASSUME NEW stock \in Stocks, NEW update,
           \A i \in DOMAIN update : update[i] \in Int
    PROVE  UpdateSupplies(stock, update) \in Stocks
BY AddStockRange DEF UpdateSupplies, Stocks

-----------------------------------------------------------------------------
(***************************************************************************)
(* The inductive invariant.                                                *)
(***************************************************************************)
Owned(c) == \E f \in ClientFds : fd_owner[f] = c

\* A connection has one place, and has it exactly while it is not over.
Exclusive ==
    /\ \A f, g \in ClientFds :
          fd_owner[f] # NoClient /\ fd_owner[f] = fd_owner[g] => f = g
    /\ \A f \in ClientFds : fd_owner[f] \notin Listed(backlog)
    /\ NoDuplicates(backlog)
    /\ \A c \in Clients :
          link[c] \in {"none", "cut"} <=> ~Owned(c) /\ c \notin Listed(backlog)

\* What select() has reported and the scan has not reached yet holds.
Snapshot ==
    /\ \A f \in read_fds : f <= max_fd
    /\ PendingStillReady
    /\ pc = "recv_unix" => fd <= UnixFd /\ unix_conn # "none"

IInv == TypeOK /\ RecordsAgree /\ Exclusive /\ Snapshot

-----------------------------------------------------------------------------
(***************************************************************************)
(* What a handler knows when it is its descriptor's turn.                  *)
(***************************************************************************)

\* start_server opens its four descriptors before it accepts the first client, so
\* client descriptors have higher numbers.
LEMMA FdFacts ==
    /\ TcpFd = 3 /\ UdpFd = 4 /\ UnixFd = 5 /\ FifoFd = 6
    /\ MaxFd \in Nat /\ MaxFd >= 7
    /\ \A f \in ClientFds : f \in Nat /\ f >= 7 /\ f <= MaxFd
    /\ \A f \in ListenFds : f \in Nat /\ 3 <= f /\ f <= 6
    /\ ListenFds \cap ClientFds = {}
BY ServerAssumption DEF TcpFd, UdpFd, UnixFd, FifoFd, ClientFds, ListenFds

\* A listening descriptor whose turn it is has something for accept() or read().
LEMMA DueListen ==
    ASSUME IInv
    PROVE  /\ Due(TcpFd) => backlog # <<>>
           /\ Due(UdpFd) => udp_queue # <<>>
           /\ Due(UnixFd) => unix_conn # "none"
           /\ Due(FifoFd) => fifo # <<>>
<1>1. \A f : Due(f) => f \in ReadyFds /\ Ahead(f) /\ pc = "scan"
  BY DEF IInv, Snapshot, PendingStillReady, Due
<1>2. master_fds \cap ListenFds = {}
  BY FdFacts DEF IInv, TypeOK, WatchTypes
<1> QED
  BY <1>1, <1>2, FdFacts DEF ReadyFds, ListenFds

\* A client descriptor whose turn it is is open, and its recv() will not block.
LEMMA DueClient ==
    ASSUME IInv, NEW f \in ClientFds, Due(f)
    PROVE  /\ f \in master_fds
           /\ fd_owner[f] \in Clients
           /\ Readable(fd_owner[f])
           /\ fd <= f /\ f <= max_fd
<1>1. f \in ReadyFds /\ fd <= f /\ f <= max_fd
  BY DEF IInv, Snapshot, PendingStillReady, Due, Ahead
<1>2. f \notin ListenFds
  BY FdFacts
<1>3. f \in master_fds /\ Readable(fd_owner[f])
  BY <1>1, <1>2 DEF ReadyFds, ListenFds
<1>4. fd_owner[f] \in Clients
  BY <1>3 DEF IInv, TypeOK, WatchTypes, RecordsAgree
<1> QED
  BY <1>1, <1>3, <1>4

-----------------------------------------------------------------------------
(***************************************************************************)
(* The initial states.                                                     *)
(***************************************************************************)
\* start_server enters its loop with no client, empty lists and an empty stock.
LEMMA InitIInv == Init => IInv
<1> SUFFICES ASSUME Init PROVE IInv
  OBVIOUS
<1>1. TypeOK
  <2>1. LoopTypes
    BY FdFacts DEF Init, LoopTypes, InitialMaxFd
  <2>2. WatchTypes /\ ConnTypes /\ UdpTypes
    BY DEF Init, WatchTypes, ConnTypes, UdpTypes, Links
  <2>3. DataTypes
    BY IntMaxAssumption DEF Init, DataTypes, EmptyStock, Stocks
  <2>4. AlertTypes /\ PowerTypes
    BY DEF Init, AlertTypes, PowerTypes
  <2> QED
    BY <2>1, <2>2, <2>3, <2>4 DEF TypeOK
<1>2. Listed(<<>>) = {} /\ NoDuplicates(<<>>)
  BY DEF Listed, NoDuplicates
<1>3. RecordsAgree
  BY <1>2, MaxClientsAssumption DEF Init, RecordsAgree
<1>4. Exclusive
  BY <1>2, ServerAssumption DEF Init, Exclusive, Owned
<1>5. Snapshot
  BY DEF Init, Snapshot, PendingStillReady
<1> QED
  BY <1>1, <1>3, <1>4, <1>5 DEF IInv

-----------------------------------------------------------------------------
(***************************************************************************)
(* Types.  An action is seen through the groups of variables it changes.   *)
(***************************************************************************)

\* What an action leaves alone keeps its type.
LEMMA TypesKept ==
    ASSUME TypeOK
    PROVE  /\ UNCHANGED loopVars => LoopTypes'
           /\ UNCHANGED watchVars => WatchTypes'
           /\ UNCHANGED connVars => ConnTypes'
           /\ UNCHANGED udpVars => UdpTypes'
           /\ UNCHANGED dataVars => DataTypes'
           /\ UNCHANGED alertVars => AlertTypes'
           /\ UNCHANGED <<powerVars, sigints>> => PowerTypes'
<1>1. (UNCHANGED loopVars => LoopTypes') /\ (UNCHANGED watchVars => WatchTypes')
  BY DEF TypeOK, LoopTypes, WatchTypes, loopVars, watchVars
<1>2. (UNCHANGED connVars => ConnTypes') /\ (UNCHANGED udpVars => UdpTypes')
  BY DEF TypeOK, ConnTypes, UdpTypes, connVars, udpVars
<1>3. (UNCHANGED dataVars => DataTypes') /\ (UNCHANGED alertVars => AlertTypes')
  BY DEF TypeOK, DataTypes, AlertTypes, dataVars, alertVars
<1>4. UNCHANGED <<powerVars, sigints>> => PowerTypes'
  BY DEF TypeOK, PowerTypes, powerVars
<1> QED
  BY <1>1, <1>2, <1>3, <1>4

\* The clients, the UDP peers, the sensors and the power reporter put only
\* well-formed requests, datagrams, alerts and connections into the kernel.
LEMMA TypeEnvironment ==
    ASSUME IInv, Environment
    PROVE  TypeOK'
<1>1. TypeOK
  BY DEF IInv
<1>2. ASSUME NEW c \in Clients, Connect(c)
      PROVE  TypeOK'
  <2>1. WatchTypes'
    BY <1>1, <1>2 DEF Connect, TypeOK, WatchTypes
  <2>2. ConnTypes'
    BY <1>1, <1>2 DEF Connect, TypeOK, ConnTypes, Links
  <2> QED
    BY <1>1, <1>2, <2>1, <2>2, TypesKept DEF Connect, TypeOK
<1>3. ASSUME NEW c \in Clients, Ask(c)
      PROVE  TypeOK'
  <2>1. PICK m \in TcpKinds, u \in Updates \cup {NoUpdate} :
            inbox' = [inbox EXCEPT ![c] = Append(@, [msg |-> m, update |-> u])]
    BY <1>3, ServerAssumption DEF Ask, TcpKinds
  <2>2. [msg |-> m, update |-> u] \in Requests
    BY DEF Requests
  <2>3. inbox' \in [Clients -> Seq(Requests)]
    <3> HIDE DEF Requests
    <3> QED
      BY <1>1, <2>1, <2>2 DEF TypeOK, ConnTypes
  <2>4. ConnTypes'
    BY <1>1, <1>3, <2>3 DEF Ask, TypeOK, ConnTypes
  <2> QED
    BY <1>1, <1>3, <2>4, TypesKept DEF Ask, TypeOK
<1>4. ASSUME NEW c \in Clients, Leave(c)
      PROVE  TypeOK'
  <2>1. ConnTypes'
    BY <1>1, <1>4 DEF Leave, TypeOK, ConnTypes, Links, Notices
  <2> QED
    BY <1>1, <1>4, <2>1, TypesKept DEF Leave, TypeOK
<1>5. ASSUME NEW c \in Clients, ResetArrives(c)
      PROVE  TypeOK'
  <2>1. ConnTypes'
    BY <1>1, <1>5 DEF ResetArrives, TypeOK, ConnTypes, Links
  <2> QED
    BY <1>1, <1>5, <2>1, TypesKept DEF ResetArrives, TypeOK
<1>6. ASSUME NEW p \in UdpPeers, UdpSend(p)
      PROVE  TypeOK'
  <2>1. PICK m \in UdpKinds, u \in Updates \cup {NoUpdate} :
            udp_queue' = Append(udp_queue, [from |-> p, msg |-> m, update |-> u])
    BY <1>6, ServerAssumption DEF UdpSend
  <2>2. [from |-> p, msg |-> m, update |-> u] \in Datagrams
    BY DEF Datagrams
  <2>3. UdpTypes'
    <3> HIDE DEF Datagrams
    <3> QED
      BY <1>1, <1>6, <2>1, <2>2 DEF UdpSend, TypeOK, UdpTypes
  <2> QED
    BY <1>1, <1>6, <2>3, TypesKept DEF UdpSend, TypeOK
<1>7. ASSUME NEW e \in Sensors, RaiseAlert(e)
      PROVE  TypeOK'
  <2>1. AlertTypes'
    BY <1>1, <1>7, ServerAssumption DEF RaiseAlert, TypeOK, AlertTypes
  <2> QED
    BY <1>1, <1>7, <2>1, TypesKept DEF RaiseAlert, TypeOK
<1>8. CASE PowerConnect
  <2>1. PowerTypes'
    BY <1>1, <1>8 DEF PowerConnect, TypeOK, PowerTypes
  <2> QED
    BY <1>1, <1>8, <2>1, TypesKept DEF PowerConnect, TypeOK
<1>9. CASE PowerSend
  <2>1. PowerTypes'
    BY <1>1, <1>9 DEF PowerSend, TypeOK, PowerTypes
  <2> QED
    BY <1>1, <1>9, <2>1, TypesKept DEF PowerSend, TypeOK
<1>10. CASE Sigint
  <2>1. LoopTypes'
    <3>1. pc' \in {"test", "enter", "select", "scan", "recv_unix",
                   "stopped", "failed", "killed"} /\ running' \in BOOLEAN
      BY <1>1, <1>10 DEF Sigint, TypeOK, LoopTypes
    <3>2. fd' \in TcpFd .. MaxFd + 1
      BY <1>1, <1>10, FdFacts DEF Sigint, TypeOK, LoopTypes
    <3> QED
      BY <1>1, <1>10, <3>1, <3>2 DEF Sigint, TypeOK, LoopTypes
  <2>2. PowerTypes'
    BY <1>1, <1>10 DEF Sigint, TypeOK, PowerTypes
  <2> QED
    BY <1>1, <1>10, <2>1, <2>2, TypesKept DEF Sigint, TypeOK
<1> QED
  BY <1>2, <1>3, <1>4, <1>5, <1>6, <1>7, <1>8, <1>9, <1>10 DEF Environment

\* A send() never leads out of the states a connection can be in.
LEMMA SendTypes ==
    ASSUME NEW l \in Links
    PROVE  /\ AfterSend(l) \in Links
           /\ AfterSend(l) \in {"none", "cut"} <=> l \in {"none", "cut"}
<1>1. CASE l = "fin"
  BY <1>1 DEF AfterSend, Links
<1>2. CASE l = "rst"
  BY <1>2 DEF AfterSend, Links
<1>3. CASE l \notin {"fin", "rst"}
  BY <1>3 DEF AfterSend, Links
<1> QED
  BY <1>1, <1>2, <1>3

\* A handler that returns to the loop leaves the loop's own variables in range.
LEMMA VisitedTypes ==
    ASSUME TypeOK, NEW f \in ListenFds \cup ClientFds, Visited(f),
           max_fd' \in FifoFd .. MaxFd
    PROVE  LoopTypes'
<1>1. fd' \in TcpFd .. MaxFd + 1
  BY FdFacts DEF Visited
<1> QED
  BY <1>1 DEF Visited, TypeOK, LoopTypes

\* CloseConnection shortens the lists and frees the descriptor.
LEMMA CloseTypes ==
    ASSUME IInv, NEW f \in ClientFds, fd_owner[f] \in Clients,
           CloseConnection(f, fd_owner[f])
    PROVE  /\ master_fds' \subseteq ClientFds
           /\ tcp_clients' \in Seq(ClientFds)
           /\ fd_owner' \in [ClientFds -> Clients \cup {NoClient}]
           /\ link' \in [Clients -> Links]
           /\ inbox' \in [Clients -> Seq(Requests)]
<1>1. TypeOK /\ NoDuplicates(tcp_clients)
  BY DEF IInv, RecordsAgree
<1>2. tcp_clients' \in Seq(ClientFds)
  BY <1>1, RemoveTcpClientFacts DEF TypeOK, WatchTypes, CloseConnection
<1>3. link' \in [Clients -> Links]
  BY <1>1 DEF TypeOK, ConnTypes, Links, CloseConnection
<1>4. inbox' \in [Clients -> Seq(Requests)]
  <2> HIDE DEF Requests
  <2> QED
    BY <1>1 DEF TypeOK, ConnTypes, CloseConnection
<1> QED
  BY <1>1, <1>2, <1>3, <1>4 DEF TypeOK, WatchTypes, CloseConnection

\* The first request of a connection that has one is well-formed.
LEMMA RequestTypes ==
    ASSUME TypeOK, NEW c \in Clients, inbox[c] # <<>>
    PROVE  /\ Head(inbox[c]).msg \in TcpKinds
           /\ Head(inbox[c]).update \in Updates \cup {NoUpdate}
<1>1. inbox[c] \in Seq(Requests)
  BY DEF TypeOK, ConnTypes
<1>2. Head(inbox[c]) \in Requests
  <2> HIDE DEF Requests
  <2> QED
    BY <1>1
<1> QED
  BY <1>2 DEF Requests

\* Every amount an update carries is an integer.
LEMMA AmountTypes ==
    ASSUME NEW u \in Updates \cup {NoUpdate}
    PROVE  \A i \in DOMAIN u : u[i] \in Int
BY ServerAssumption DEF NoUpdate

\* A broadcast changes only how the connections stand and what they were told.
LEMMA BroadcastTypes ==
    ASSUME TypeOK, NEW notice \in Notices, SendToAllTcp(notice)
    PROVE  ConnTypes'
<1>1. \A c \in Clients : link[c] \in Links /\ AfterSend(link[c]) \in Links
  BY SendTypes DEF TypeOK, ConnTypes
<1>2. link' \in [Clients -> Links]
  BY <1>1 DEF SendToAllTcp
<1>3. sent' \in [Clients -> SUBSET Notices]
  BY DEF SendToAllTcp, TypeOK, ConnTypes
<1> QED
  BY <1>2, <1>3 DEF SendToAllTcp, TypeOK, ConnTypes

\* detect_entry names one of the four entries.
LEMMA DetectEntryType ==
    ASSUME NEW alerts
    PROVE  DetectEntry(alerts) \in Entries
BY DEF DetectEntry, Entries

\* The steps of the loop itself: it tests, sleeps, scans, and sleeps again.
LEMMA TypeLoop ==
    ASSUME IInv, TestRunning \/ CallSelect \/ SelectReturns \/ EndPass
    PROVE  TypeOK'
<1>1. TypeOK /\ ReadyFds \subseteq ListenFds \cup ClientFds
  BY DEF IInv, TypeOK, WatchTypes, ReadyFds
<1>2. CASE TestRunning
  <2>1. LoopTypes'
    BY <1>1, <1>2 DEF TestRunning, TypeOK, LoopTypes
  <2> QED
    BY <1>1, <1>2, <2>1, TypesKept DEF TestRunning, TypeOK
<1>3. CASE CallSelect
  <2>1. LoopTypes'
    BY <1>1, <1>3 DEF CallSelect, TypeOK, LoopTypes
  <2> QED
    BY <1>1, <1>3, <2>1, TypesKept DEF CallSelect, TypeOK
<1>4. CASE SelectReturns
  <2>1. LoopTypes'
    BY <1>1, <1>4, FdFacts DEF SelectReturns, FdIsset, TypeOK, LoopTypes
  <2> QED
    BY <1>1, <1>4, <2>1, TypesKept DEF SelectReturns, TypeOK
<1>5. CASE EndPass
  <2>1. LoopTypes'
    BY <1>1, <1>5, FdFacts DEF EndPass, TypeOK, LoopTypes
  <2> QED
    BY <1>1, <1>5, <2>1, TypesKept DEF EndPass, TypeOK
<1> QED
  BY <1>2, <1>3, <1>4, <1>5

\* The handlers of the four listening descriptors.
LEMMA TypeListeners ==
    ASSUME IInv,
           \/ AcceptTcp \/ HandleUdp \/ AcceptUnix \/ ReceiveUnix \/ CheckAlerts
           \/ KilledBySend \/ \E f \in ListenFds : NoDescriptor(f)
    PROVE  TypeOK'
<1>1. TypeOK /\ max_fd \in FifoFd .. MaxFd
  BY DEF IInv, TypeOK, LoopTypes
<1>2. TcpFd \in ListenFds /\ UdpFd \in ListenFds /\ UnixFd \in ListenFds
      /\ FifoFd \in ListenFds
  BY DEF ListenFds
<1>3. CASE AcceptTcp
  <2>1. backlog # <<>> /\ backlog \in Seq(Clients)
    BY <1>1, <1>3, DueListen DEF AcceptTcp, TypeOK, WatchTypes
  <2>2. Head(backlog) \in Clients /\ Tail(backlog) \in Seq(Clients)
    BY <2>1
  <2>3. PICK f \in ClientFds :
            /\ fd_owner' = [fd_owner EXCEPT ![f] = Head(backlog)]
            /\ tcp_clients' = AddTcpClient(f, tcp_clients)
            /\ master_fds' = master_fds \cup {f}
            /\ max_fd' = IF f > max_fd THEN f ELSE max_fd
    BY <1>3 DEF AcceptTcp
  <2>4. tcp_clients' \in Seq(ClientFds)
    BY <1>1, <2>3, AddTcpClientFacts DEF IInv, RecordsAgree, TypeOK, WatchTypes
  <2>5. WatchTypes'
    BY <1>1, <1>3, <2>2, <2>3, <2>4 DEF AcceptTcp, TypeOK, WatchTypes
  <2>6. max_fd' \in FifoFd .. MaxFd
    BY <1>1, <2>3, FdFacts
  <2>7. LoopTypes'
    BY <1>1, <1>2, <1>3, <2>6, VisitedTypes DEF AcceptTcp
  <2> QED
    BY <1>1, <1>3, <2>5, <2>7, TypesKept DEF AcceptTcp, TypeOK
<1>4. CASE HandleUdp
  <2> DEFINE d == Head(udp_queue)
  <2>1. udp_queue # <<>> /\ udp_queue \in Seq(Datagrams) /\ udp_clients \in Seq(UdpPeers)
    BY <1>1, <1>4, DueListen DEF HandleUdp, TypeOK, UdpTypes
  <2>2. d \in Datagrams /\ Tail(udp_queue) \in Seq(Datagrams)
    <3> HIDE DEF Datagrams
    <3> QED
      BY <2>1
  <2>3. d.from \in UdpPeers /\ d.update \in Updates \cup {NoUpdate}
    BY <2>2 DEF Datagrams
  <2>4. AddUdpClient(d.from, udp_clients) \in Seq(UdpPeers)
    BY <2>1, <2>3 DEF AddUdpClient
  <2>5. UdpTypes'
    <3>1. served' \subseteq UdpPeers
      BY <1>1, <1>4, <2>3 DEF HandleUdp, TypeOK, UdpTypes
    <3> QED
      BY <1>4, <2>1, <2>2, <2>4, <3>1 DEF HandleUdp, UdpTypes
  <2>6. UpdateSupplies(supplies, d.update) \in Stocks
    BY <1>1, <2>3, AmountTypes, UpdateKeepsStock DEF TypeOK, DataTypes
  <2>7. DataTypes'
    BY <1>1, <1>4, <2>6 DEF HandleUdp, TypeOK, DataTypes
  <2>8. LoopTypes'
    BY <1>1, <1>2, <1>4, VisitedTypes DEF HandleUdp
  <2> QED
    BY <1>1, <1>4, <2>5, <2>7, <2>8, TypesKept DEF HandleUdp, TypeOK
<1>5. CASE AcceptUnix
  <2>1. LoopTypes'
    BY <1>1, <1>5 DEF AcceptUnix, TypeOK, LoopTypes
  <2> QED
    BY <1>1, <1>5, <2>1, TypesKept DEF AcceptUnix, TypeOK
<1>6. CASE ReceiveUnix
  <2>1. ConnTypes'
    <3>1. CASE unix_conn = "sent"
      BY <1>1, <1>6, <3>1, BroadcastTypes DEF ReceiveUnix, Notices
    <3>2. CASE unix_conn # "sent"
      BY <1>1, <1>6, <3>2, TypesKept DEF ReceiveUnix
    <3> QED
      BY <3>1, <3>2
  <2>2. PowerTypes'
    BY <1>1, <1>6 DEF ReceiveUnix, TypeOK, PowerTypes
  <2>3. LoopTypes'
    BY <1>1, <1>2, <1>6, VisitedTypes DEF ReceiveUnix
  <2> QED
    BY <1>1, <1>6, <2>1, <2>2, <2>3, TypesKept DEF ReceiveUnix, TypeOK
<1>7. CASE CheckAlerts
  <2>1. ConnTypes'
    BY <1>1, <1>7, BroadcastTypes DEF CheckAlerts, Notices
  <2>2. AlertTypes'
    BY <1>1, <1>7, DetectEntryType DEF CheckAlerts, TypeOK, AlertTypes
  <2>3. DataTypes'
    BY <1>1, <1>7 DEF CheckAlerts, TypeOK, DataTypes
  <2>4. LoopTypes'
    BY <1>1, <1>2, <1>7, VisitedTypes DEF CheckAlerts
  <2> QED
    BY <1>1, <1>7, <2>1, <2>2, <2>3, <2>4, TypesKept DEF CheckAlerts, TypeOK
<1>8. CASE KilledBySend
  <2>1. LoopTypes'
    BY <1>1, <1>8 DEF KilledBySend, TypeOK, LoopTypes
  <2> QED
    BY <1>1, <1>8, <2>1, TypesKept DEF KilledBySend, TypeOK
<1>9. ASSUME NEW f \in ListenFds, NoDescriptor(f)
      PROVE  TypeOK'
  <2>1. LoopTypes'
    BY <1>1, <1>9, VisitedTypes DEF NoDescriptor
  <2> QED
    BY <1>1, <1>9, <2>1, TypesKept DEF NoDescriptor, TypeOK
<1> QED
  BY <1>3, <1>4, <1>5, <1>6, <1>7, <1>8, <1>9

\* handle_tcp_socket_activity: a connection is closed or a request is answered.
LEMMA TypeClients ==
    ASSUME IInv, NEW f \in ClientFds, HandleTcp(f)
    PROVE  TypeOK'
<1> DEFINE c == fd_owner[f]
<1>1. TypeOK /\ max_fd \in FifoFd .. MaxFd
  BY DEF IInv, TypeOK, LoopTypes
<1>2. Due(f) /\ Visited(f) /\ max_fd' = max_fd
  BY DEF HandleTcp, HangUp, Authenticate, Refuse, Answer, UpdateByTcp, Receive
<1>3. c \in Clients /\ link[c] \in Links
  BY <1>1, <1>2, DueClient DEF TypeOK, ConnTypes
<1>4. LoopTypes'
  BY <1>1, <1>2, VisitedTypes
<1>5. CASE HangUp(f)
  <2>1. WatchTypes'
    BY <1>1, <1>3, <1>5, CloseTypes DEF HangUp, TypeOK, WatchTypes
  <2>2. ConnTypes'
    <3> HIDE DEF c
    <3>1. sent' \in [Clients -> SUBSET Notices]
      BY <1>1, <1>3, <1>5 DEF HangUp, TypeOK, ConnTypes, c
    <3> QED
      BY <1>1, <1>3, <1>5, <3>1, CloseTypes DEF HangUp, TypeOK, ConnTypes, c
  <2> QED
    BY <1>1, <1>4, <1>5, <2>1, <2>2, TypesKept DEF HangUp, TypeOK
<1>6. CASE Refuse(f)
  <2>1. WatchTypes'
    BY <1>1, <1>3, <1>6, CloseTypes DEF Refuse, TypeOK, WatchTypes
  <2>2. ConnTypes'
    <3>1. sent' \in [Clients -> SUBSET Notices]
      BY <1>1, <1>3, <1>6 DEF Refuse, TypeOK, ConnTypes, Notices
    <3> QED
      BY <1>1, <1>3, <1>6, <3>1, CloseTypes DEF Refuse, TypeOK, ConnTypes
  <2> QED
    BY <1>1, <1>4, <1>6, <2>1, <2>2, TypesKept DEF Refuse, TypeOK
<1>7. CASE Authenticate(f)
  <2>1. link' \in [Clients -> Links]
    BY <1>1, <1>3, <1>7, SendTypes DEF Authenticate, TypeOK, ConnTypes
  <2>2. ConnTypes'
    BY <1>1, <1>3, <1>7, <2>1 DEF Authenticate, TypeOK, ConnTypes, Notices
  <2> QED
    BY <1>1, <1>4, <1>7, <2>2, TypesKept DEF Authenticate, TypeOK
<1>8. CASE Answer(f)
  <2>1. link' \in [Clients -> Links]
    BY <1>1, <1>3, <1>8, SendTypes DEF Answer, TypeOK, ConnTypes
  <2>2. ConnTypes'
    BY <1>1, <1>3, <1>8, <2>1 DEF Answer, TypeOK, ConnTypes
  <2>3. DataTypes'
    BY <1>1, <1>8 DEF Answer, TypeOK, DataTypes
  <2> QED
    BY <1>1, <1>4, <1>8, <2>2, <2>3, TypesKept DEF Answer, TypeOK
<1>9. CASE UpdateByTcp(f)
  <2>1. inbox[c] # <<>>
    BY <1>9 DEF UpdateByTcp, Receive, ConnectionOver
  <2>2. UpdateSupplies(supplies, Head(inbox[c]).update) \in Stocks
    BY <1>1, <1>3, <2>1, RequestTypes, AmountTypes, UpdateKeepsStock
       DEF TypeOK, DataTypes
  <2>3. DataTypes'
    BY <1>1, <1>9, <2>2 DEF UpdateByTcp, TypeOK, DataTypes
  <2>4. ConnTypes'
    BY <1>1, <1>3, <1>9 DEF UpdateByTcp, TypeOK, ConnTypes
  <2> QED
    BY <1>1, <1>4, <1>9, <2>3, <2>4, TypesKept DEF UpdateByTcp, TypeOK
<1> QED
  BY <1>5, <1>6, <1>7, <1>8, <1>9 DEF HandleTcp

\* No step of the server or of its peers breaks a type.
LEMMA TypeStep == IInv /\ [Next]_vars => TypeOK'
<1> SUFFICES ASSUME IInv, [Next]_vars PROVE TypeOK'
  OBVIOUS
<1>1. CASE Environment
  BY <1>1, TypeEnvironment
<1>2. CASE TestRunning \/ CallSelect \/ SelectReturns \/ EndPass
  BY <1>2, TypeLoop
<1>3. CASE \/ AcceptTcp \/ HandleUdp \/ AcceptUnix \/ ReceiveUnix \/ CheckAlerts
           \/ KilledBySend \/ \E f \in ListenFds : NoDescriptor(f)
  BY <1>3, TypeListeners
<1>4. CASE \E f \in ClientFds : HandleTcp(f)
  BY <1>4, TypeClients
<1>5. CASE UNCHANGED vars
  BY <1>5, TypesKept DEF IInv, TypeOK, vars
<1> QED
  BY <1>1, <1>2, <1>3, <1>4, <1>5 DEF Next, ServerStep

-----------------------------------------------------------------------------
(***************************************************************************)
(* The records of the connections.  Only accept and close change them.     *)
(***************************************************************************)

\* What closing a connection does, whichever handler decides on it.
Closes(f) ==
    /\ Due(f) /\ Visited(f)
    /\ CloseConnection(f, fd_owner[f])
    /\ UNCHANGED <<max_fd, backlog, udp_queue, unix_conn, fifo>>

\* Every other step leaves the three records and the numbers they use alone.
LEMMA RecordsChange ==
    ASSUME [Next]_vars
    PROVE  \/ UNCHANGED <<master_fds, max_fd, tcp_clients, fd_owner>>
           \/ AcceptTcp
           \/ \E f \in ClientFds : Closes(f)
<1>1. CASE Environment
  BY <1>1 DEF Environment, Connect, Ask, Leave, ResetArrives, UdpSend, RaiseAlert,
     PowerConnect, PowerSend, Sigint, loopVars, watchVars
<1>2. CASE TestRunning \/ CallSelect \/ SelectReturns \/ EndPass
  BY <1>2 DEF TestRunning, CallSelect, SelectReturns, EndPass, watchVars
<1>3. CASE \/ HandleUdp \/ AcceptUnix \/ ReceiveUnix \/ CheckAlerts
           \/ KilledBySend \/ \E f \in ListenFds : NoDescriptor(f)
  BY <1>3 DEF HandleUdp, AcceptUnix, ReceiveUnix, CheckAlerts, KilledBySend,
     NoDescriptor, watchVars
<1>4. ASSUME NEW f \in ClientFds, HandleTcp(f)
      PROVE  \/ UNCHANGED <<master_fds, max_fd, tcp_clients, fd_owner>>
             \/ Closes(f)
  <2>1. CASE HangUp(f) \/ Refuse(f)
    BY <2>1 DEF HangUp, Refuse, Receive, Closes, udpVars, powerVars, alertVars
  <2>2. CASE Authenticate(f) \/ Answer(f) \/ UpdateByTcp(f)
    BY <2>2 DEF Authenticate, Answer, UpdateByTcp, watchVars
  <2> QED
    BY <1>4, <2>1, <2>2 DEF HandleTcp
<1>5. CASE UNCHANGED vars
  BY <1>5 DEF vars, loopVars, watchVars
<1> QED
  BY <1>1, <1>2, <1>3, <1>4, <1>5 DEF Next, ServerStep

\* accept_tcp_connection takes the oldest waiting connection and a free number.
LEMMA AcceptFacts ==
    ASSUME IInv, AcceptTcp
    PROVE  \E f \in ClientFds :
              /\ fd_owner[f] = NoClient /\ f \notin master_fds
              /\ backlog # <<>> /\ Head(backlog) \in Clients
              /\ fd_owner' = [fd_owner EXCEPT ![f] = Head(backlog)]
              /\ tcp_clients' = AddTcpClient(f, tcp_clients)
              /\ master_fds' = master_fds \cup {f}
              /\ max_fd' = IF f > max_fd THEN f ELSE max_fd
<1>1. PICK f \in ClientFds :
         /\ LowestFree(f)
         /\ fd_owner' = [fd_owner EXCEPT ![f] = Head(backlog)]
         /\ tcp_clients' = AddTcpClient(f, tcp_clients)
         /\ master_fds' = master_fds \cup {f}
         /\ max_fd' = IF f > max_fd THEN f ELSE max_fd
  BY DEF AcceptTcp
<1>2. fd_owner[f] = NoClient /\ f \notin master_fds
  BY <1>1 DEF LowestFree, FreeFds, IInv, RecordsAgree
<1>3. backlog # <<>> /\ backlog \in Seq(Clients)
  BY DueListen DEF AcceptTcp, IInv, TypeOK, WatchTypes
<1>4. Head(backlog) \in Clients
  BY <1>3
<1> QED
  BY <1>1, <1>2, <1>3, <1>4

\* master_fds, tcp_clients and the open descriptors go on agreeing.
LEMMA RecordsStep == IInv /\ [Next]_vars => RecordsAgree'
<1> SUFFICES ASSUME IInv, [Next]_vars PROVE RecordsAgree'
  OBVIOUS
<1>0. /\ fd_owner \in [ClientFds -> Clients \cup {NoClient}]
      /\ tcp_clients \in Seq(ClientFds) /\ master_fds \subseteq ClientFds
      /\ RecordsAgree /\ max_fd \in Nat
  BY FdFacts DEF IInv, TypeOK, WatchTypes, LoopTypes
<1>1. CASE UNCHANGED <<master_fds, max_fd, tcp_clients, fd_owner>>
  BY <1>0, <1>1 DEF RecordsAgree
<1>2. CASE AcceptTcp
  <2>1. PICK f \in ClientFds :
            /\ fd_owner[f] = NoClient /\ f \notin master_fds
            /\ backlog # <<>> /\ Head(backlog) \in Clients
            /\ fd_owner' = [fd_owner EXCEPT ![f] = Head(backlog)]
            /\ tcp_clients' = AddTcpClient(f, tcp_clients)
            /\ master_fds' = master_fds \cup {f}
            /\ max_fd' = IF f > max_fd THEN f ELSE max_fd
    BY <1>2, AcceptFacts
  <2>2. master_fds' = {g \in ClientFds : fd_owner'[g] # NoClient}
    BY <1>0, <2>1, ServerAssumption DEF RecordsAgree
  <2>3. \A g \in master_fds' : g <= max_fd'
    BY <1>0, <2>1, FdFacts DEF RecordsAgree
  <2>4. /\ Listed(tcp_clients') \subseteq Listed(tcp_clients) \cup {f}
        /\ NoDuplicates(tcp_clients') /\ Len(tcp_clients') <= MaxClients
    BY <1>0, <2>1, AddTcpClientFacts DEF RecordsAgree
  <2> QED
    BY <1>0, <2>1, <2>2, <2>3, <2>4 DEF RecordsAgree
<1>3. ASSUME NEW f \in ClientFds, Closes(f)
      PROVE  RecordsAgree'
  <2>1. /\ fd_owner' = [fd_owner EXCEPT ![f] = NoClient]
        /\ master_fds' = master_fds \ {f} /\ max_fd' = max_fd
        /\ tcp_clients' = RemoveTcpClient(f, tcp_clients)
    BY <1>3 DEF Closes, CloseConnection
  <2>2. master_fds' = {g \in ClientFds : fd_owner'[g] # NoClient}
    BY <1>0, <2>1 DEF RecordsAgree
  <2>3. /\ Listed(tcp_clients') = Listed(tcp_clients) \ {f}
        /\ NoDuplicates(tcp_clients') /\ Len(tcp_clients') <= Len(tcp_clients)
        /\ tcp_clients' \in Seq(ClientFds)
    BY <1>0, <2>1, RemoveTcpClientFacts DEF RecordsAgree
  <2>4. Len(tcp_clients') <= MaxClients
    BY <1>0, <2>3, MaxClientsAssumption DEF RecordsAgree
  <2> QED
    BY <1>0, <2>1, <2>2, <2>3, <2>4 DEF RecordsAgree
<1> QED
  BY <1>1, <1>2, <1>3, RecordsChange

-----------------------------------------------------------------------------
(***************************************************************************)
(* One place for every connection.                                         *)
(***************************************************************************)

Over == {"none", "cut"}

\* Only connecting, accepting and closing move a connection or end it.
LEMMA PlacesChange ==
    ASSUME IInv, [Next]_vars
    PROVE  \/ /\ UNCHANGED <<fd_owner, backlog>>
              /\ \A c \in Clients : link'[c] \in Over <=> link[c] \in Over
           \/ \E c \in Clients : Connect(c)
           \/ AcceptTcp
           \/ \E f \in ClientFds : Closes(f)
<1>1. link \in [Clients -> Links]
  BY DEF IInv, TypeOK, ConnTypes
<1>2. \A c \in Clients : AfterSend(link[c]) \in Over <=> link[c] \in Over
  BY <1>1, SendTypes DEF Over
<1>3. CASE Environment
  <2>1. ASSUME NEW c \in Clients, Leave(c) \/ ResetArrives(c)
        PROVE  \A d \in Clients : link'[d] \in Over <=> link[d] \in Over
    BY <1>1, <2>1 DEF Leave, ResetArrives, Over
  <2> QED
    BY <1>3, <2>1 DEF Environment, Ask, Leave, ResetArrives, UdpSend, RaiseAlert,
       PowerConnect, PowerSend, Sigint, watchVars, connVars
<1>4. CASE TestRunning \/ CallSelect \/ SelectReturns \/ EndPass
  BY <1>4 DEF TestRunning, CallSelect, SelectReturns, EndPass, watchVars, connVars
<1>5. CASE \/ HandleUdp \/ AcceptUnix \/ KilledBySend
           \/ \E f \in ListenFds : NoDescriptor(f)
  BY <1>5 DEF HandleUdp, AcceptUnix, KilledBySend, NoDescriptor, watchVars, connVars
<1>6. CASE ReceiveUnix \/ CheckAlerts
  <2>1. link' = link \/ \E notice \in Notices : SendToAllTcp(notice)
    BY <1>6 DEF ReceiveUnix, CheckAlerts, Notices, connVars
  <2>2. \A c \in Clients : link'[c] \in Over <=> link[c] \in Over
    BY <1>2, <2>1 DEF SendToAllTcp
  <2> QED
    BY <1>6, <2>2 DEF ReceiveUnix, CheckAlerts, watchVars
<1>7. ASSUME NEW f \in ClientFds, HandleTcp(f)
      PROVE  \/ /\ UNCHANGED <<fd_owner, backlog>>
                /\ \A c \in Clients : link'[c] \in Over <=> link[c] \in Over
             \/ Closes(f)
  <2>1. CASE HangUp(f) \/ Refuse(f)
    BY <2>1 DEF HangUp, Refuse, Receive, Closes, udpVars, powerVars, alertVars
  <2>2. CASE Authenticate(f) \/ Answer(f) \/ UpdateByTcp(f)
    <3>1. UNCHANGED <<fd_owner, backlog>>
      BY <2>2 DEF Authenticate, Answer, UpdateByTcp, watchVars
    <3>2. \/ link' = link
          \/ link' = [link EXCEPT ![fd_owner[f]] = AfterSend(@)]
      BY <1>1, <2>2 DEF Authenticate, Answer, UpdateByTcp
    <3> QED
      BY <1>1, <1>2, <3>1, <3>2
  <2> QED
    BY <1>7, <2>1, <2>2 DEF HandleTcp
<1>8. CASE UNCHANGED vars
  BY <1>8 DEF vars, watchVars, connVars
<1> QED
  BY <1>3, <1>4, <1>5, <1>6, <1>7, <1>8 DEF Next, ServerStep

\* accept, close and the reuse of descriptor numbers never give a connection a
\* second place.
LEMMA ExclusiveStep == IInv /\ [Next]_vars => Exclusive'
<1> SUFFICES ASSUME IInv, [Next]_vars PROVE Exclusive'
  OBVIOUS
<1>0. /\ fd_owner \in [ClientFds -> Clients \cup {NoClient}]
      /\ backlog \in Seq(Clients) /\ link \in [Clients -> Links]
      /\ Exclusive /\ NoClient \notin Clients
  BY ServerAssumption DEF IInv, TypeOK, WatchTypes, ConnTypes
<1>1. CASE /\ UNCHANGED <<fd_owner, backlog>>
           /\ \A c \in Clients : link'[c] \in Over <=> link[c] \in Over
  BY <1>0, <1>1 DEF Exclusive, Owned, Over
<1>2. ASSUME NEW c \in Clients, Connect(c)
      PROVE  Exclusive'
  <2>1. /\ fd_owner' = fd_owner /\ backlog' = Append(backlog, c)
        /\ link' = [link EXCEPT ![c] = "open"] /\ link[c] = "none"
    BY <1>2 DEF Connect
  <2>2. ~Owned(c) /\ c \notin Listed(backlog)
    BY <1>0, <2>1 DEF Exclusive
  <2>3. Listed(backlog') = Listed(backlog) \cup {c} /\ NoDuplicates(backlog')
    BY <1>0, <2>1, <2>2, ListedAppend, AppendNoDuplicates DEF Exclusive
  <2> QED
    BY <1>0, <2>1, <2>2, <2>3 DEF Exclusive, Owned
<1>3. CASE AcceptTcp
  <2>1. PICK f \in ClientFds :
            /\ fd_owner[f] = NoClient
            /\ backlog # <<>> /\ Head(backlog) \in Clients
            /\ fd_owner' = [fd_owner EXCEPT ![f] = Head(backlog)]
    BY <1>3, AcceptFacts
  <2>2. backlog' = Tail(backlog) /\ link' = link
    BY <1>3 DEF AcceptTcp, connVars
  <2>3. /\ Listed(backlog) = Listed(backlog') \cup {Head(backlog)}
        /\ NoDuplicates(backlog') /\ Head(backlog) \notin Listed(backlog')
    BY <1>0, <2>1, <2>2, ListedTail, TailNoDuplicates DEF Exclusive
  <2>4. \A c \in Clients : Owned(c)' <=> Owned(c) \/ c = Head(backlog)
    BY <1>0, <2>1 DEF Owned
  <2>5. ~Owned(Head(backlog))
    BY <1>0, <2>1, <2>3 DEF Exclusive, Owned
  <2>6. \A g, h \in ClientFds :
            fd_owner'[g] # NoClient /\ fd_owner'[g] = fd_owner'[h] => g = h
    BY <1>0, <2>1, <2>5 DEF Exclusive, Owned
  <2>7. \A g \in ClientFds : fd_owner'[g] \notin Listed(backlog')
    BY <1>0, <2>1, <2>3 DEF Exclusive
  <2>8. \A c \in Clients :
            link'[c] \in {"none", "cut"} <=> ~Owned(c)' /\ c \notin Listed(backlog')
    BY <1>0, <2>2, <2>3, <2>4 DEF Exclusive
  <2> QED
    BY <2>3, <2>6, <2>7, <2>8 DEF Exclusive
<1>4. ASSUME NEW f \in ClientFds, Closes(f)
      PROVE  Exclusive'
  <2> DEFINE c == fd_owner[f]
  <2>1. /\ fd_owner' = [fd_owner EXCEPT ![f] = NoClient] /\ backlog' = backlog
        /\ link' = [link EXCEPT ![c] = IF @ = "open" THEN "cut" ELSE "none"]
    BY <1>4 DEF Closes, CloseConnection
  <2>2. c \in Clients
    BY <1>4, DueClient DEF Closes
  <2>3. \A d \in Clients : Owned(d)' <=> Owned(d) /\ d # c
    BY <1>0, <2>1, <2>2 DEF Exclusive, Owned
  <2>4. NoClient \notin Listed(backlog)
    BY <1>0 DEF Listed
  <2>5. \A g, h \in ClientFds :
            fd_owner'[g] # NoClient /\ fd_owner'[g] = fd_owner'[h] => g = h
    BY <1>0, <2>1 DEF Exclusive
  <2>6. \A g \in ClientFds : fd_owner'[g] \notin Listed(backlog')
    BY <1>0, <2>1, <2>4 DEF Exclusive
  <2>7. \A d \in Clients :
            link'[d] \in {"none", "cut"} <=> ~Owned(d)' /\ d \notin Listed(backlog')
    BY <1>0, <2>1, <2>2, <2>3 DEF Exclusive
  <2> QED
    BY <1>0, <2>1, <2>5, <2>6, <2>7 DEF Exclusive
<1> QED
  BY <1>1, <1>2, <1>3, <1>4, PlacesChange

-----------------------------------------------------------------------------
(***************************************************************************)
(* What select() has reported stays true until its turn.                   *)
(***************************************************************************)

\* What has just been queued is there.
LEMMA AppendNotEmpty ==
    ASSUME NEW S, NEW list \in Seq(S), NEW x
    PROVE  Append(list, x) # <<>>
<1>1. list \in Seq(S \cup {x})
  OBVIOUS
<1>2. Len(Append(list, x)) = Len(list) + 1 /\ Len(list) \in Nat
  BY <1>1
<1> QED
  BY <1>2

\* Nobody but the server empties a queue, and nothing makes recv() block again
\* on a connection that others may touch.
LEMMA EnvironmentKeepsReady ==
    ASSUME IInv, Environment, ~Sigint
    PROVE  ReadyFds \subseteq ReadyFds' /\ UNCHANGED <<pc, fd, read_fds, max_fd>>
<1>0. /\ fd_owner \in [ClientFds -> Clients \cup {NoClient}]
      /\ link \in [Clients -> Links] /\ inbox \in [Clients -> Seq(Requests)]
      /\ backlog \in Seq(Clients) /\ udp_queue \in Seq(Datagrams)
      /\ fifo \in Seq(Entries)
      /\ \A f \in master_fds : f \in ClientFds /\ fd_owner[f] \in Clients
  BY DEF IInv, TypeOK, WatchTypes, ConnTypes, UdpTypes, AlertTypes, RecordsAgree
<1> HIDE DEF Requests, Datagrams
<1>1. UNCHANGED <<pc, fd, read_fds, max_fd, master_fds, fd_owner>>
  BY DEF Environment, Connect, Ask, Leave, ResetArrives, UdpSend, RaiseAlert,
     PowerConnect, PowerSend, loopVars, watchVars
<1>2. ASSUME NEW c \in Clients, Connect(c)
      PROVE  ReadyFds \subseteq ReadyFds'
  <2>1. \A d \in Clients : Readable(d) => Readable(d)'
    BY <1>0, <1>2 DEF Connect, Readable
  <2>2. backlog' = Append(backlog, c) /\ UNCHANGED <<udp_queue, unix_conn, fifo>>
    BY <1>2 DEF Connect, udpVars, powerVars, alertVars
  <2>3. backlog' # <<>>
    <3>1. backlog \in Seq(Clients) /\ backlog' = Append(backlog, c)
      BY <1>0, <2>2
    <3>2. Len(backlog') = Len(backlog) + 1 /\ Len(backlog) \in Nat
      BY ONLY <3>1
    <3>3. Len(backlog') # 0
      BY ONLY <3>2
    <3> QED
      BY ONLY <3>3
  <2> QED
    BY <1>0, <1>1, <2>1, <2>2, <2>3 DEF ReadyFds
<1>3. ASSUME NEW c \in Clients, Ask(c)
      PROVE  ReadyFds \subseteq ReadyFds'
  <2>1. PICK r : inbox' = [inbox EXCEPT ![c] = Append(@, r)]
    BY <1>3 DEF Ask
  <2>2. \A d \in Clients : inbox'[d] = inbox[d] \/ inbox'[d] = Append(inbox[d], r)
    BY <1>0, <2>1
  <2>3. \A d \in Clients : Append(inbox[d], r) # <<>>
    BY <1>0, AppendNotEmpty
  <2>4. \A d \in Clients : Readable(d) => Readable(d)'
    BY <1>3, <2>2, <2>3 DEF Ask, Readable
  <2>5. UNCHANGED <<backlog, udp_queue, unix_conn, fifo>>
    BY <1>3 DEF Ask, watchVars, udpVars, powerVars, alertVars
  <2> QED
    BY <1>0, <1>1, <2>4, <2>5 DEF ReadyFds
<1>4. ASSUME NEW c \in Clients, Leave(c) \/ ResetArrives(c)
      PROVE  ReadyFds \subseteq ReadyFds'
  <2>1. \A d \in Clients : Readable(d) => Readable(d)'
    BY <1>0, <1>4 DEF Leave, ResetArrives, Readable
  <2>2. UNCHANGED <<backlog, udp_queue, unix_conn, fifo>>
    BY <1>4 DEF Leave, ResetArrives, watchVars, udpVars, powerVars, alertVars
  <2> QED
    BY <1>0, <1>1, <2>1, <2>2 DEF ReadyFds
<1>5. ASSUME NEW p \in UdpPeers, UdpSend(p)
      PROVE  ReadyFds \subseteq ReadyFds'
  <2>1. PICK d : udp_queue' = Append(udp_queue, d)
    BY <1>5 DEF UdpSend
  <2>2. udp_queue' # <<>>
    BY <1>0, <2>1, AppendNotEmpty
  <2>3. UNCHANGED <<backlog, unix_conn, fifo, link, inbox>>
    BY <1>5 DEF UdpSend, watchVars, connVars, powerVars, alertVars
  <2> QED
    BY <1>1, <2>2, <2>3 DEF ReadyFds, Readable
<1>6. ASSUME NEW e \in Sensors, RaiseAlert(e)
      PROVE  ReadyFds \subseteq ReadyFds'
  <2>1. fifo' = Append(fifo, e)
    BY <1>6 DEF RaiseAlert
  <2>2. fifo' # <<>>
    BY <1>0, <2>1, AppendNotEmpty
  <2>3. UNCHANGED <<backlog, unix_conn, udp_queue, link, inbox>>
    BY <1>6 DEF RaiseAlert, watchVars, connVars, powerVars, udpVars
  <2> QED
    BY <1>1, <2>2, <2>3 DEF ReadyFds, Readable
<1>7. CASE PowerConnect \/ PowerSend
  <2>1. unix_conn' # "none" /\ UNCHANGED <<backlog, fifo, udp_queue, link, inbox>>
    BY <1>7 DEF PowerConnect, PowerSend, watchVars, connVars, alertVars, udpVars
  <2> QED
    BY <1>1, <2>1 DEF ReadyFds, Readable
<1> QED
  BY <1>1, <1>2, <1>3, <1>4, <1>5, <1>6, <1>7 DEF Environment

\* A handler that has dealt with f and disturbed no other bit keeps Snapshot.
LEMMA SnapshotVisited ==
    ASSUME IInv, NEW f \in ListenFds \cup ClientFds, fd <= f, Visited(f),
           pc \in {"scan", "recv_unix"},
           max_fd' \in Nat, max_fd <= max_fd',
           \A g \in ReadyFds : g # f => g \in ReadyFds'
    PROVE  Snapshot'
<1>0. /\ pc' = "scan" /\ fd' = f + 1 /\ read_fds' = read_fds
      /\ f \in Nat /\ fd \in Nat /\ max_fd \in Nat
      /\ read_fds \subseteq ListenFds \cup ClientFds
  BY FdFacts DEF Visited, IInv, TypeOK, LoopTypes
<1>1. \A g \in read_fds : g \in Nat /\ g <= max_fd
  BY <1>0, FdFacts DEF IInv, Snapshot
<1>2. \A g \in read_fds : Ahead(g)' => Ahead(g) /\ g # f
  BY <1>0, <1>1 DEF Ahead
<1>3. \A g \in read_fds : Ahead(g) => g \in ReadyFds
  BY DEF IInv, Snapshot, PendingStillReady
<1>4. PendingStillReady'
  BY <1>0, <1>2, <1>3 DEF PendingStillReady
<1>5. \A g \in read_fds' : g <= max_fd'
  BY <1>0, <1>1
<1> QED
  BY <1>0, <1>4, <1>5 DEF Snapshot

\* A write leaves what recv() would return as it is.
LEMMA SendReadable ==
    ASSUME NEW l \in Links, l \in {"fin", "provoked", "rst", "reset"}
    PROVE  AfterSend(l) \in {"fin", "provoked", "rst", "reset"}
<1>1. CASE l = "fin"
  BY <1>1 DEF AfterSend
<1>2. CASE l = "rst"
  BY <1>2 DEF AfterSend
<1>3. CASE l \in {"provoked", "reset"}
  BY <1>3 DEF AfterSend
<1> QED
  BY <1>1, <1>2, <1>3

\* The handlers of the listening descriptors empty only their own queue, and a
\* broadcast reads nothing.
LEMMA SnapshotListeners ==
    ASSUME IInv,
           \/ AcceptTcp \/ HandleUdp \/ AcceptUnix \/ ReceiveUnix \/ CheckAlerts
           \/ KilledBySend \/ \E f \in ListenFds : NoDescriptor(f)
    PROVE  Snapshot'
<1>0. /\ fd_owner \in [ClientFds -> Clients \cup {NoClient}]
      /\ link \in [Clients -> Links]
      /\ max_fd \in Nat /\ fd \in Nat /\ Snapshot
      /\ \A f \in master_fds : f \in ClientFds /\ fd_owner[f] \in Clients
      /\ master_fds \cap ListenFds = {}
  BY FdFacts DEF IInv, TypeOK, LoopTypes, WatchTypes, ConnTypes, RecordsAgree
<1>1. /\ \A f : Due(f) => pc = "scan" /\ fd <= f
      /\ TcpFd \in ListenFds /\ UdpFd \in ListenFds /\ UnixFd \in ListenFds
      /\ FifoFd \in ListenFds
  BY DEF Due, Ahead, ListenFds
<1>2. ASSUME NEW notice, SendToAllTcp(notice)
      PROVE  \A c \in Clients : Readable(c) => Readable(c)'
  <2>1. \A c \in Clients : link'[c] = link[c] \/ link'[c] = AfterSend(link[c])
    BY <1>2 DEF SendToAllTcp
  <2> QED
    BY <1>0, <1>2, <2>1, SendReadable DEF SendToAllTcp, Readable
<1>3. CASE AcceptTcp
  <2>1. PICK f \in ClientFds :
            /\ f \notin master_fds
            /\ fd_owner' = [fd_owner EXCEPT ![f] = Head(backlog)]
            /\ master_fds' = master_fds \cup {f}
            /\ max_fd' = IF f > max_fd THEN f ELSE max_fd
    BY <1>3, AcceptFacts
  <2>2. UNCHANGED <<link, inbox, udp_queue, unix_conn, fifo>>
    BY <1>3 DEF AcceptTcp, connVars, udpVars, powerVars, alertVars
  <2>3. max_fd' \in Nat /\ max_fd <= max_fd'
    BY <1>0, <2>1, FdFacts
  <2>4. \A g \in ReadyFds : g # TcpFd => g \in ReadyFds'
    <3> TAKE g \in ReadyFds
    <3> HAVE g # TcpFd
    <3>1. g \in Nat /\ g <= max_fd'
      BY <1>0, <2>3, FdFacts DEF ReadyFds
    <3>2. g \in master_fds => fd_owner'[g] = fd_owner[g]
      BY <1>0, <2>1
    <3> QED
      BY <2>1, <2>2, <3>1, <3>2 DEF ReadyFds, Readable
  <2> QED
    BY <1>1, <1>3, <2>3, <2>4, SnapshotVisited DEF AcceptTcp
<1>4. CASE HandleUdp
  <2>1. /\ UNCHANGED <<max_fd, master_fds, fd_owner, backlog, link, inbox, unix_conn, fifo>>
        /\ Due(UdpFd) /\ Visited(UdpFd)
    BY <1>4 DEF HandleUdp, watchVars, connVars, powerVars, alertVars
  <2>2. \A g \in ReadyFds : g # UdpFd => g \in ReadyFds'
    BY <2>1 DEF ReadyFds, Readable
  <2> QED
    BY <1>0, <1>1, <2>1, <2>2, SnapshotVisited
<1>5. CASE AcceptUnix
  <2>1. /\ UNCHANGED <<fd, read_fds, max_fd, master_fds, fd_owner, backlog, link,
                       inbox, unix_conn, udp_queue, fifo>>
        /\ Due(UnixFd)
    BY <1>5 DEF AcceptUnix, watchVars, connVars, powerVars, alertVars, udpVars
  <2>2. UNCHANGED ReadyFds
    BY <2>1 DEF ReadyFds, Readable
  <2>3. unix_conn # "none"
    BY <2>1, DueListen
  <2> QED
    BY <1>0, <1>1, <2>1, <2>2, <2>3 DEF Snapshot, PendingStillReady, Ahead
<1>6. CASE ReceiveUnix
  <2>1. /\ UNCHANGED <<max_fd, master_fds, fd_owner, backlog, udp_queue, fifo>>
        /\ Visited(UnixFd) /\ pc = "recv_unix" /\ fd <= UnixFd
    BY <1>0, <1>6 DEF ReceiveUnix, watchVars, udpVars, alertVars, Snapshot
  <2>2. \A c \in Clients : Readable(c) => Readable(c)'
    <3>1. CASE unix_conn = "sent"
      BY <1>2, <1>6, <3>1 DEF ReceiveUnix
    <3>2. CASE unix_conn # "sent"
      BY <1>6, <3>2 DEF ReceiveUnix, connVars, Readable
    <3> QED
      BY <3>1, <3>2
  <2>3. \A g \in ReadyFds : g # UnixFd => g \in ReadyFds'
    BY <1>0, <2>1, <2>2 DEF ReadyFds
  <2> QED
    BY <1>0, <1>1, <2>1, <2>3, SnapshotVisited
<1>7. CASE CheckAlerts
  <2>1. /\ UNCHANGED <<max_fd, master_fds, fd_owner, backlog, udp_queue, unix_conn>>
        /\ Due(FifoFd) /\ Visited(FifoFd) /\ SendToAllTcp("alert")
    BY <1>7 DEF CheckAlerts, watchVars, udpVars, powerVars
  <2>2. \A c \in Clients : Readable(c) => Readable(c)'
    BY <1>2, <2>1
  <2>3. \A g \in ReadyFds : g # FifoFd => g \in ReadyFds'
    BY <1>0, <2>1, <2>2 DEF ReadyFds
  <2> QED
    BY <1>0, <1>1, <2>1, <2>3, SnapshotVisited
<1>8. CASE KilledBySend
  BY <1>0, <1>8 DEF KilledBySend, Snapshot, PendingStillReady
<1>9. ASSUME NEW f \in ListenFds, NoDescriptor(f)
      PROVE  Snapshot'
  <2>1. /\ UNCHANGED <<max_fd, master_fds, fd_owner, backlog, link, inbox,
                       udp_queue, unix_conn, fifo>>
        /\ Due(f) /\ Visited(f)
    BY <1>9 DEF NoDescriptor, watchVars, connVars, udpVars, powerVars, alertVars
  <2>2. UNCHANGED ReadyFds
    BY <2>1 DEF ReadyFds, Readable
  <2> QED
    BY <1>0, <1>1, <2>1, <2>2, SnapshotVisited
<1> QED
  BY <1>3, <1>4, <1>5, <1>6, <1>7, <1>8, <1>9

\* handle_tcp_socket_activity touches no connection but its own.
LEMMA SnapshotClients ==
    ASSUME IInv, NEW f \in ClientFds, HandleTcp(f)
    PROVE  Snapshot'
<1> DEFINE c == fd_owner[f]
<1>0. /\ fd_owner \in [ClientFds -> Clients \cup {NoClient}]
      /\ link \in [Clients -> Links] /\ inbox \in [Clients -> Seq(Requests)]
      /\ max_fd \in Nat
      /\ \A g \in master_fds : g \in ClientFds /\ fd_owner[g] \in Clients
      /\ \A g, h \in ClientFds :
            fd_owner[g] # NoClient /\ fd_owner[g] = fd_owner[h] => g = h
      /\ NoClient \notin Clients
  BY FdFacts, ServerAssumption
     DEF IInv, TypeOK, LoopTypes, WatchTypes, ConnTypes, RecordsAgree, Exclusive
<1>1. Due(f) /\ Visited(f) /\ UNCHANGED <<max_fd, backlog, udp_queue, unix_conn, fifo>>
  BY DEF HandleTcp, HangUp, Authenticate, Refuse, Answer, UpdateByTcp, Receive,
     watchVars, udpVars, powerVars, alertVars
<1>2. c \in Clients
  BY <1>1, DueClient
<1>3. /\ \/ UNCHANGED <<master_fds, fd_owner>>
         \/ /\ master_fds' = master_fds \ {f}
            /\ fd_owner' = [fd_owner EXCEPT ![f] = NoClient]
      /\ \E l : link' = [link EXCEPT ![c] = l]
      /\ inbox' = [inbox EXCEPT ![c] = <<>>]
  <2>1. CASE HangUp(f) \/ Refuse(f)
    BY <2>1 DEF HangUp, Refuse, CloseConnection
  <2>2. CASE Authenticate(f) \/ Answer(f)
    BY <2>2 DEF Authenticate, Answer, watchVars
  <2>3. CASE UpdateByTcp(f)
    <3>1. link' = [link EXCEPT ![c] = link[c]]
      BY <1>0, <1>2, <2>3 DEF UpdateByTcp
    <3> QED
      BY <2>3, <3>1 DEF UpdateByTcp, watchVars
  <2> QED
    BY <2>1, <2>2, <2>3 DEF HandleTcp
<1>4. \A d \in Clients : d # c => link'[d] = link[d] /\ inbox'[d] = inbox[d]
  BY <1>0, <1>3
<1>5. \A g \in ReadyFds : g # f => g \in ReadyFds'
  <2> TAKE g \in ReadyFds
  <2> HAVE g # f
  <2>1. g \in master_fds =>
          /\ g \in master_fds' /\ fd_owner'[g] = fd_owner[g] /\ fd_owner[g] # c
    BY <1>0, <1>2, <1>3
  <2>2. g \in master_fds /\ Readable(fd_owner[g]) => Readable(fd_owner[g])'
    BY <1>0, <1>4, <2>1 DEF Readable
  <2> QED
    BY <1>1, <2>1, <2>2 DEF ReadyFds
<1>6. pc = "scan" /\ fd <= f
  BY <1>1 DEF Due, Ahead
<1> QED
  BY <1>0, <1>1, <1>5, <1>6, SnapshotVisited

\* What select() has reported stays true until its turn, whatever happens.
LEMMA SnapshotStep == IInv /\ [Next]_vars => Snapshot'
<1> SUFFICES ASSUME IInv, [Next]_vars PROVE Snapshot'
  OBVIOUS
<1>0. /\ Snapshot /\ fd \in Nat /\ max_fd \in Nat
      /\ \A g \in read_fds : g \in Nat
  BY FdFacts DEF IInv, TypeOK, LoopTypes
<1>1. CASE Environment /\ ~Sigint
  <2>1. ReadyFds \subseteq ReadyFds' /\ UNCHANGED <<pc, fd, read_fds, max_fd>>
    BY <1>1, EnvironmentKeepsReady
  <2>2. unix_conn # "none" => unix_conn' # "none"
    BY <1>1 DEF Environment, Connect, Ask, Leave, ResetArrives, UdpSend, RaiseAlert,
       PowerConnect, PowerSend, powerVars
  <2> QED
    BY <1>0, <2>1, <2>2 DEF Snapshot, PendingStillReady, Ahead
<1>2. CASE Sigint
  <2>1. UNCHANGED <<read_fds, max_fd, master_fds, fd_owner, backlog, link, inbox,
                    udp_queue, fifo>>
    BY <1>2 DEF Sigint, watchVars, connVars, udpVars, alertVars
  <2>2. CASE SelectInterrupted
    BY <1>0, <1>2, <2>1, <2>2
       DEF Sigint, SelectInterrupted, RecvInterrupted, Snapshot, PendingStillReady
  <2>3. CASE RecvInterrupted
    <3>1. pc = "recv_unix" /\ fd <= UnixFd /\ pc' = "scan" /\ fd' = UnixFd + 1
      BY <1>0, <1>2, <2>3 DEF Sigint, SelectInterrupted, RecvInterrupted, Snapshot
    <3>2. \A g \in read_fds : Ahead(g)' => Ahead(g) /\ g # UnixFd
      BY <1>0, <2>1, <3>1, FdFacts DEF Ahead
    <3>3. \A g \in ReadyFds : g # UnixFd => g \in ReadyFds'
      BY <2>1 DEF ReadyFds, Readable
    <3> QED
      BY <1>0, <2>1, <3>1, <3>2, <3>3 DEF Snapshot, PendingStillReady
  <2>4. CASE ~SelectInterrupted /\ ~RecvInterrupted
    <3>1. UNCHANGED <<pc, fd, unix_conn>>
      BY <1>2, <2>4 DEF Sigint
    <3>2. UNCHANGED ReadyFds
      BY <2>1, <3>1 DEF ReadyFds, Readable
    <3> QED
      BY <1>0, <2>1, <3>1, <3>2 DEF Snapshot, PendingStillReady, Ahead
  <2> QED
    BY <2>2, <2>3, <2>4
<1>3. CASE TestRunning \/ CallSelect \/ EndPass
  BY <1>0, <1>3
     DEF TestRunning, CallSelect, EndPass, Snapshot, PendingStillReady
<1>4. CASE SelectReturns
  <2>1. UNCHANGED ReadyFds /\ read_fds' = ReadyFds /\ pc' = "scan" /\ max_fd' = max_fd
    BY <1>4 DEF SelectReturns, FdIsset, ReadyFds, Readable, watchVars, connVars,
       udpVars, powerVars, alertVars
  <2>2. \A f \in ReadyFds : f <= max_fd
    BY DEF ReadyFds
  <2> QED
    BY <2>1, <2>2 DEF Snapshot, PendingStillReady
<1>5. CASE \/ AcceptTcp \/ HandleUdp \/ AcceptUnix \/ ReceiveUnix \/ CheckAlerts
           \/ KilledBySend \/ \E f \in ListenFds : NoDescriptor(f)
  BY <1>5, SnapshotListeners
<1>6. CASE \E f \in ClientFds : HandleTcp(f)
  BY <1>6, SnapshotClients
<1>7. CASE UNCHANGED vars
  <2>1. UNCHANGED <<pc, fd, read_fds, max_fd, unix_conn>> /\ UNCHANGED ReadyFds
    BY <1>7 DEF vars, loopVars, watchVars, connVars, udpVars, powerVars, alertVars,
       ReadyFds, Readable
  <2> QED
    BY <1>0, <2>1 DEF Snapshot, PendingStillReady, Ahead
<1> QED
  BY <1>1, <1>2, <1>3, <1>4, <1>5, <1>6, <1>7 DEF Next, ServerStep

-----------------------------------------------------------------------------
(***************************************************************************)
(* The theorems.                                                           *)
(***************************************************************************)

\* The handlers, in whatever order, keep the records, types and places right.
LEMMA Invariance == Spec => []IInv
<1>1. Init => IInv
  BY InitIInv
<1>2. IInv /\ [Next]_vars => IInv'
  BY TypeStep, RecordsStep, ExclusiveStep, SnapshotStep DEF IInv
<1> QED
  BY <1>1, <1>2, PTL DEF Spec

\* Whatever the clients, sensors and signals do, no handler of start_server
\* takes the head of an empty queue or uses the owner of a closed descriptor,
\* and every counter of the stock stays in 0 .. INT_MAX.
THEOREM TypeCorrect == Spec => []TypeOK
<1>1. IInv => TypeOK
  BY DEF IInv
<1> QED
  BY <1>1, Invariance, PTL

\* master_fds, tcp_clients and the open descriptors agree for any number of
\* clients, descriptors and list places (accept_tcp_connection,
\* handle_tcp_socket_activity, remove_tcp_client).
THEOREM RecordsAlwaysAgree == Spec => []RecordsAgree
<1>1. IInv => RecordsAgree
  BY DEF IInv
<1> QED
  BY <1>1, Invariance, PTL

\* A bit select() has set is true when the loop reaches it: no accept(), read()
\* or recv() of a handler blocks, and none meets a closed descriptor.
THEOREM PendingAlwaysReady == Spec => []PendingStillReady
<1>1. IInv => PendingStillReady
  BY DEF IInv, Snapshot
<1> QED
  BY <1>1, Invariance, PTL

\* A connection is behind one descriptor or in the listen queue, once, until it
\* is over, and then in neither.
THEOREM ConnectionsAlwaysHeld == Spec => []ConnectionsHeld
<1>1. ASSUME IInv, NEW c \in Clients
      PROVE  OneHolder(c)
  <2>1. Exclusive /\ c # NoClient
    BY <1>1, ServerAssumption DEF IInv
  <2>2. Holders(c) # {} <=> Owned(c)
    BY DEF Holders, Owned
  <2>3. Waits(c) # {} <=> c \in Listed(backlog)
    BY DEF Waits, Listed
  <2>4. \A f \in Holders(c) : Holders(c) = {f} /\ f \in ClientFds
    BY <2>1 DEF Exclusive, Holders
  <2>5. \A i \in Waits(c) : Waits(c) = {i} /\ i \in DOMAIN backlog
    BY <2>1 DEF Exclusive, NoDuplicates, Waits
  <2>6. CASE link[c] \in {"none", "cut"}
    BY <2>1, <2>2, <2>3, <2>6 DEF Exclusive, OneHolder
  <2>7. CASE link[c] \notin {"none", "cut"}
    <3>1. ~(Owned(c) /\ c \in Listed(backlog)) /\ (Owned(c) \/ c \in Listed(backlog))
      BY <2>1, <2>7 DEF Exclusive, Owned
    <3> QED
      BY <2>2, <2>3, <2>4, <2>5, <2>7, <3>1 DEF OneHolder
  <2> QED
    BY <2>6, <2>7
<1>2. IInv => ConnectionsHeld
  BY <1>1 DEF ConnectionsHeld
<1> QED
  BY <1>2, Invariance, PTL

\* Whether a connection gets the broadcasts is settled by add_tcp_client when
\* it is accepted; no later accept, close or shift of the list changes it.
THEOREM ListingIsForLife == Spec => ListingForLife
<1>1. ASSUME IInv, [Next]_vars
      PROVE  ListingStays
  <2>1. /\ tcp_clients \in Seq(ClientFds) /\ NoDuplicates(tcp_clients)
        /\ Len(tcp_clients) <= MaxClients
    BY <1>1 DEF IInv, TypeOK, WatchTypes, RecordsAgree
  <2>2. CASE tcp_clients' = tcp_clients
    BY <2>2 DEF ListingStays
  <2>3. CASE AcceptTcp
    <3>1. PICK f \in ClientFds :
              f \notin master_fds /\ tcp_clients' = AddTcpClient(f, tcp_clients)
      BY <1>1, <2>3, AcceptFacts
    <3>2. \/ Listed(tcp_clients') = Listed(tcp_clients)
          \/ Listed(tcp_clients') = Listed(tcp_clients) \cup {f}
      BY <2>1, <3>1, AddTcpClientFacts
    <3> QED
      BY <3>1, <3>2 DEF ListingStays
  <2>4. ASSUME NEW f \in ClientFds, Closes(f)
        PROVE  ListingStays
    <3>1. /\ tcp_clients' = RemoveTcpClient(f, tcp_clients)
          /\ master_fds' = master_fds \ {f}
      BY <2>4 DEF Closes, CloseConnection
    <3>2. Listed(tcp_clients') = Listed(tcp_clients) \ {f}
      BY <2>1, <3>1, RemoveTcpClientFacts
    <3> QED
      BY <3>1, <3>2 DEF ListingStays
  <2> QED
    BY <1>1, <2>2, <2>3, <2>4, RecordsChange
<1>2. IInv /\ [Next]_vars => [ListingStays]_vars
  BY <1>1
<1> QED
  BY <1>2, Invariance, PTL DEF Spec, ListingForLife
=============================================================================
