---------------------------- MODULE ClientLists ----------------------------
(***************************************************************************)
(* The two bounded lists in which the server remembers whom to notify:     *)
(* TCPClientList (descriptors) and UDPClientList (sender addresses), with  *)
(* the operations of src/server/server.c that change them.  A list is the  *)
(* used prefix of the C array.                                             *)
(***************************************************************************)
EXTENDS Naturals, Sequences

CONSTANTS
    MaxClients,   \* MAX_CLIENTS, the length of both arrays
    PortOf        \* the source port of every UDP peer

ASSUME MaxClientsAssumption == MaxClients \in Nat \ {0}

Listed(list) == {list[i] : i \in DOMAIN list}

\* Mutant: a full list drops its oldest entry for the newcomer.
EvictAndAdd(fd, list) ==
    IF Len(list) < MaxClients THEN Append(list, fd) ELSE Append(Tail(list), fd)

\* add_tcp_client: a full list refuses the newcomer with a line on stdout.
AddTcpClient(fd, list) ==
    IF Len(list) < MaxClients THEN Append(list, fd) ELSE list

\* Mutant: the shift starts one place too late.
ShiftLate(list, k) ==
    [i \in 1 .. Len(list) - 1 |-> IF i <= k THEN list[i] ELSE list[i + 1]]

\* Everything behind position k moves one place to the left.
ShiftLeft(list, k) ==
    [i \in 1 .. Len(list) - 1 |-> IF i < k THEN list[i] ELSE list[i + 1]]

\* remove_tcp_client: the first entry that holds fd, if any.
FirstAt(fd, list, k) ==
    /\ k \in DOMAIN list
    /\ list[k] = fd
    /\ \A i \in DOMAIN list : list[i] = fd => k <= i

RemoveTcpClient(fd, list) ==
    IF fd \in Listed(list)
    THEN ShiftLeft(list, CHOOSE k \in DOMAIN list : FirstAt(fd, list, k))
    ELSE list

\* add_udp_client casts both addresses to sockaddr_in.  They are sockaddr_in6
\* (the socket is AF_INET6), so the word it compares as the address is the
\* flow label, zero in both: only the ports tell two peers apart.
SameEntry(p, q) == PortOf[p] = PortOf[q]

\* Mutant: the list is not searched first.
AppendUdpClient(peer, list) ==
    IF Len(list) >= MaxClients THEN list ELSE Append(list, peer)

AddUdpClient(peer, list) ==
    IF (\E p \in Listed(list) : SameEntry(p, peer)) \/ Len(list) >= MaxClients
    THEN list
    ELSE Append(list, peer)

NoDuplicates(list) == \A i, j \in DOMAIN list : list[i] = list[j] => i = j
=============================================================================
