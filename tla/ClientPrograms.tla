--------------------------- MODULE ClientPrograms ---------------------------
(* A TCP and a UDP client program side by side, each with its own processes. *)
EXTENDS TcpClient, UdpClient

Init == TcpInit /\ UdpInit
Next ==
    \/ TcpNext /\ UNCHANGED udpVars
    \/ UdpNext /\ UNCHANGED tcpVars
Spec == Init /\ [][Next]_<<tcpVars, udpVars>> /\ TcpFairness /\ UdpFairness
=============================================================================
