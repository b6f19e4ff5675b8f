----------------------------- MODULE UdpClient -----------------------------
(***************************************************************************)
(* One run of src/clients/udp_client.c: a process at the menu that sends   *)
(* requests, and a child that waits for datagrams on the same socket.      *)
(* There is no connection: whoever knows the port may answer, and nobody   *)
(* tells the child that the server, or the parent, has gone.               *)
(***************************************************************************)
EXTENDS Naturals

CONSTANTS
    Addresses,     \* addresses that datagrams come from and go to
    MaxDatagrams   \* bound: datagrams in the client's socket

ASSUME UdpAssumption == MaxDatagrams \in Nat /\ "null" \notin Addresses

VARIABLES
    menu,          \* the process of main()
    listener,      \* its child
    interrupted,   \* those of the two with a SIGINT to handle
    configured,    \* the address and port of the command line and shared memory
    server_addr,   \* the parent's static variable
    listener_addr, \* the child's copy of it
    waiting,       \* datagrams that have arrived, by sender
    exit_choice,   \* history: option 4 was chosen
    strayed        \* history: a request went elsewhere

udpVars == <<menu, listener, interrupted, configured, server_addr,
             listener_addr, waiting, exit_choice, strayed>>

UdpInit ==
    /\ menu = "start" /\ listener = "none" /\ interrupted = {}
    /\ configured = "null" /\ server_addr = "null" /\ listener_addr = "null"
    /\ waiting = [a \in Addresses |-> 0]
    /\ exit_choice = FALSE /\ strayed = FALSE

\* parse_command_line_args, get_port, set_server_addr.  Without -a ip_address
\* is NULL, which inet_pton dereferences; without a port the process exits.
SetServerAddr ==
    /\ menu = "start"
    /\ \/ /\ \E a \in Addresses : configured' = a /\ server_addr' = a
          /\ menu' = "fork"
       \/ /\ menu' = "gone"
          /\ UNCHANGED <<configured, server_addr>>
    /\ UNCHANGED <<listener, interrupted, listener_addr, waiting, exit_choice,
                   strayed>>

ForkListener ==
    /\ menu = "fork"
    /\ \/ menu' = "menu" /\ listener' = "listening" /\ listener_addr' = server_addr
       \/ menu' = "gone" /\ UNCHANGED <<listener, listener_addr>>
    /\ UNCHANGED <<interrupted, configured, server_addr, waiting, exit_choice,
                   strayed>>

AtUdpMenu == menu = "menu" /\ "menu" \notin interrupted

\* Options 1 to 3; what becomes of the datagram nobody learns.
SendToServer ==
    /\ AtUdpMenu
    /\ strayed' = (strayed \/ server_addr # configured)
    /\ UNCHANGED <<menu, listener, interrupted, configured, server_addr,
                   listener_addr, waiting, exit_choice>>

\* Option 4: kill(pid_child, SIGINT), close() and the end of main().
SparesTheListener == UNCHANGED interrupted    \* mutant: no kill()
KillsTheListener ==
    interrupted' = interrupted \cup {c \in {"listener"} : listener = "listening"}
ChooseUdpExit ==
    /\ AtUdpMenu
    /\ menu' = "gone" /\ exit_choice' = TRUE
    /\ KillsTheListener
    /\ UNCHANGED <<listener, configured, server_addr, listener_addr, waiting,
                   strayed>>

\* The input ends, or get_os_id fails: the process ends, and the child is not told.
UdpInputEnds ==
    /\ AtUdpMenu
    /\ menu' = "gone"
    /\ UNCHANGED <<listener, interrupted, configured, server_addr,
                   listener_addr, waiting, exit_choice, strayed>>

InterruptUdp ==
    /\ menu # "gone" /\ "menu" \notin interrupted
    /\ \E whom \in {{"menu"}, {"menu"} \cup {c \in {"listener"} : listener = "listening"}} :
          interrupted' = interrupted \cup whom
    /\ UNCHANGED <<menu, listener, configured, server_addr, listener_addr,
                   waiting, exit_choice, strayed>>

\* handle_sigint, in either process.
MenuInterrupted ==
    /\ menu # "gone" /\ "menu" \in interrupted
    /\ menu' = "gone" /\ interrupted' = interrupted \ {"menu"}
    /\ UNCHANGED <<listener, configured, server_addr, listener_addr, waiting,
                   exit_choice, strayed>>
ListenerInterrupted ==
    /\ listener = "listening" /\ "listener" \in interrupted
    /\ listener' = "gone" /\ interrupted' = interrupted \ {"listener"}
    /\ UNCHANGED <<menu, configured, server_addr, listener_addr, waiting,
                   exit_choice, strayed>>

\* receive_and_handle_json: recvfrom() stores the sender in server_addr, which
\* is the child's since fork().
StoresForBoth(a) == server_addr' = a /\ listener_addr' = a  \* mutant: a thread
StoresSender(a) == listener_addr' = a /\ UNCHANGED server_addr
ReceiveDatagram ==
    /\ listener = "listening" /\ "listener" \notin interrupted
    /\ \E a \in Addresses :
          /\ waiting[a] > 0
          /\ waiting' = [waiting EXCEPT ![a] = @ - 1]
          /\ StoresSender(a)
    /\ UNCHANGED <<menu, listener, interrupted, configured, exit_choice, strayed>>

\* A datagram, from the server or from anybody, arrives; others are lost.
DatagramArrives ==
    /\ listener = "listening"
    /\ \E a \in Addresses :
          /\ waiting[a] < MaxDatagrams
          /\ waiting' = [waiting EXCEPT ![a] = @ + 1]
    /\ UNCHANGED <<menu, listener, interrupted, configured, server_addr,
                   listener_addr, exit_choice, strayed>>

UdpNext ==
    \/ SetServerAddr \/ ForkListener \/ SendToServer \/ ChooseUdpExit
    \/ UdpInputEnds \/ InterruptUdp \/ MenuInterrupted \/ ListenerInterrupted
    \/ ReceiveDatagram \/ DatagramArrives

UdpSpec == UdpInit /\ [][UdpNext]_udpVars
UdpFairness == WF_udpVars(ListenerInterrupted) /\ WF_udpVars(MenuInterrupted)

-----------------------------------------------------------------------------
\* Every request goes where the command line and the shared memory say, though
\* recvfrom() overwrites the variable it is sent by (receive_and_handle_json).
RequestsGoToServer == ~strayed

\* Option 4 ends both processes: the child waits for no further datagram.
UdpExitEndsBoth == exit_choice ~> (menu = "gone" /\ listener # "listening")
=============================================================================
