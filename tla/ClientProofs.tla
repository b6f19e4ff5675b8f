---------------------------- MODULE ClientProofs ----------------------------
(***************************************************************************)
(* What TLAPS proves of the client programs, for any notices, requests,    *)
(* addresses and bounds.                                                   *)
(***************************************************************************)
EXTENDS ClientPrograms, SequenceTheorems, TLAPS

(***************************************************************************)
(* The TCP client.  Parents is what main() has done so far, Signals what a *)
(* SIGINT that is pending implies, Greeted what the server has seen.       *)
(***************************************************************************)
Parents ==
    /\ parent \in {"start", "connect"} => link = "none"
    /\ parent \in {"start", "connect", "greet", "fork"} => reader = "none"
    /\ parent \in {"greet", "fork", "menu"} => link \notin {"none", "over"}
    /\ reader = "none" => parent # "menu"
    /\ reader = "reading" => link \notin {"none", "over"}
    /\ reader = "reading" /\ parent = "gone" => cause \notin {"none", "failed"}
    /\ cause = "disconnect" => heard
    /\ parent # "gone" => cause = "none"

Signals ==
    /\ "reader" \in signalled /\ parent # "gone" => "parent" \in signalled
    /\ heard => reader = "gone"
    /\ cause = "exit" /\ reader = "reading" => "reader" \in signalled

Greeted ==
    /\ parent \in {"start", "connect", "greet"} => last = "silence"
    /\ parent \in {"fork", "menu"} /\ link = "open" => last # "silence"
    /\ link = "none" => last = "silence"

TcpInv == TcpTypeOK /\ Parents /\ Signals /\ Greeted /\ OrphanReader /\ DeafMenu

\* What follows the first n notices is again at most MaxUnread notices.
LEMMA Unread ==
    ASSUME NEW s \in Seq(Received), Len(s) <= MaxUnread, NEW n \in 1 .. Len(s)
    PROVE  /\ SubSeq(s, n + 1, Len(s)) \in Seq(Received)
           /\ Len(SubSeq(s, n + 1, Len(s))) <= MaxUnread
<1>1. MaxUnread \in Nat /\ Len(s) \in Nat
  BY TcpAssumption
<1>2. SubSeq(s, n + 1, Len(s)) \in Seq(Received)
      /\ Len(SubSeq(s, n + 1, Len(s))) = IF n + 1 <= Len(s) THEN Len(s) - n ELSE 0
  BY <1>1, SubSeqProperties
<1> QED
  BY <1>1, <1>2

LEMMA TcpInitially == TcpInit => TcpInv
<1> SUFFICES ASSUME TcpInit PROVE TcpInv
  OBVIOUS
<1> USE DEF TcpInit
<1>1. TcpTypeOK
  <2>1. stream \in Seq(Received) /\ Len(stream) = 0 /\ 0 <= MaxUnread
    BY TcpAssumption
  <2> QED
    BY <2>1 DEF TcpTypeOK, ParentStates, Links
<1>2. Parents /\ Signals /\ Greeted /\ OrphanReader /\ DeafMenu
  BY DEF Parents, Signals, Greeted, OrphanReader, DeafMenu
<1> QED
  BY <1>1, <1>2 DEF TcpInv

LEMMA TcpInductive == TcpInv /\ [TcpNext]_tcpVars => TcpInv'
<1> SUFFICES ASSUME TcpInv, [TcpNext]_tcpVars PROVE TcpInv'
  OBVIOUS
<1> USE DEF TcpInv, TcpTypeOK, ParentStates, Links, Parents, Signals, Greeted,
            OrphanReader, DeafMenu, ClosedByServer, tcpProcs, tcpConn, tcpPast
<1>0. MaxUnread \in Nat /\ <<>> \in Seq(Received) /\ Len(<<>>) = 0
  BY TcpAssumption
<1> DEFINE StreamOK == stream' \in Seq(Received) /\ Len(stream') <= MaxUnread
<1>a. ASSUME NEW why, ParentEnds(why)
      PROVE  /\ StreamOK /\ parent' = "gone" /\ cause' = why
             /\ link' \in Links
             /\ link' # link => link' = "over" /\ reader # "reading" /\ link # "none"
             /\ UNCHANGED <<authenticated, told>>
  <2>1. CASE reader = "reading" \/ link = "none"
    BY <1>a, <2>1 DEF ParentEnds
  <2>2. CASE ~(reader = "reading" \/ link = "none")
    <3>1. link' = "over" /\ stream' = <<>>
      BY <1>a, <2>2 DEF ParentEnds
    <3>2. StreamOK
      BY <1>0, <3>1
    <3> QED
      BY <1>a, <2>2, <3>1, <3>2 DEF ParentEnds
  <2> QED
    BY <2>1, <2>2
<1>b. ASSUME ReaderEnds
      PROVE  /\ StreamOK /\ reader' = "gone"
             /\ link' \in Links
             /\ link' # link => link' = "over" /\ parent = "gone"
             /\ UNCHANGED <<parent, authenticated, last, cause, told>>
  <2>1. CASE parent # "gone"
    BY <1>b, <2>1 DEF ReaderEnds
  <2>2. CASE parent = "gone"
    <3>1. link' = "over" /\ stream' = <<>>
      BY <1>b, <2>2 DEF ReaderEnds
    <3>2. StreamOK
      BY <1>0, <3>1
    <3> QED
      BY <1>b, <2>2, <3>1, <3>2 DEF ReaderEnds
  <2> QED
    BY <2>1, <2>2
<1>1. CASE GetPort
  BY <1>0, <1>1 DEF GetPort, ParentEnds
<1>2. CASE EstablishConnection
  BY <1>0, <1>2 DEF EstablishConnection, ParentEnds
<1>3. CASE Authenticate
  <2>1. CASE Writes("authenticateme") /\ parent' = "fork" /\ authenticated' = TRUE
    BY <1>3, <2>1, TcpAssumption DEF Authenticate, Writes
  <2>2. CASE ParentEnds("failed") /\ UNCHANGED last
    BY <1>3, <1>a, <2>2 DEF Authenticate
  <2> QED
    BY <1>3, <2>1, <2>2 DEF Authenticate
<1>4. CASE Fork
  <2>1. CASE parent' = "menu"
    BY <1>4, <2>1 DEF Fork, ParentEnds
  <2>2. CASE ParentEnds("failed") /\ UNCHANGED reader
    BY <1>4, <1>a, <2>2 DEF Fork
  <2> QED
    BY <1>4, <2>1, <2>2 DEF Fork
<1>5. ASSUME NEW kind \in Kinds, Choose(kind) PROVE TcpInv'
  <2>1. kind # "silence"
    BY TcpAssumption
  <2>2. CASE Writes(kind) /\ UNCHANGED <<parent, authenticated>>
    BY <1>5, <2>1, <2>2 DEF Choose, AtMenu, Writes
  <2>3. CASE SigPipe
    <3>1. ParentEnds("sigpipe") /\ UNCHANGED <<reader, signalled, missed, heard, last>>
      BY <1>5, <2>3 DEF Choose, SigPipe
    <3> QED
      BY <1>5, <1>a, <3>1 DEF Choose, AtMenu
  <2> QED
    BY <1>5, <2>2, <2>3 DEF Choose
<1>6. CASE ChooseExit
  <2>1. /\ signalled' \subseteq {"parent", "reader"}
        /\ reader = "reading" => "reader" \in signalled'
    BY <1>6 DEF ChooseExit, KillsTheReader
  <2>2. ParentEnds("exit") /\ UNCHANGED <<reader, last, missed, heard>>
    BY <1>6 DEF ChooseExit
  <2> QED
    BY <1>a, <1>6, <2>1, <2>2 DEF ChooseExit, AtMenu
<1>7. CASE InputEnds
  BY <1>a, <1>7 DEF InputEnds, AtMenu
<1>8. CASE Interrupt
  BY <1>8 DEF Interrupt
<1>9. CASE ParentInterrupted
  <2> DEFINE w == IF heard THEN "disconnect" ELSE "sigint"
  <2>1. /\ signalled' \subseteq {"parent", "reader"}
        /\ "reader" \in signalled => "reader" \in signalled'
        /\ "reader" \in signalled' => "reader" \in signalled
    BY <1>9 DEF ParentInterrupted
  <2>2. ParentEnds(w) /\ UNCHANGED <<reader, last, missed, heard>>
    BY <1>9 DEF ParentInterrupted
  <2>3. parent # "gone" /\ w \in {"disconnect", "sigint"} /\ (w = "disconnect" => heard)
    BY <1>9 DEF ParentInterrupted
  <2> HIDE DEF w
  <2> QED
    BY <1>a, <2>1, <2>2, <2>3
<1>10. CASE ReaderStep
  <2>1. CASE ReaderInterrupted
    <3>1. /\ signalled' \subseteq {"parent", "reader"}
          /\ "reader" \notin signalled'
          /\ "parent" \in signalled <=> "parent" \in signalled'
      BY <2>1 DEF ReaderInterrupted
    <3> QED
      BY <1>b, <2>1, <3>1 DEF ReaderInterrupted
  <2>2. CASE ReceiveDisconnect
    <3>1. /\ signalled' \subseteq {"parent", "reader"}
          /\ "reader" \in signalled' => "reader" \in signalled
          /\ parent # "gone" => "parent" \in signalled'
      BY <2>2 DEF ReceiveDisconnect, TellsTheParent
    <3> QED
      BY <1>b, <2>2, <3>1 DEF ReceiveDisconnect, Reading
  <2>3. CASE ServerHungUp
    BY <1>0, <2>3 DEF ServerHungUp, Reading, ReaderEnds
  <2>4. ASSUME NEW n \in 1 .. MaxUnread, Receive(n) PROVE TcpInv'
    <3>1. stream' \in Seq(Received) /\ Len(stream') <= MaxUnread
      BY <2>4, Unread DEF Receive
    <3>2. missed' \in BOOLEAN
      BY <2>4 DEF Receive, Drops
    <3> QED
      BY <2>4, <3>1, <3>2 DEF Receive, Reading
  <2> QED
    BY <1>10, <2>1, <2>2, <2>3, <2>4 DEF ReaderStep
<1>11. ASSUME NEW notice \in Received, ServerSends(notice) PROVE TcpInv'
  <2>1. stream' \in Seq(Received) /\ Len(stream') = Len(stream) + 1
    BY <1>11, AppendProperties DEF ServerSends
  <2>2. Len(stream) \in Nat
    OBVIOUS
  <2> QED
    BY <1>0, <1>11, <2>1, <2>2 DEF ServerSends
<1>12. CASE ServerCloses
  BY <1>12 DEF ServerCloses
<1>13. CASE ResetArrives
  BY <1>13 DEF ResetArrives
<1>14. CASE UNCHANGED tcpVars
  BY <1>14 DEF tcpVars
<1> QED
  BY <1>1, <1>2, <1>3, <1>4, <1>5, <1>6, <1>7, <1>8, <1>9, <1>10, <1>11, <1>12,
     <1>13, <1>14 DEF TcpNext

LEMMA TcpInvariant == TcpSpec => []TcpInv
BY TcpInitially, TcpInductive, PTL DEF TcpSpec

\* Every variable of a TCP client keeps its type (src/clients/tcp_client.c).
THEOREM TcpTypes == TcpSpec => []TcpTypeOK
BY TcpInvariant, PTL DEF TcpInv

\* A reader is left behind, with the connection, only where main() ended
\* without kill(pid_child, SIGINT), or the signal is still to be handled.
THEOREM Orphans == TcpSpec => []OrphanReader
BY TcpInvariant, PTL DEF TcpInv

\* The menu is without a reader only before the SIGINT of a disconnect
\* arrives, or after the server has closed.
THEOREM Deafness == TcpSpec => []DeafMenu
BY TcpInvariant, PTL DEF TcpInv

-----------------------------------------------------------------------------
(***************************************************************************)
(* The TCP client implements ClientPromise.                                *)
(***************************************************************************)
LEMMA PromiseInitially == TcpInit => Promise!Init
BY DEF TcpInit, Promise!Init, session

LEMMA PromiseStep ==
    TcpInv /\ [TcpNext]_tcpVars => [Promise!Next]_<<session, last>>
<1> SUFFICES ASSUME TcpInv, [TcpNext]_tcpVars
             PROVE  Promise!Next \/ UNCHANGED <<session, last>>
  OBVIOUS
<1> USE DEF TcpInv, Parents, Greeted, session, tcpProcs, tcpConn, tcpPast,
            Promise!Next, Promise!Connect, Promise!Ask, Promise!Leave
<1>1. CASE GetPort
  BY <1>1 DEF GetPort, ParentEnds
<1>2. CASE EstablishConnection
  BY <1>2 DEF EstablishConnection, ParentEnds
<1>3. CASE Authenticate
  BY <1>3 DEF Authenticate, Writes, ParentEnds
<1>4. CASE Fork
  BY <1>4 DEF Fork, ParentEnds
<1>5. ASSUME NEW kind \in Kinds, Choose(kind)
      PROVE  Promise!Next \/ UNCHANGED <<session, last>>
  BY <1>5 DEF Choose, AtMenu, Writes, SigPipe, ParentEnds
<1>6. CASE ChooseExit
  BY <1>6 DEF ChooseExit, AtMenu, ParentEnds
<1>7. CASE InputEnds
  BY <1>7 DEF InputEnds, AtMenu, ParentEnds
<1>8. CASE Interrupt
  BY <1>8 DEF Interrupt
<1>9. CASE ParentInterrupted
  BY <1>9 DEF ParentInterrupted, ParentEnds
<1>10. CASE ReaderStep
  <2>1. CASE ReaderInterrupted \/ ReceiveDisconnect
    BY <2>1 DEF ReaderInterrupted, ReceiveDisconnect, Reading, ReaderEnds
  <2>2. CASE ServerHungUp
    BY <2>2 DEF ServerHungUp, Reading, ReaderEnds, ClosedByServer
  <2>3. CASE \E n \in 1 .. MaxUnread : Receive(n)
    BY <2>3 DEF Receive
  <2> QED
    BY <1>10, <2>1, <2>2, <2>3 DEF ReaderStep
<1>11. CASE \E notice \in Received : ServerSends(notice)
  BY <1>11 DEF ServerSends
<1>12. CASE ServerCloses \/ ResetArrives
  BY <1>12 DEF ServerCloses, ResetArrives
<1>13. CASE UNCHANGED tcpVars
  BY <1>13 DEF tcpVars
<1> QED
  BY <1>1, <1>2, <1>3, <1>4, <1>5, <1>6, <1>7, <1>8, <1>9, <1>10, <1>11, <1>12,
     <1>13 DEF TcpNext

\* At most one connection, the greeting first and once, nothing after the end:
\* what RefugeServer takes a client to do (authenticate() before fork()).
THEOREM KeepsThePromise == TcpSpec => KeepsPromise
BY TcpInvariant, PromiseInitially, PromiseStep, PTL
   DEF TcpSpec, KeepsPromise, Promise!Spec

-----------------------------------------------------------------------------
(***************************************************************************)
(* The UDP client.                                                         *)
(***************************************************************************)
UdpTypes ==
    /\ menu \in {"start", "fork", "menu", "gone"}
    /\ listener \in {"none", "listening", "gone"}
    /\ interrupted \subseteq {"menu", "listener"}
    /\ configured \in Addresses \cup {"null"}
    /\ server_addr \in Addresses \cup {"null"}
    /\ listener_addr \in Addresses \cup {"null"}
    /\ waiting \in [Addresses -> 0 .. MaxDatagrams]
    /\ exit_choice \in BOOLEAN /\ strayed \in BOOLEAN
UdpInv ==
    /\ UdpTypes /\ RequestsGoToServer
    /\ menu \in {"fork", "menu"} => server_addr = configured

LEMMA UdpInductive == UdpInv /\ [UdpNext]_udpVars => UdpInv'
<1> SUFFICES ASSUME UdpInv, [UdpNext]_udpVars PROVE UdpInv'
  OBVIOUS
<1> USE DEF UdpInv, UdpTypes, RequestsGoToServer
<1>1. CASE SetServerAddr
  BY <1>1 DEF SetServerAddr
<1>2. CASE ForkListener
  BY <1>2 DEF ForkListener
<1>3. CASE SendToServer
  BY <1>3 DEF SendToServer, AtUdpMenu
<1>4. CASE ChooseUdpExit
  BY <1>4 DEF ChooseUdpExit, KillsTheListener, AtUdpMenu
<1>5. CASE UdpInputEnds
  BY <1>5 DEF UdpInputEnds, AtUdpMenu
<1>6. CASE InterruptUdp
  BY <1>6 DEF InterruptUdp
<1>7. CASE MenuInterrupted \/ ListenerInterrupted
  <2>1. interrupted' \subseteq {"menu", "listener"}
    BY <1>7 DEF MenuInterrupted, ListenerInterrupted
  <2> QED
    BY <1>7, <2>1 DEF MenuInterrupted, ListenerInterrupted
<1>8. CASE ReceiveDatagram
  BY <1>8, UdpAssumption DEF ReceiveDatagram, StoresSender
<1>9. CASE DatagramArrives
  BY <1>9, UdpAssumption DEF DatagramArrives
<1>10. CASE UNCHANGED udpVars
  BY <1>10 DEF udpVars
<1> QED
  BY <1>1, <1>2, <1>3, <1>4, <1>5, <1>6, <1>7, <1>8, <1>9, <1>10 DEF UdpNext

LEMMA UdpInvariant == UdpSpec => []UdpInv
<1>1. UdpInit => UdpInv
  <2> SUFFICES ASSUME UdpInit PROVE UdpInv
    OBVIOUS
  <2>1. waiting \in [Addresses -> 0 .. MaxDatagrams]
    BY UdpAssumption DEF UdpInit
  <2> QED
    BY <2>1 DEF UdpInit, UdpInv, UdpTypes, RequestsGoToServer
<1> QED
  BY <1>1, UdpInductive, PTL DEF UdpSpec

\* recvfrom() stores senders in the child's copy of server_addr: the requests
\* of the parent go where it was told to send them.
THEOREM Destinations == UdpSpec => []RequestsGoToServer
BY UdpInvariant, PTL DEF UdpInv

-----------------------------------------------------------------------------
\* Side by side, each program does what it does alone.
LEMMA SideBySide == Spec => TcpSpec /\ UdpSpec
<1>1. [Next]_<<tcpVars, udpVars>> => [TcpNext]_tcpVars /\ [UdpNext]_udpVars
  BY DEF Next
<1> QED
  BY <1>1, PTL DEF Spec, Init, TcpSpec, UdpSpec

\* The promises above, of the two programs together.
THEOREM Together == Spec => KeepsPromise /\ [](OrphanReader /\ DeafMenu /\ RequestsGoToServer)
BY SideBySide, KeepsThePromise, Orphans, Deafness, Destinations, PTL
=============================================================================
