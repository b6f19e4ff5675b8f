----------------------------- MODULE TcpClient -----------------------------
(***************************************************************************)
(* One run of src/clients/tcp_client.c: a process at the menu and a child  *)
(* that reads what the server sends, both with a descriptor of the same    *)
(* connection, which ends when both are closed.  Around them: the user,    *)
(* the kernel, and a server that may send any notice and close at any time.*)
(***************************************************************************)
EXTENDS Naturals, Sequences

CONSTANTS
    Kinds,         \* the requests of the menu
    Notices,       \* what the server sends as JSON, besides "disconnect"
    MaxUnread      \* bound: notices in the client's socket

ASSUME TcpAssumption ==
    /\ MaxUnread \in Nat
    /\ {"authenticateme", "silence", "update"} \cap Kinds \subseteq {"update"}
    /\ {"alert", "disconnect"} \cap Notices = {}

Received == Notices \cup {"alert", "disconnect"}

VARIABLES
    parent,        \* what the process of main() is about to do
    reader,        \* ... and its child
    signalled,     \* those of the two with a SIGINT to handle
    authenticated, \* the parent's copy of the flag
    link,          \* the connection, as in RefugeServer but from this side
    stream,        \* notices that have arrived, unread
    last,          \* the last request sent
    \* history
    cause,         \* why the parent ended
    told,          \* the server has sent a disconnect
    missed,        \* one was read behind another notice
    heard          \* one was read at the head of what recv() returned

tcpProcs == <<parent, reader, signalled, authenticated>>
tcpConn  == <<link, stream, last>>
tcpPast  == <<cause, told, missed, heard>>
tcpVars  == <<tcpProcs, tcpConn, tcpPast>>

ParentStates == {"start", "connect", "greet", "fork", "menu", "gone"}
\* "fin" or "rst": the server has closed; "provoked": written to since, and a
\* reset is on its way; "reset": the next write raises SIGPIPE; "over": closed
\* on this side too.
Links == {"none", "open", "fin", "rst", "provoked", "reset", "over"}
ClosedByServer == link \in {"fin", "rst", "provoked", "reset"}

TcpInit ==
    /\ parent = "start" /\ reader = "none"
    /\ signalled = {} /\ authenticated = FALSE
    /\ link = "none" /\ stream = <<>> /\ last = "silence"
    /\ cause = "none" /\ told = FALSE /\ missed = FALSE /\ heard = FALSE

-----------------------------------------------------------------------------
(***************************************************************************)
(* The end of a process: exit() closes its copy of the descriptor, the last *)
(* copy closes the connection.                                             *)
(***************************************************************************)
ParentEnds(why) ==
    /\ parent' = "gone"
    /\ cause' = why
    /\ IF reader = "reading" \/ link = "none"
       THEN UNCHANGED <<link, stream>>
       ELSE link' = "over" /\ stream' = <<>>
    /\ UNCHANGED <<authenticated, told>>

ReaderEnds ==
    /\ reader' = "gone"
    /\ IF parent # "gone" THEN UNCHANGED <<link, stream>>
                          ELSE link' = "over" /\ stream' = <<>>
    /\ UNCHANGED <<parent, authenticated, last, cause, told>>

-----------------------------------------------------------------------------
(***************************************************************************)
(* main().                                                                 *)
(***************************************************************************)

\* parse_command_line_args, get_port: the port is an argument, or what the
\* shared memory holds (RefugeHost says what that may be); without either the
\* process exits.
GetPort ==
    /\ parent = "start"
    /\ \/ parent' = "connect" /\ UNCHANGED <<authenticated, link, stream, tcpPast>>
       \/ ParentEnds("failed") /\ UNCHANGED <<missed, heard>>
    /\ UNCHANGED <<reader, signalled, last>>

\* establish_connection, do_connect: nobody may listen at that port.
EstablishConnectionAnyhow ==    \* mutant: goes on with the socket -1
    /\ parent = "connect" /\ parent' = "greet"
    /\ link' \in {"open", "failed"}
    /\ UNCHANGED <<reader, signalled, authenticated, stream, last, tcpPast>>
ForksFirst ==                   \* mutant: the greeting is left to the menu
    /\ parent = "connect" /\ parent' = "fork" /\ link' = "open"
    /\ UNCHANGED <<reader, signalled, authenticated, stream, last, tcpPast>>
EstablishConnection ==
    /\ parent = "connect"
    /\ \/ /\ parent' = "greet" /\ link' = "open"
          /\ UNCHANGED <<authenticated, stream, tcpPast>>
       \/ ParentEnds("failed") /\ UNCHANGED <<missed, heard>>
    /\ UNCHANGED <<reader, signalled, last>>

\* send_json, which looks at no result.
Writes(kind) ==
    \/ /\ link = "open"
       /\ last' = kind /\ UNCHANGED <<link, stream, cause, told>>
    \/ /\ link \in {"fin", "provoked", "rst"}
       /\ link' = IF link = "rst" THEN "reset" ELSE "provoked"
       /\ UNCHANGED <<stream, last, cause, told>>
SigPipe == link = "reset" /\ ParentEnds("sigpipe") /\ UNCHANGED last

\* get_os_id exits when it cannot read the name of the system, encode_utf8 for
\* want of memory.  `authenticated` is set whatever the server will answer.  It
\* is the first write, which raises no SIGPIPE.
Authenticate ==
    /\ parent = "greet"
    /\ \/ Writes("authenticateme") /\ parent' = "fork" /\ authenticated' = TRUE
       \/ ParentEnds("failed") /\ UNCHANGED last
    /\ UNCHANGED <<reader, signalled, missed, heard>>

Fork ==
    /\ parent = "fork"
    /\ \/ /\ parent' = "menu" /\ reader' = "reading"
          /\ UNCHANGED <<authenticated, link, stream, cause, told>>
       \/ ParentEnds("failed") /\ UNCHANGED reader
    /\ UNCHANGED <<signalled, last, missed, heard>>

-----------------------------------------------------------------------------
(***************************************************************************)
(* handle_user_input.                                                      *)
(***************************************************************************)
AtMenu == parent = "menu" /\ "parent" \notin signalled

\* Options 1 to 3.
Choose(kind) ==
    /\ AtMenu
    /\ kind = "update" => authenticated
    /\ \/ Writes(kind) /\ UNCHANGED <<parent, authenticated>>
       \/ SigPipe
    /\ UNCHANGED <<reader, signalled, missed, heard>>

\* Option 4: kill(pid_child, SIGINT) and disconnect().
LeavesTheReader ==    \* mutant: no kill()
    UNCHANGED signalled
KillsTheReader ==
    signalled' = signalled \cup {c \in {"reader"} : reader = "reading"}
ChooseExit ==
    /\ AtMenu
    /\ KillsTheReader
    /\ ParentEnds("exit")
    /\ UNCHANGED <<reader, last, missed, heard>>

\* The end of the input, or what scanf() cannot convert: main() returns, and
\* the child is not told.
InputEnds ==
    /\ AtMenu
    /\ ParentEnds("input")
    /\ UNCHANGED <<reader, signalled, last, missed, heard>>

\* Ctrl+C reaches both processes, kill -INT the parent.
Interrupt ==
    /\ parent # "gone" /\ "parent" \notin signalled
    /\ \E whom \in {{"parent"}, {"parent"} \cup {c \in {"reader"} : reader = "reading"}} :
          signalled' = signalled \cup whom
    /\ UNCHANGED <<parent, reader, authenticated, tcpConn, tcpPast>>

\* handle_sigint, in either process.
ParentSetsConnected ==          \* mutant: CONNECTED = 0 and no exit()
    /\ parent # "gone" /\ "parent" \in signalled
    /\ signalled' = signalled \ {"parent"}
    /\ UNCHANGED <<parent, reader, authenticated, tcpConn, tcpPast>>
ParentInterrupted ==
    /\ parent # "gone" /\ "parent" \in signalled
    /\ ParentEnds(IF heard THEN "disconnect" ELSE "sigint")
    /\ signalled' = signalled \ {"parent"}
    /\ UNCHANGED <<reader, last, missed, heard>>
ReaderInterrupted ==
    /\ reader = "reading" /\ "reader" \in signalled
    /\ ReaderEnds
    /\ signalled' = signalled \ {"reader"}
    /\ UNCHANGED <<missed, heard>>

-----------------------------------------------------------------------------
(***************************************************************************)
(* handle_server_messages: receive_json until the process ends.            *)
(***************************************************************************)
Reading == reader = "reading" /\ "reader" \notin signalled

\* One recv() returns the first n notices together; one that comes in pieces is
\* not modelled, they are short and sent whole.  Of JSON texts in a row
\* cJSON_Parse reads the first; an alert is no JSON, and everything up to the
\* end of the buffer is printed with it.
Dropped(n) == SubSeq(stream, 2, n)
Drops(n) == \E i \in 1 .. Len(Dropped(n)) : Dropped(n)[i] = "disconnect"

Receive(n) ==
    /\ Reading /\ n \in 1 .. Len(stream)
    /\ Head(stream) # "disconnect"
    /\ stream' = SubSeq(stream, n + 1, Len(stream))
    /\ missed' = (missed \/ Drops(n))
    /\ UNCHANGED <<tcpProcs, link, last, cause, told, heard>>

\* "disconnect": kill(pid_parent, SIGINT) and exit().
TellsNobody == UNCHANGED signalled    \* mutant: no kill()
TellsTheParent ==
    signalled' = signalled \cup {p \in {"parent"} : parent # "gone"}
ReceiveDisconnect ==
    /\ Reading /\ stream # <<>> /\ Head(stream) = "disconnect"
    /\ heard' = TRUE
    /\ TellsTheParent
    /\ ReaderEnds
    /\ UNCHANGED missed

\* recv() returns 0: disconnect() ends this process only.  After a reset
\* recv() fails once and then returns 0, unless a write has had the error.
HangUpIgnored ==                \* mutant: recv() is called again
    /\ Reading /\ stream = <<>> /\ link = "rst" /\ link' = "reset"
    /\ UNCHANGED <<tcpProcs, stream, last, tcpPast>>
ServerHungUp ==
    /\ Reading /\ stream = <<>> /\ ClosedByServer
    /\ \/ link # "rst" /\ ReaderEnds
       \/ /\ link = "rst" /\ link' = "reset"
          /\ UNCHANGED <<parent, reader, authenticated, stream, last, cause, told>>
    /\ UNCHANGED <<signalled, missed, heard>>

-----------------------------------------------------------------------------
(***************************************************************************)
(* The server and the network.                                             *)
(***************************************************************************)
ServerSends(notice) ==
    /\ link = "open" /\ Len(stream) < MaxUnread
    /\ stream' = Append(stream, notice)
    /\ told' = (told \/ notice = "disconnect")
    /\ UNCHANGED <<tcpProcs, link, last, cause, missed, heard>>

ServerCloses ==
    /\ link = "open"
    /\ link' \in {"fin", "rst"}
    /\ UNCHANGED <<tcpProcs, stream, last, tcpPast>>

ResetArrives ==
    /\ link = "provoked" /\ link' = "reset"
    /\ UNCHANGED <<tcpProcs, stream, last, tcpPast>>

ReaderStep ==
    \/ ReaderInterrupted \/ ReceiveDisconnect \/ ServerHungUp
    \/ \E n \in 1 .. MaxUnread : Receive(n)
TcpNext ==
    \/ GetPort \/ EstablishConnection \/ Authenticate \/ Fork
    \/ \E kind \in Kinds : Choose(kind)
    \/ ChooseExit \/ InputEnds \/ Interrupt
    \/ ParentInterrupted \/ ReaderStep
    \/ \E notice \in Received : ServerSends(notice)
    \/ ServerCloses \/ ResetArrives

TcpSpec == TcpInit /\ [][TcpNext]_tcpVars

\* What a process can do without the user or the server it does in the end.
TcpFairness ==
    /\ WF_tcpVars(ReaderStep)
    /\ WF_tcpVars(Authenticate \/ Fork \/ ParentInterrupted)

-----------------------------------------------------------------------------
(***************************************************************************)
(* Properties.                                                             *)
(***************************************************************************)
TcpTypeOK ==
    /\ parent \in ParentStates
    /\ reader \in {"none", "reading", "gone"}
    /\ signalled \subseteq {"parent", "reader"}
    /\ authenticated \in BOOLEAN
    /\ link \in Links
    /\ stream \in Seq(Received) /\ Len(stream) <= MaxUnread
    /\ last \in Kinds \cup {"silence", "authenticateme"}
    /\ cause \in {"none", "failed", "exit", "input", "sigint", "disconnect", "sigpipe"}
    /\ told \in BOOLEAN /\ missed \in BOOLEAN /\ heard \in BOOLEAN

\* A reader whose parent is gone keeps the connection, and a place in the
\* server, only if the input ended, a write failed or the parent alone was
\* interrupted; after option 4 or a disconnect it is already told to go.
OrphanReader ==
    reader = "reading" /\ parent = "gone" =>
        /\ link \notin {"none", "over"}
        /\ \/ cause \in {"input", "sigpipe", "sigint"}
           \/ cause = "exit" /\ "reader" \in signalled

\* A user who is at the menu without a reader has a SIGINT coming, or the
\* server has closed: then nothing tells the parent until it writes.
DeafMenu ==
    parent = "menu" /\ reader = "gone" =>
        \/ "parent" \in signalled
        \/ ClosedByServer

\* Option 4 ends both processes and so the connection.
ExitEndsBoth ==
    (cause = "exit") ~> (link = "over" /\ reader = "gone")

\* A disconnect ends both processes, unless recv() returned it behind another
\* notice: then it is lost, and the client goes on.
DisconnectObeyed ==
    told ~> (missed \/ (parent = "gone" /\ reader # "reading"))

\* The reader does not wait on a connection that the server has closed.
HangUpNoticed ==
    (ClosedByServer /\ reader = "reading") ~> (reader = "gone")

\* The program keeps what RefugeServer assumes of a client.
session == IF link = "none" THEN "none"
           ELSE IF link = "over" THEN "over" ELSE "up"
Promise == INSTANCE ClientPromise
KeepsPromise == Promise!Spec
=============================================================================
