---------------------------- MODULE MCRefugeHost ----------------------------
(* Two runs of the server, two ports. *)
EXTENDS RefugeHost

\* The first run is given port 0, or no number, for TCP and looks for a UDP port:
\* 9 is DEFAULT_PORT.  The second is given both.
SomeArguments == [s \in Servers |-> IF s = 1 THEN [tcp |-> 0, udp |-> 9]
                                             ELSE [tcp |-> 1, udp |-> 2]]
SomeForeignPorts == {<<"tcp", 1>>, <<"udp", 2>>}
=============================================================================
