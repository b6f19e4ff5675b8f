---------------------------- MODULE ClientPromise ----------------------------
(***************************************************************************)
(* What the server may rely on from one run of a TCP client program: at    *)
(* most one connection, the greeting before anything else and only once,   *)
(* and nothing once the connection has been closed.  Connect, Ask and      *)
(* Leave of RefugeServer are these three steps.                            *)
(***************************************************************************)

CONSTANT Kinds     \* requests other than the greeting

VARIABLES
    session,       \* "none", "up" or "over"
    last           \* the last request, or "silence"

Init == session = "none" /\ last = "silence"

Connect ==
    /\ session = "none" /\ session' = "up"
    /\ UNCHANGED last

Ask ==
    /\ session = "up" /\ UNCHANGED session
    /\ \/ last = "silence" /\ last' = "authenticateme"
       \/ last # "silence" /\ last' \in Kinds

Leave ==
    /\ session = "up" /\ session' = "over"
    /\ UNCHANGED last

Next == Connect \/ Ask \/ Leave

Spec == Init /\ [][Next]_<<session, last>>
=============================================================================
