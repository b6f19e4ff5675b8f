--------------------------- MODULE MCRefugeServer ---------------------------
(***************************************************************************)
(* Instances of RefugeServer for TLC.                                      *)
(***************************************************************************)
EXTENDS RefugeServer, TLC

CONSTANTS c1, c2, c3, u1, u2, u3

\* One counter and one amount: adding it to a full counter wraps to zero.
OneItem == {"water"}
AddOne  == {[i \in OneItem |-> 1]}

\* u1 and u2 send from one port of two hosts.
SamePort == (u1 :> 5001) @@ (u2 :> 5001) @@ (u3 :> 5003)
NoPorts  == [p \in {} |-> 0]
=============================================================================
