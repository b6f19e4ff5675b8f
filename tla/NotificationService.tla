------------------------ MODULE NotificationService ------------------------
(***************************************************************************)
(* What the server promises a TCP connection, without its loop, sockets or *)
(* lists: it is connected for a while; if there was room when it joined it *)
(* is registered for as long as it is connected; and a notification goes,  *)
(* in one step, to exactly the connections registered at that moment.      *)
(***************************************************************************)
EXTENDS Naturals, FiniteSets

CONSTANTS
    Slots,           \* the names a connection can have while it is open
    Limit,           \* how many can be registered
    Notifications    \* what is broadcast

VARIABLES
    connected,       \* the slots in use
    registered,      \* those that are notified
    delivered        \* what each has been notified of since it joined

serviceVars == <<connected, registered, delivered>>

ServiceInit ==
    /\ connected = {} /\ registered = {}
    /\ delivered = [s \in Slots |-> {}]

Join(s) ==
    /\ s \notin connected
    /\ connected' = connected \cup {s}
    /\ registered' = IF Cardinality(registered) < Limit
                     THEN registered \cup {s} ELSE registered
    /\ UNCHANGED delivered

Part(s) ==
    /\ s \in connected
    /\ connected' = connected \ {s}
    /\ registered' = registered \ {s}
    /\ delivered' = [delivered EXCEPT ![s] = {}]

Notify(n) ==
    /\ delivered' = [s \in Slots |-> IF s \in registered THEN delivered[s] \cup {n}
                                                         ELSE delivered[s]]
    /\ UNCHANGED <<connected, registered>>

ServiceNext ==
    \/ \E s \in Slots : Join(s) \/ Part(s)
    \/ \E n \in Notifications : Notify(n)

ServiceSpec == ServiceInit /\ [][ServiceNext]_serviceVars
=============================================================================
