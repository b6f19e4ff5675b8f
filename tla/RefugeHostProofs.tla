-------------------------- MODULE RefugeHostProofs --------------------------
(***************************************************************************)
(* What TLAPS proves of RefugeHost, for any number of runs, ports,         *)
(* arguments and mishaps.  The argument: a start is recorded as an overlap *)
(* of every run that lives and of every sensor process that has yet to make *)
(* its FIFO, so that a run outside `overlapped` is the only one alive      *)
(* (Alone), no other sensor process touches the path (Quiet), and it finds *)
(* what it has done itself (Own).                                          *)
(***************************************************************************)
EXTENDS RefugeHost, TLAPS

Unsettled == {"unlink", "mkfifo"}
Forked    == {"none", "unlink", "mkfifo"}

\* A round has an alert to send, and a FIFO to send it to.
Counted == \A s \in Servers :
    /\ sensor[s] \in {"check", "opening", "writing"} => hot[s] >= 1
    /\ sensor[s] \in {"opening", "writing"} => target[s] # NoOne

Alone == \A s, o \in Servers : Live(s) /\ Live(o) /\ s # o => s \in overlapped

Quiet == \A s, o \in Servers :
    Live(s) /\ sensor[o] \in Unsettled /\ s # o => s \in overlapped

Unforked == \A s \in Servers :
    main[s] \in {"off", "ports", "fork_sensor"} => sensor[s] = "none"

PathMade(s) ==
    \/ fifo_path = NoOne /\ <<"mkfifo", s>> \in unheeded
    \/ fifo_path # NoOne /\ (<<"unlink_fifo", s>> \notin unheeded => fifo_path = s)
PortShared(s) ==
    \A proto \in Protos : Shares(s, proto) => region[proto] = port[s][proto]
Shared(s) == main[s] = "bind_tcp" \/ HoldsTcp(s)
Unlinked(s) == main[s] \in {"share_ports", "bind_tcp", "bind_udp", "bind_unix"}

Own(s) ==
    /\ sensor[s] = "none" => main[s] \in {"ports", "fork_sensor"}
    /\ sensor[s] = "mkfifo" /\ <<"unlink_fifo", s>> \notin unheeded => fifo_path = NoOne
    /\ sensor[s] \notin Forked => PathMade(s)
    /\ sensor[s] \in {"opening", "writing"} => target[s] = fifo_path
    /\ Shared(s) => PortShared(s)
    /\ Unlinked(s) => sock_path = NoOne \/ <<"unlink_socket", s>> \in unheeded
    /\ HoldsUnix(s) => sock_path = s
    /\ Serving(s) => stock = s
    /\ Serving(s) /\ s \notin late =>
          /\ watched[s] = fifo_path /\ fifo_path # NoOne
          /\ sensor[s] \notin Forked /\ main[s] # "opening"

Owned == \A s \in Servers : Live(s) /\ s \notin overlapped => Own(s)

HostInv ==
    /\ TypeOK /\ Counted /\ Alone /\ Quiet /\ Unforked /\ Owned
    /\ StartupFailures

-----------------------------------------------------------------------------
(***************************************************************************)
(* What does not start a run leaves the parts of the invariant alone that  *)
(* it does not touch.                                                      *)
(***************************************************************************)
Shrinks == /\ overlapped \subseteq overlapped'
           /\ \A o \in Servers : Live(o)' => Live(o)
Settles == \A o \in Servers : sensor'[o] \in Unsettled => sensor[o] \in Unsettled

LEMMA AloneStays == Alone /\ Shrinks => Alone'
BY DEF Alone, Shrinks

LEMMA QuietStays == Quiet /\ Shrinks /\ Settles => Quiet'
BY DEF Quiet, Shrinks, Settles

SameFor(s) ==
    /\ \/ main'[s] = main[s]
       \/ Serving(s) /\ main'[s] \in {"serve", "read"}
    /\ \/ sensor'[s] = sensor[s] /\ target'[s] = target[s]
       \/ /\ sensor[s] \notin Forked /\ sensor'[s] \notin Forked
          /\ sensor'[s] \in {"opening", "writing"} =>
                \/ target'[s] = fifo_path
                \/ target'[s] = target[s] /\ sensor[s] \in {"opening", "writing"}
    /\ port'[s] = port[s] /\ watched'[s] = watched[s]
    /\ s \in late => s \in late'
    /\ UNCHANGED <<region, sock_path, fifo_path, stock, unheeded>>

LEMMA OwnStays ==
    ASSUME NEW s \in Servers, Own(s), SameFor(s)
    PROVE  Own(s)'
<1>1. /\ Shared(s)' => Shared(s)
      /\ Unlinked(s)' => Unlinked(s)
      /\ HoldsUnix(s)' => HoldsUnix(s)
      /\ Serving(s)' => Serving(s)
  BY DEF SameFor, Shared, Unlinked, HoldsTcp, HoldsUdp, HoldsUnix, Serving, Looping
<1>2. PortShared(s) => PortShared(s)'
  BY DEF SameFor, PortShared, Shares
<1>3. PathMade(s) => PathMade(s)'
  BY DEF SameFor, PathMade
<1> QED
  BY <1>1, <1>2, <1>3 DEF Own, SameFor, Serving, Looping, Forked

LEMMA OwnedStays ==
    ASSUME Owned, Shrinks, \A s \in Servers : Live(s)' => SameFor(s)
    PROVE  Owned'
<1> SUFFICES ASSUME NEW s \in Servers, Live(s)', s \notin overlapped'
             PROVE  Own(s)'
  BY DEF Owned
<1>1. Live(s) /\ s \notin overlapped
  BY DEF Shrinks
<1> QED
  BY <1>1, OwnStays DEF Owned

LEMMA UnforkedStays ==
    ASSUME Unforked,
           \A s \in Servers :
              main'[s] \in {"off", "ports", "fork_sensor"} =>
                 /\ main[s] \in {"off", "ports", "fork_sensor"}
                 /\ sensor[s] # "none" \/ sensor'[s] = sensor[s]
    PROVE  Unforked'
BY DEF Unforked

\* What has failed stays blamed on what it was.
Blames == /\ overlapped \subseteq overlapped' /\ late \subseteq late'
          /\ unheeded \subseteq unheeded' /\ foreign \subseteq foreign'
LEMMA BlameStays == StartupFailures /\ Blames /\ UNCHANGED why => StartupFailures'
BY DEF StartupFailures, Blames

\* A step of one live run concerns no other run outside `overlapped`.
LEMMA OthersOverlap ==
    ASSUME Alone, Shrinks, NEW o \in Servers, Live(o),
           NEW s \in Servers, s # o, Live(s)', s \notin overlapped'
    PROVE  FALSE
BY DEF Alone, Shrinks

-----------------------------------------------------------------------------
LEMMA HostInitially == Init => HostInv
<1> SUFFICES ASSUME Init PROVE HostInv
  OBVIOUS
<1>1. TypeOK
  BY HostAssumption DEF Init, TypeOK, Servers, NoOne, MaybeServer, NoPorts, PortInfo,
     Procs, Starting, Looping, Reported
<1>2. Counted /\ Alone /\ Quiet /\ Unforked /\ Owned /\ StartupFailures
  BY DEF Init, Counted, Alone, Quiet, Unforked, Owned, StartupFailures, Live,
     Starting, Looping, Protos
<1> QED
  BY <1>1, <1>2 DEF HostInv
-----------------------------------------------------------------------------
LEMMA TypesStep == TypeOK /\ Counted /\ [Next]_vars => TypeOK' /\ Counted'
<1> SUFFICES ASSUME TypeOK, Counted, [Next]_vars PROVE TypeOK' /\ Counted'
  OBVIOUS
<1> USE HostAssumption DEF TypeOK, Counted, Servers, NoOne, MaybeServer, Procs,
        Starting, Looping, mainVars, sensorVars, signalVars, pathVars, fifoVars,
        historyVars
<1>1. ASSUME NEW s \in Servers, Launch(s) PROVE TypeOK' /\ Counted'
  <2>1. mishaps' \in Nat
    BY <1>1 DEF Launch, Happens
  <2> QED
    BY <1>1, <2>1 DEF Launch
<1>a. ASSUME NEW s \in Servers, Ends(s)
      PROVE  /\ main' \in [Servers -> {"off", "ended"} \cup Starting \cup Looping]
             /\ port' \in [Servers -> PortInfo] /\ pipe' \subseteq Servers
             /\ watched' \in [Servers -> MaybeServer]
             /\ reading' \in [Servers -> MaybeServer]
             /\ UNCHANGED <<pathVars, overlapped, unheeded>>
  BY <1>a DEF Ends, NoPorts, PortInfo
<1>b. ASSUME NEW s \in Servers, NEW from,
             NEW call \in {"tcp", "udp", "unix", "fifo", "refused"},
             Fails(s, from, call), late' \subseteq Servers, mishaps' \in Nat
      PROVE  TypeOK' /\ Counted'
  <2>1. /\ Ends(s) /\ late' \subseteq Servers /\ mishaps' \in Nat
        /\ why' \in [Servers -> {"none", "tcp", "udp", "unix", "fifo", "refused"}]
        /\ UNCHANGED <<sensorVars, reporter, signalVars>>
    BY <1>b DEF Fails
  <2>2. Counted'
    BY <2>1
  <2>3. /\ main' \in [Servers -> {"off", "ended"} \cup Starting \cup Looping]
        /\ port' \in [Servers -> PortInfo] /\ pipe' \subseteq Servers
        /\ watched' \in [Servers -> MaybeServer]
        /\ reading' \in [Servers -> MaybeServer]
        /\ UNCHANGED <<pathVars, overlapped, unheeded>>
    BY <1>a, <2>1
  <2> HIDE DEF Counted
  <2> QED
    BY <2>1, <2>2, <2>3
<1>u. ASSUME NEW s \in Servers, NEW call \in Reported, Unheeded(s, call)
      PROVE  unheeded' \subseteq Reported \X Servers /\ mishaps' \in Nat
  <2>1. unheeded' = unheeded \cup {<<call, s>>} /\ mishaps' = mishaps + 1
    BY <1>u DEF Unheeded, Happens
  <2>2. mishaps' \in Nat
    BY <2>1
  <2>3. unheeded' \subseteq Reported \X Servers
    BY <2>1
  <2> QED
    BY <2>2, <2>3
<1>2. ASSUME NEW s \in Servers, StartUp(s) PROVE TypeOK' /\ Counted'
  <2>1. CASE ChoosePorts(s)
    <3>1. port' \in [Servers -> PortInfo]
      BY <2>1 DEF ChoosePorts, Available, PortInfo
    <3>2. /\ main' = [main EXCEPT ![s] = "fork_sensor"]
          /\ UNCHANGED <<sensorVars, reporter, signalVars, pathVars, fifoVars,
                         historyVars, mishaps>>
      BY <2>1 DEF ChoosePorts, Goes
    <3>3. Counted'
      BY <3>2
    <3> HIDE DEF Counted
    <3> QED
      BY <3>1, <3>2, <3>3
  <2>2. CASE create_infection_alerts_process(s)
    BY <2>2 DEF create_infection_alerts_process, Goes, Inherits
  <2>3. CASE create_power_outage_alert_process(s)
    BY <2>3 DEF create_power_outage_alert_process, Goes, Inherits
  <2>4. CASE cleanup_unix_socket(s) \/ Publish(s)
    <3>1. unheeded' \subseteq Reported \X Servers /\ mishaps' \in Nat
      <4>1. CASE Heeded
        BY <4>1 DEF Heeded
      <4>2. ASSUME NEW call \in Reported, Unheeded(s, call)
            PROVE  unheeded' \subseteq Reported \X Servers /\ mishaps' \in Nat
        BY <1>u, <4>2
      <4>3. PICK call \in Reported : Heeded \/ Unheeded(s, call)
        <5>1. Heeded \/ Unheeded(s, "unlink_socket") \/ Unheeded(s, "share_ports")
          BY ONLY <2>4 DEF cleanup_unix_socket, Publish, share_ports_shared_memory
        <5> QED
          BY ONLY <5>1 DEF Reported
      <4> QED
        BY <4>1, <4>2, <4>3
    <3>2. /\ main' \in [Servers -> {"off", "ended"} \cup Starting \cup Looping]
          /\ UNCHANGED <<port, sensorVars, reporter, signalVars, foreign,
                         fifo_path, stock, fifoVars, overlapped, late, why>>
      BY <2>4 DEF cleanup_unix_socket, Publish, Goes
    <3>3. region' \in PortInfo /\ sock_path' \in MaybeServer
      <4>1. region' \in {region, port[s], NoPorts} /\ sock_path' \in {sock_path, NoOne}
        BY ONLY <2>4 DEF cleanup_unix_socket, Publish, share_ports_shared_memory
      <4>2. NoPorts \in PortInfo /\ port[s] \in PortInfo
        BY DEF NoPorts, PortInfo
      <4> QED
        BY <4>1, <4>2
    <3>4. Counted'
      BY <3>2
    <3> HIDE DEF Counted
    <3> QED
      BY <3>1, <3>2, <3>3, <3>4
  <2>5. CASE BindPorts(s)
    <3>1. PICK proto \in Protos, from \in {"bind_tcp", "bind_udp"},
               to \in {"bind_udp", "bind_unix"} : BindsPort(s, proto, from, to)
      BY <2>5 DEF BindPorts, Protos
    <3>2. CASE Fails(s, from, proto) /\ UNCHANGED <<late, mishaps>>
      <4>1. proto \in {"tcp", "udp", "unix", "fifo", "refused"}
        BY DEF Protos
      <4>2. late' \subseteq Servers /\ mishaps' \in Nat
        BY <3>2
      <4> HIDE DEF TypeOK, Counted
      <4> QED
        BY <1>b, <3>2, <4>1, <4>2
    <3>3. ASSUME NEW p \in Bindable(s, proto), Goes(s, from, to),
                 port' = [port EXCEPT ![s][proto] = p],
                 UNCHANGED <<sensorVars, reporter, signalVars, pathVars, fifoVars,
                             historyVars, mishaps>>
          PROVE  TypeOK' /\ Counted'
      <4>1. main' \in [Servers -> {"off", "ended"} \cup Starting \cup Looping]
        BY <3>3 DEF Goes
      <4>2. p \in Ports \cup {0}
        BY DEF Bindable, PortInfo, Protos
      <4>3. [port[s] EXCEPT ![proto] = p] \in PortInfo
        <5>1. port[s] \in PortInfo
          OBVIOUS
        <5>2. CASE proto = "tcp"
          BY <4>2, <5>1, <5>2 DEF PortInfo
        <5>3. CASE proto = "udp"
          BY <4>2, <5>1, <5>3 DEF PortInfo
        <5> QED
          BY <5>2, <5>3 DEF Protos
      <4>4. port' \in [Servers -> PortInfo]
        BY <3>3, <4>3
      <4>5. Counted'
        BY <3>3
      <4> HIDE DEF Counted
      <4> QED
        BY <3>3, <4>1, <4>4, <4>5
    <3> QED
      BY <3>1, <3>2, <3>3 DEF BindsPort
  <2>6. CASE BindUnix(s)
    <3>1. CASE Fails(s, "bind_unix", "unix") /\ UNCHANGED <<late, mishaps>>
      BY <1>b, <3>1
    <3>2. CASE /\ Goes(s, "bind_unix", "open_fifo") /\ sock_path' = s
               /\ UNCHANGED <<port, sensorVars, reporter, signalVars, region, foreign,
                              fifo_path, stock, fifoVars, historyVars, mishaps>>
      BY <3>2 DEF Goes
    <3> QED
      BY <2>6, <3>1, <3>2 DEF BindUnix
  <2>7. CASE OpenFifo(s)
    <3>1. late' \subseteq Servers /\ mishaps' \in Nat
      BY <2>7 DEF OpenFifo
    <3>2. ASSUME Fails(s, "open_fifo", "fifo") PROVE TypeOK' /\ Counted'
      BY <1>b, <3>1, <3>2
    <3> QED
      <4>1. SUFFICES ASSUME fifo_path # NoOne,
                            main' = [Woken(fifo_path) EXCEPT ![s] = "serve"],
                            watched' = [watched EXCEPT ![s] = fifo_path], stock' = s,
                            UNCHANGED <<port, sensorVars, reporter, signalVars, region,
                                        foreign, sock_path, fifo_path, reading, pipe,
                                        overlapped, unheeded, why>>
                     PROVE  TypeOK' /\ Counted'
        BY <2>7, <3>2 DEF OpenFifo
      <4>2. main' \in [Servers -> {"off", "ended"} \cup Starting \cup Looping]
        BY <4>1 DEF Woken
      <4>3. Counted'
        BY <4>1
      <4> HIDE DEF Counted
      <4> QED
        BY <3>1, <4>1, <4>2, <4>3
  <2>8. CASE Refused(s)
    <3>1. PICK from \in Starting : Fails(s, from, "refused")
      BY <2>8 DEF Refused
    <3>2. late' \subseteq Servers /\ mishaps' \in Nat
      BY <2>8 DEF Refused, Happens
    <3> HIDE DEF TypeOK, Counted
    <3> QED
      BY <1>b, <3>1, <3>2
  <2> QED
    BY <1>2, <2>1, <2>2, <2>3, <2>4, <2>5, <2>6, <2>7, <2>8 DEF StartUp
<1>3. ASSUME NEW s \in Servers, Loop(s) PROVE TypeOK' /\ Counted'
  <2>1. CASE check_alerts(s)
    <3>1. pipe' \subseteq Servers /\ reading' \in [Servers -> MaybeServer]
      <4>1. CASE fifo_path \in pipe /\ pipe' = pipe \ {fifo_path} /\ UNCHANGED reading
        BY <4>1
      <4>2. CASE reading' = [reading EXCEPT ![s] = fifo_path] /\ UNCHANGED pipe
        BY <4>2
      <4> QED
        BY <2>1, <4>1, <4>2 DEF check_alerts
    <3>2. /\ main' \in [Servers -> {"off", "ended"} \cup Starting \cup Looping]
          /\ UNCHANGED <<port, watched, sensorVars, reporter, signalVars, pathVars,
                         historyVars, mishaps>>
      <4>1. PICK to \in {"serve", "read", "opening"} : Loops(s, "serve", to)
        BY <2>1 DEF check_alerts
      <4> QED
        BY <4>1 DEF Loops
    <3> QED
      BY <3>1, <3>2
  <2>2. CASE ReadReturns(s)
    BY <2>2 DEF ReadReturns, Loops
  <2> QED
    BY <1>3, <2>1, <2>2 DEF Loop
<1>4. ASSUME NEW s \in Servers, LeaveLoop(s) PROVE TypeOK' /\ Counted'
  BY <1>a, <1>4 DEF LeaveLoop
<1>5. ASSUME NEW s \in Servers, Kill(s) PROVE TypeOK' /\ Counted'
  <2>1. /\ Ends(s) /\ mishaps' \in Nat
        /\ UNCHANGED <<sensorVars, reporter, signalVars, late, why>>
    BY <1>5 DEF Kill, Happens
  <2>2. Counted'
    BY <2>1
  <2>3. /\ main' \in [Servers -> {"off", "ended"} \cup Starting \cup Looping]
        /\ port' \in [Servers -> PortInfo] /\ pipe' \subseteq Servers
        /\ watched' \in [Servers -> MaybeServer]
        /\ reading' \in [Servers -> MaybeServer]
        /\ UNCHANGED <<pathVars, overlapped, unheeded>>
    BY <1>a, <2>1
  <2> HIDE DEF Counted
  <2> QED
    BY <2>1, <2>2, <2>3
<1>6. ASSUME NEW s \in Servers, Interrupt(s) PROVE TypeOK' /\ Counted'
  <2>1. pending' \in [Servers -> SUBSET {"sensor", "reporter"}]
    BY <1>6 DEF Interrupt, Passed, Children
  <2>2. mishaps' \in Nat /\ running' \in [Servers -> SUBSET Procs]
    BY <1>6 DEF Interrupt, Happens, Stops
  <2>3. main' \in [Servers -> {"off", "ended"} \cup Starting \cup Looping]
    BY <1>6 DEF Interrupt
  <2> QED
    BY <1>6, <2>1, <2>2, <2>3 DEF Interrupt
<1>c. ASSUME NEW s \in Servers, NEW n \in 0 .. NUM_SENSORS, NEW flags,
             Continues(s, n, flags), UNCHANGED target
      PROVE  /\ hot' \in [Servers -> 0 .. NUM_SENSORS]
             /\ sensor' \in [Servers -> {"none", "unlink", "mkfifo", "sleep",
                                         "check", "opening", "writing", "gone"}]
             /\ Counted'
  BY <1>c DEF Continues
<1>d. ASSUME NEW s \in Servers, NEW flags, Round(s, flags), UNCHANGED target
      PROVE  /\ hot' \in [Servers -> 0 .. NUM_SENSORS]
             /\ sensor' \in [Servers -> {"none", "unlink", "mkfifo", "sleep",
                                         "check", "opening", "writing", "gone"}]
             /\ Counted' /\ mishaps' \in Nat
  BY <1>c, <1>d DEF Round, Happens
<1>7. ASSUME NEW s \in Servers, SensorProcess(s) PROVE TypeOK' /\ Counted'
  <2>1. CASE cleanup_fifo(s)
    <3>1. /\ sensor' = [sensor EXCEPT ![s] = "mkfifo"] /\ fifo_path' \in MaybeServer
          /\ UNCHANGED <<mainVars, hot, target, reporter, signalVars, region, foreign,
                         sock_path, stock, fifoVars, overlapped, late, why>>
      BY <2>1 DEF cleanup_fifo
    <3>2. unheeded' \subseteq Reported \X Servers /\ mishaps' \in Nat
      <4>1. CASE Heeded
        BY <4>1 DEF Heeded
      <4>2. CASE Unheeded(s, "unlink_fifo")
        <5>1. "unlink_fifo" \in Reported
          BY DEF Reported
        <5> QED
          BY <1>u, <4>2, <5>1
      <4> QED
        BY <2>1, <4>1, <4>2 DEF cleanup_fifo
    <3>3. Counted'
      BY <3>1
    <3> HIDE DEF Counted
    <3> QED
      BY <3>1, <3>2, <3>3
  <2>2. CASE initiateAlertModule(s)
    <3>1. Continues(s, 0, running[s])
      BY <2>2 DEF initiateAlertModule
    <3>2. unheeded' \subseteq Reported \X Servers /\ mishaps' \in Nat
      <4>1. CASE Heeded
        BY <4>1 DEF Heeded
      <4>2. CASE Unheeded(s, "mkfifo")
        <5>1. "mkfifo" \in Reported
          BY DEF Reported
        <5> QED
          BY <1>u, <4>2, <5>1
      <4> QED
        BY <2>2, <4>1, <4>2 DEF initiateAlertModule
    <3> QED
      <4>1. /\ fifo_path' \in MaybeServer
            /\ UNCHANGED <<mainVars, target, reporter, signalVars, region, foreign,
                           sock_path, stock, fifoVars, overlapped, late, why>>
        BY <2>2 DEF initiateAlertModule
      <4>2. /\ hot' \in [Servers -> 0 .. NUM_SENSORS]
            /\ sensor' \in [Servers -> {"none", "unlink", "mkfifo", "sleep",
                                        "check", "opening", "writing", "gone"}]
            /\ Counted'
        <5>1. PICK flags : Continues(s, 0, flags)
          BY <3>1
        <5>2. 0 \in 0 .. NUM_SENSORS
          OBVIOUS
        <5> HIDE DEF Counted
        <5> QED
          BY <1>c, <4>1, <5>1, <5>2
      <4> HIDE DEF Counted
      <4> QED
        BY <3>2, <4>1, <4>2
  <2>3. CASE SensorWakes(s)
    <3>1. /\ Round(s, running[s]) /\ SensorOnly
          /\ UNCHANGED <<main, target, running, pending, fifo_path, pipe>>
      BY <2>3 DEF SensorWakes, Senses
    <3>2. /\ hot' \in [Servers -> 0 .. NUM_SENSORS]
          /\ sensor' \in [Servers -> {"none", "unlink", "mkfifo", "sleep",
                                          "check", "opening", "writing", "gone"}]
          /\ Counted' /\ mishaps' \in Nat
      BY <1>d, <3>1
    <3> HIDE DEF Counted
    <3> QED
      BY <3>1, <3>2 DEF SensorOnly
  <2>4. CASE send_alert(s)
    <3>1. CASE fifo_path = NoOne
      <4>1. Continues(s, hot[s] - 1, running[s]) /\ hot[s] - 1 \in 0 .. NUM_SENSORS
        BY <2>4, <3>1 DEF send_alert, Senses
      <4> QED
        BY <1>c, <2>4, <3>1, <4>1 DEF send_alert, Senses, SensorOnly
    <3>2. CASE fifo_path # NoOne
      <4>1. /\ sensor' = [sensor EXCEPT ![s] = "opening"] /\ sensor[s] = "check"
            /\ target' = [target EXCEPT ![s] = fifo_path] /\ UNCHANGED hot
        BY <2>4, <3>2 DEF send_alert, Senses
      <4>2. Counted'
        BY <3>2, <4>1
      <4> QED
        BY <2>4, <4>1, <4>2 DEF send_alert, Senses, SensorOnly
    <3> QED
      BY <3>1, <3>2
  <2>5. CASE AlertOpens(s)
    BY <2>5 DEF AlertOpens, Senses, SensorOnly, Woken
  <2>6. CASE AlertWritten(s)
    <3>1. target' \in [Servers -> MaybeServer]
      BY <2>6 DEF AlertWritten
    <3>2. CASE Reader(target[s])
      <4>1. Continues(s, hot[s] - 1, running[s]) /\ hot[s] - 1 \in 0 .. NUM_SENSORS
        BY <2>6, <3>2 DEF AlertWritten, Senses
      <4>2. target[s] \in Servers
        BY <2>6 DEF AlertWritten, Senses
      <4>3. sensor'[s] \notin {"opening", "writing"}
        BY <4>1 DEF Continues
      <4>4. target' = [target EXCEPT ![s] = NoOne] /\ sensor' = [sensor EXCEPT ![s] = sensor'[s]]
        BY <2>6, <4>1 DEF AlertWritten, Continues
      <4>5. hot' = [hot EXCEPT ![s] = hot[s] - 1]
        BY <4>1 DEF Continues
      <4>6. Counted'
        BY <4>1, <4>3, <4>4, <4>5 DEF Continues
      <4> QED
        <5>1. sensor'[s] \in {"check", "sleep", "gone"}
          BY <4>1 DEF Continues
        <5>2. /\ hot' \in [Servers -> 0 .. NUM_SENSORS]
              /\ sensor' \in [Servers -> {"none", "unlink", "mkfifo", "sleep",
                                          "check", "opening", "writing", "gone"}]
          <6>1. hot' \in [Servers -> 0 .. NUM_SENSORS]
            BY <4>1, <4>5
          <6>2. sensor' \in [Servers -> {"none", "unlink", "mkfifo", "sleep",
                                          "check", "opening", "writing", "gone"}]
            BY <4>4, <5>1
          <6> QED
            BY <6>1, <6>2
        <5>3. /\ pipe' \subseteq Servers /\ SensorOnly
              /\ UNCHANGED <<main, running, pending, fifo_path, mishaps>>
          BY <2>6, <3>2, <4>2 DEF AlertWritten, Senses
        <5> QED
          BY <3>1, <4>6, <5>2, <5>3 DEF SensorOnly
    <3>3. CASE ~Reader(target[s])
      <4>1. /\ sensor' = [sensor EXCEPT ![s] = "gone"] /\ hot' = [hot EXCEPT ![s] = 0]
            /\ target' = [target EXCEPT ![s] = NoOne]
        BY <2>6, <3>3 DEF AlertWritten
      <4>2. Counted'
        BY <4>1
      <4> QED
        <5>1. /\ hot' \in [Servers -> 0 .. NUM_SENSORS]
              /\ sensor' \in [Servers -> {"none", "unlink", "mkfifo", "sleep",
                                          "check", "opening", "writing", "gone"}]
          BY <4>1
        <5>2. /\ UNCHANGED pipe /\ SensorOnly
              /\ UNCHANGED <<main, running, pending, fifo_path, mishaps>>
          BY <2>6, <3>3 DEF AlertWritten, Senses
        <5> QED
          BY <3>1, <4>2, <5>1, <5>2 DEF SensorOnly
    <3> QED
      BY <3>2, <3>3
  <2>7. CASE SensorInterrupted(s)
    <3>1. /\ pending' \in [Servers -> SUBSET {"sensor", "reporter"}]
          /\ running' \in [Servers -> SUBSET Procs]
      BY <2>7 DEF SensorInterrupted, Stops
    <3>2. CASE sensor[s] = "sleep"
      BY <1>d, <2>7, <3>1, <3>2 DEF SensorInterrupted, SensorOnly
    <3>3. CASE sensor[s] = "opening"
      <4>1. Continues(s, hot[s] - 1, {}) /\ hot[s] - 1 \in 0 .. NUM_SENSORS
        BY <2>7, <3>3 DEF SensorInterrupted
      <4> QED
        <5>1. /\ SensorOnly
              /\ UNCHANGED <<main, target, fifo_path, pipe, mishaps>>
          BY <2>7, <3>3 DEF SensorInterrupted
        <5>2. /\ hot' \in [Servers -> 0 .. NUM_SENSORS]
              /\ sensor' \in [Servers -> {"none", "unlink", "mkfifo", "sleep",
                                          "check", "opening", "writing", "gone"}]
              /\ Counted'
          BY <1>c, <4>1, <5>1
        <5> HIDE DEF Counted
        <5> QED
          BY <3>1, <5>1, <5>2 DEF SensorOnly
    <3>4. CASE sensor[s] \notin {"sleep", "opening"}
      <4>1. SensorOnly /\ UNCHANGED <<main, sensor, hot, target, fifo_path, pipe, mishaps>>
        BY <2>7, <3>4 DEF SensorInterrupted
      <4>2. Counted'
        BY <4>1
      <4> QED
        BY <3>1, <4>1, <4>2 DEF SensorOnly
    <3> QED
      BY <3>2, <3>3, <3>4
  <2> QED
    BY <1>7, <2>1, <2>2, <2>3, <2>4, <2>5, <2>6, <2>7 DEF SensorProcess
<1>8. ASSUME NEW s \in Servers, ReporterProcess(s) PROVE TypeOK' /\ Counted'
  <2>1. ASSUME NEW from \in {"settle", "sleep", "connect"},
               NEW to \in {"sleep", "connect", "gone"}, Reports(s, from, to)
        PROVE  TypeOK' /\ Counted'
    BY <2>1 DEF Reports, ReporterOnly
  <2>2. Again(s) \in {"sleep", "gone"}
    BY DEF Again
  <2>3. CASE ReporterSettles(s) \/ ReporterWakes(s) \/ init_emergency_notification(s)
    <3>1. PICK from \in {"settle", "sleep", "connect"},
                to \in {"sleep", "connect", "gone"} : Reports(s, from, to)
      BY <2>2, <2>3 DEF ReporterSettles, ReporterWakes, init_emergency_notification
    <3> HIDE DEF TypeOK, Counted
    <3> QED
      BY <2>1, <3>1
  <2>4. CASE ReporterInterrupted(s)
    <3>1. pending' \in [Servers -> SUBSET {"sensor", "reporter"}]
      BY <2>4 DEF ReporterInterrupted, Passed
    <3>2. running' \in [Servers -> SUBSET Procs]
      BY <2>4 DEF ReporterInterrupted, Stops
    <3>3. reporter' \in [Servers -> {"none", "settle", "sleep", "connect", "gone"}]
      BY <2>4 DEF ReporterInterrupted
    <3> QED
      BY <2>4, <3>1, <3>2, <3>3 DEF ReporterInterrupted, ReporterOnly
  <2> QED
    BY <1>8, <2>3, <2>4 DEF ReporterProcess
<1>9. CASE ForeignBind
  <2>1. mishaps' \in Nat
    BY <1>9 DEF ForeignBind, Happens
  <2>2. foreign' \subseteq ForeignPorts
    BY <1>9 DEF ForeignBind
  <2>3. UNCHANGED <<mainVars, sensorVars, reporter, signalVars, region, sock_path,
                    fifo_path, stock, fifoVars, historyVars>>
    BY <1>9 DEF ForeignBind
  <2>4. Counted'
    BY <2>3
  <2> HIDE DEF Counted
  <2> QED
    BY <2>1, <2>2, <2>3, <2>4
<1>10. CASE UNCHANGED vars
  BY <1>10 DEF vars
<1> QED
  BY <1>1, <1>2, <1>3, <1>4, <1>5, <1>6, <1>7, <1>8, <1>9, <1>10 DEF Next

-----------------------------------------------------------------------------
Rest == Alone /\ Quiet /\ Unforked /\ Owned /\ StartupFailures

\* A step after which every live run was live and is as before.
LEMMA RestStays ==
    ASSUME HostInv, Shrinks, Settles, Blames, UNCHANGED why,
           \A s \in Servers : Live(s)' => SameFor(s),
           \A s \in Servers :
              main'[s] \in {"off", "ports", "fork_sensor"} =>
                 /\ main[s] \in {"off", "ports", "fork_sensor"}
                 /\ sensor[s] # "none" \/ sensor'[s] = sensor[s]
    PROVE  Rest'
BY AloneStays, QuietStays, OwnedStays, UnforkedStays, BlameStays DEF HostInv, Rest

LEMMA LaunchStep ==
    ASSUME HostInv, NEW s \in Servers, Launch(s)
    PROVE  Rest'
<1> USE DEF HostInv, TypeOK
<1>1. /\ main[s] = "off" /\ main' = [main EXCEPT ![s] = "ports"]
      /\ overlapped' = overlapped \cup {o \in Servers : Live(o)}
                       \cup {o \in {s} : \E q \in Servers : Settling(q)}
      /\ UNCHANGED <<sensor, late, unheeded, foreign, why>>
  BY DEF Launch, sensorVars, pathVars
<1>2. sensor[s] = "none"
  BY <1>1 DEF Unforked
<1>3. \A o \in Servers : Live(o)' /\ o # s => o \in overlapped'
  BY <1>1 DEF Live
<1>4. \A o \in Servers : Live(o) \/ sensor[o] \in Unsettled => s \in overlapped'
  BY <1>1 DEF Settling, Unsettled
<1>5. Alone'
  BY <1>1, <1>3, <1>4 DEF Alone, Live
<1>6. Quiet'
  BY <1>1, <1>3, <1>4 DEF Quiet
<1>7. Unforked'
  BY <1>1, <1>2 DEF Unforked
<1>8. Owned'
  <2> SUFFICES ASSUME Live(s)', s \notin overlapped' PROVE Own(s)'
    BY <1>3 DEF Owned
  <2>1. main'[s] = "ports" /\ sensor'[s] = "none"
    BY <1>1, <1>2
  <2> QED
    BY <2>1 DEF Own, Shared, Unlinked, HoldsTcp, HoldsUdp, HoldsUnix, Serving, Looping, Forked
<1>9. StartupFailures'
  BY <1>1, BlameStays DEF Blames
<1> QED
  BY <1>5, <1>6, <1>7, <1>8, <1>9 DEF Rest

\* exit(), a signal or a crash ends run s.
LEMMA EndsStep ==
    ASSUME HostInv, NEW s \in Servers, Ends(s), UNCHANGED sensorVars,
           late \subseteq late'
    PROVE  /\ Shrinks /\ Settles /\ UNCHANGED <<overlapped, unheeded, foreign>>
           /\ \A o \in Servers : Live(o)' => SameFor(o)
           /\ \A o \in Servers :
                 main'[o] \in {"off", "ports", "fork_sensor"} =>
                    main[o] \in {"off", "ports", "fork_sensor"} /\ sensor'[o] = sensor[o]
           /\ Alone' /\ Quiet' /\ Unforked' /\ Owned'
<1> USE DEF HostInv, TypeOK
<1>1. /\ main' = [main EXCEPT ![s] = "ended"] /\ port' = [port EXCEPT ![s] = NoPorts]
      /\ watched' = [watched EXCEPT ![s] = NoOne]
      /\ UNCHANGED <<region, sock_path, fifo_path, stock, foreign, overlapped,
                     unheeded, sensor, target>>
  BY DEF Ends, pathVars, sensorVars
<1>2. Shrinks /\ Settles
  BY <1>1 DEF Shrinks, Settles, Live, Starting, Looping
<1>3. \A o \in Servers : Live(o)' => SameFor(o)
  BY <1>1 DEF SameFor, Live, Starting, Looping
<1>4. \A o \in Servers :
         main'[o] \in {"off", "ports", "fork_sensor"} =>
            main[o] \in {"off", "ports", "fork_sensor"} /\ sensor'[o] = sensor[o]
  BY <1>1
<1> QED
  BY <1>1, <1>2, <1>3, <1>4, AloneStays, QuietStays, OwnedStays, UnforkedStays

\* A start-up fails only for the reasons that StartupFailures names.
LEMMA FailsStep ==
    ASSUME HostInv, NEW s \in Servers, NEW from, NEW call, Fails(s, from, call),
           late \subseteq late',
           s \notin overlapped =>
              /\ call = "unix" => <<"unlink_socket", s>> \in unheeded
              /\ call \in Protos => foreign # {}
              /\ call = "fifo" => s \in late' \/ <<"mkfifo", s>> \in unheeded
    PROVE  Rest'
<1>1. /\ Ends(s) /\ UNCHANGED sensorVars /\ why' = [why EXCEPT ![s] = call]
  BY DEF Fails
<1>2. /\ Alone' /\ Quiet' /\ Unforked' /\ Owned'
      /\ UNCHANGED <<overlapped, unheeded, foreign>>
  BY <1>1, EndsStep
<1>3. StartupFailures'
  BY <1>1, <1>2 DEF HostInv, TypeOK, StartupFailures
<1> QED
  BY <1>2, <1>3 DEF Rest

-----------------------------------------------------------------------------
\* A statement of the start-up of s: the others that live are overlapped.
Moves(s, to) ==
    /\ main'[s] = to
    /\ \A o \in Servers \ {s} : \/ main'[o] = main[o]
                                \/ main[o] = "opening" /\ main'[o] = "read"
LEMMA GoesStep ==
    ASSUME HostInv, NEW s \in Servers, Live(s), NEW to, to \in Starting \cup Looping,
           Moves(s, to),
           overlapped' = overlapped, s \notin overlapped => Own(s)',
           late \subseteq late', unheeded \subseteq unheeded', UNCHANGED <<foreign, why>>,
           \A o \in Servers \ {s} : sensor'[o] = sensor[o],
           to \in {"ports", "fork_sensor"} => sensor'[s] = "none"
    PROVE  Rest'
<1> USE DEF HostInv, TypeOK
<1>1. Shrinks
  BY DEF Shrinks, Live, Starting, Looping, Moves
<1>2. Alone'
  BY <1>1, AloneStays
<1>3. \A o \in Servers \ {s} : Live(o)' => o \in overlapped
  BY <1>1, OthersOverlap
<1>4. Quiet'
  <2> SUFFICES ASSUME NEW o \in Servers, NEW q \in Servers, Live(o)',
                      sensor'[q] \in Unsettled, o # q
               PROVE  o \in overlapped'
    BY DEF Quiet
  <2>1. CASE o = s
    BY <2>1 DEF Quiet
  <2>2. CASE o # s
    BY <1>3, <2>2
  <2> QED
    BY <2>1, <2>2
<1>5. Unforked'
  <2> SUFFICES ASSUME NEW o \in Servers, main'[o] \in {"off", "ports", "fork_sensor"}
               PROVE  sensor'[o] = "none"
    BY DEF Unforked
  <2>1. CASE o = s
    BY <2>1 DEF Starting, Looping, Moves
  <2>2. CASE o # s
    BY <2>2 DEF Unforked, Moves
  <2> QED
    BY <2>1, <2>2
<1>6. Owned'
  BY <1>3 DEF Owned
<1>7. StartupFailures'
  BY BlameStays DEF Blames
<1> QED
  BY <1>2, <1>4, <1>5, <1>6, <1>7 DEF Rest

\* What s has done itself is still so after a statement that leaves the
\* machine alone.
LEMMA OwnGoes ==
    ASSUME NEW s \in Servers, Own(s), main[s] \notin {"ports", "fork_sensor"},
           main'[s] # "opening",
           UNCHANGED <<sensor, target, region, sock_path, fifo_path, stock, watched,
                       late, unheeded>>,
           Shared(s)' => Shared(s) /\ PortShared(s)',
           Unlinked(s)' => Unlinked(s),
           HoldsUnix(s)' => HoldsUnix(s), Serving(s)' => Serving(s)
    PROVE  Own(s)'
BY DEF Own, PathMade

LEMMA StartUpStep ==
    ASSUME HostInv, NEW s \in Servers, StartUp(s)
    PROVE  Rest'
<1> USE DEF HostInv, TypeOK
<1>0. Live(s)
  BY DEF StartUp, ChoosePorts, create_infection_alerts_process,
         create_power_outage_alert_process, cleanup_unix_socket, Publish, BindPorts,
         BindsPort, BindUnix, OpenFifo, Refused, Goes, Fails, Live, Starting
<1>a. s \notin overlapped => Own(s)
  BY <1>0 DEF Owned
<1>b. \A o \in Servers, proto \in Protos : Holds(o, proto) => Live(o)
  BY DEF Holds, HoldsTcp, HoldsUdp, HoldsUnix, Serving, Live, Starting, Looping
<1>c. ASSUME NEW to, main' = [main EXCEPT ![s] = to]
      PROVE  Moves(s, to)
  BY <1>c DEF Moves
<1> USE DEF mainVars, sensorVars, signalVars, pathVars, fifoVars, historyVars
<1>1. CASE ChoosePorts(s)
  <2>1. /\ main[s] = "ports" /\ main' = [main EXCEPT ![s] = "fork_sensor"]
        /\ UNCHANGED <<sensorVars, pathVars, fifoVars, historyVars>>
    BY <1>1 DEF ChoosePorts, Goes
  <2>2. sensor[s] = "none"
    BY <2>1 DEF Unforked
  <2>3. Own(s)'
    BY <2>1, <2>2 DEF Own, Shared, Unlinked, HoldsTcp, HoldsUdp, HoldsUnix, Serving,
                      Looping, Forked
  <2> QED
    BY <1>0, <1>c, <2>1, <2>2, <2>3, GoesStep DEF Starting
<1>2. CASE create_infection_alerts_process(s)
  <2>1. /\ main' = [main EXCEPT ![s] = "fork_reporter"]
        /\ sensor' = [sensor EXCEPT ![s] = "unlink"]
        /\ UNCHANGED <<pathVars, fifoVars, historyVars>>
    BY <1>2 DEF create_infection_alerts_process, Goes
  <2>2. Own(s)'
    BY <2>1 DEF Own, Shared, Unlinked, HoldsTcp, HoldsUdp, HoldsUnix, Serving, Looping,
                Forked
  <2> QED
    BY <1>0, <1>c, <2>1, <2>2, GoesStep DEF Starting
<1>3. CASE create_power_outage_alert_process(s)
  <2>1. /\ main[s] = "fork_reporter" /\ main' = [main EXCEPT ![s] = "unlink_socket"]
        /\ UNCHANGED <<sensorVars, pathVars, fifoVars, historyVars>>
    BY <1>3 DEF create_power_outage_alert_process, Goes
  <2>2. ~Shared(s)' /\ ~Unlinked(s)' /\ ~HoldsUnix(s)' /\ ~Serving(s)'
    BY <2>1 DEF Shared, Unlinked, HoldsTcp, HoldsUdp, HoldsUnix, Serving, Looping
  <2>3. Own(s) => Own(s)'
    BY <2>1, <2>2, OwnGoes DEF sensorVars
  <2> QED
    BY <1>0, <1>a, <1>c, <2>1, <2>3, GoesStep DEF Starting
<1>4. CASE cleanup_unix_socket(s)
  <2>1. /\ main[s] = "unlink_socket" /\ main' = [main EXCEPT ![s] = "share_ports"]
        /\ UNCHANGED <<sensorVars, region, foreign, fifo_path, stock, fifoVars,
                       overlapped, late, why>>
    BY <1>4 DEF cleanup_unix_socket, Goes
  <2>2. /\ sock_path' = NoOne \/ <<"unlink_socket", s>> \in unheeded'
        /\ unheeded \subseteq unheeded'
    BY <1>4 DEF cleanup_unix_socket, Heeded, Unheeded
  <2>3. ~Shared(s)' /\ ~HoldsUnix(s)' /\ ~Serving(s)'
    BY <2>1 DEF Shared, HoldsTcp, HoldsUdp, HoldsUnix, Serving, Looping
  <2>4. Own(s) => Own(s)'
    BY <2>1, <2>2, <2>3 DEF Own, PathMade
  <2> QED
    BY <1>0, <1>a, <1>c, <2>1, <2>2, <2>4, GoesStep DEF Starting
<1>5. CASE Publish(s)
  <2>1. /\ main[s] = "share_ports" /\ main' = [main EXCEPT ![s] = "bind_tcp"]
        /\ UNCHANGED <<port, sensorVars, foreign, sock_path, fifo_path, stock, fifoVars,
                       overlapped, late, why>>
    BY <1>5 DEF Publish, Goes
  <2>2. /\ region' = port[s] \/ <<"share_ports", s>> \in unheeded'
        /\ unheeded \subseteq unheeded'
    BY <1>5 DEF Publish, share_ports_shared_memory, Heeded, Unheeded
  <2>3. ~HoldsUnix(s)' /\ ~Serving(s)' /\ Unlinked(s)
    BY <2>1 DEF Unlinked, HoldsUnix, Serving, Looping
  <2>4. PortShared(s)'
    BY <2>1, <2>2 DEF PortShared, Shares
  <2>5. Own(s) => Own(s)'
    BY <2>1, <2>2, <2>3, <2>4 DEF Own, PathMade
  <2> QED
    BY <1>0, <1>a, <1>c, <2>1, <2>2, <2>5, GoesStep DEF Starting
<1>6. CASE BindPorts(s)
  <2>1. PICK proto \in Protos, from \in Starting, to \in Starting :
           /\ BindsPort(s, proto, from, to)
           /\ \/ proto = "tcp" /\ from = "bind_tcp" /\ to = "bind_udp"
              \/ proto = "udp" /\ from = "bind_udp" /\ to = "bind_unix"
    BY <1>6 DEF BindPorts, Protos, Starting
  <2>2. ASSUME NEW p \in Bindable(s, proto), Goes(s, from, to),
               port' = [port EXCEPT ![s][proto] = p],
               UNCHANGED <<sensorVars, pathVars, fifoVars, historyVars>>
        PROVE  Rest'
    <3>1. main[s] = from /\ main' = [main EXCEPT ![s] = to]
      BY <2>2 DEF Goes
    <3>2. Arguments[s][proto] # 0 => port' = port
      BY <2>2 DEF Bindable, PortInfo, Protos
    <3>3. \A q \in Protos : q # proto => port'[s][q] = port[s][q]
      BY <2>2 DEF PortInfo, Protos
    <3>4. PortShared(s) => PortShared(s)'
      BY <2>2, <3>2, <3>3 DEF PortShared, Shares
    <3>5. /\ Shared(s) /\ Unlinked(s)
          /\ ~HoldsUnix(s)' /\ ~Serving(s)'
      BY <2>1, <3>1 DEF Shared, Unlinked, HoldsTcp, HoldsUdp, HoldsUnix, Serving, Looping
    <3>6. Own(s) => Own(s)'
      <4>1. main[s] \notin {"ports", "fork_sensor"} /\ main'[s] # "opening"
        BY <2>1, <3>1
      <4>2. UNCHANGED <<sensor, target, region, sock_path, fifo_path, stock, watched,
                        late, unheeded>>
        BY <2>2
      <4>3. Own(s) => PortShared(s)
        BY <3>5 DEF Own
      <4> QED
        BY <3>4, <3>5, <4>1, <4>2, <4>3, OwnGoes
    <3>7. Moves(s, to)
      BY <1>c, <3>1
    <3>8. to \notin {"ports", "fork_sensor"}
      BY <2>1
    <3> QED
      BY <1>0, <1>a, <2>2, <3>6, <3>7, <3>8, GoesStep
  <2>3. ASSUME Arguments[s][proto] # 0, Bindable(s, proto) = {},
               Fails(s, from, proto), UNCHANGED late
        PROVE  Rest'
    <3>1. Taken(proto, port[s][proto])
      BY <2>3 DEF Bindable
    <3>2. s \notin overlapped => \A o \in Servers : ~Holds(o, proto)
      <4>1. main[s] = from
        BY <2>3 DEF Fails
      <4>2. \A o \in Servers : Holds(o, proto) /\ s \notin overlapped => o = s
        BY <1>0, <1>b DEF Alone
      <4>3. ~Holds(s, proto)
        BY <1>6, <2>1, <4>1 DEF Holds, HoldsTcp, HoldsUdp, HoldsUnix, Serving, Looping
      <4> QED
        BY <4>2, <4>3
    <3>3. s \notin overlapped => foreign # {}
      BY <3>1, <3>2 DEF Taken
    <3>4. proto # "unix" /\ proto # "fifo"
      BY DEF Protos
    <3> QED
      BY <2>3, <3>3, <3>4, FailsStep
  <2> QED
    BY <2>1, <2>2, <2>3 DEF BindsPort
<1>7. CASE BindUnix(s)
  <2>1. CASE /\ Goes(s, "bind_unix", "open_fifo") /\ sock_path' = s
             /\ UNCHANGED <<port, sensorVars, region, foreign, fifo_path, stock,
                            fifoVars, historyVars>>
    <3>1. main[s] = "bind_unix" /\ main' = [main EXCEPT ![s] = "open_fifo"]
      BY <2>1 DEF Goes
    <3>2. ~Unlinked(s)' /\ ~Serving(s)' /\ Shared(s)
      BY <3>1 DEF Shared, Unlinked, HoldsTcp, HoldsUdp, HoldsUnix, Serving, Looping
    <3>3. PortShared(s) => PortShared(s)'
      BY <2>1 DEF PortShared, Shares
    <3>4. Own(s) => Own(s)'
      BY <2>1, <3>1, <3>2, <3>3 DEF Own, PathMade
    <3> QED
      BY <1>0, <1>a, <1>c, <2>1, <3>1, <3>4, GoesStep DEF Starting
  <2>2. CASE sock_path # NoOne /\ Fails(s, "bind_unix", "unix") /\ UNCHANGED late
    <3>1. s \notin overlapped => <<"unlink_socket", s>> \in unheeded
      BY <1>a, <2>2 DEF Own, Unlinked, Fails
    <3> QED
      BY <2>2, <3>1, FailsStep DEF Protos
  <2> QED
    BY <1>7, <2>1, <2>2 DEF BindUnix
<1>8. CASE OpenFifo(s)
  <2>1. /\ late' = IF Made(s) THEN late ELSE late \cup {s}
        /\ main[s] = "open_fifo"
    BY <1>8 DEF OpenFifo, Fails
  <2>2. Own(s) /\ Made(s) =>
           /\ fifo_path # NoOne \/ <<"mkfifo", s>> \in unheeded
           /\ sensor[s] \notin Forked
    BY <2>1 DEF Own, Made, Forked, PathMade
  <2>3. s \notin late' => Made(s)
    BY <2>1
  <2>4. CASE /\ fifo_path # NoOne
             /\ main' = [Woken(fifo_path) EXCEPT ![s] = "serve"] /\ stock' = s
             /\ watched' = [watched EXCEPT ![s] = fifo_path]
             /\ UNCHANGED <<port, sensorVars, region, foreign, sock_path, fifo_path,
                            reading, pipe, overlapped, unheeded, why>>
    <3>1. Moves(s, "serve")
      BY <2>4 DEF Moves, Woken
    <3>2. Shared(s) /\ HoldsUnix(s) /\ ~Unlinked(s)' /\ main'[s] = "serve"
      BY <2>1, <3>1 DEF Moves, Shared, Unlinked, HoldsTcp, HoldsUdp, HoldsUnix
    <3>3. PortShared(s) => PortShared(s)'
      BY <2>4 DEF PortShared, Shares
    <3>4. watched'[s] = fifo_path'
      BY <2>4
    <3>5. Own(s) => Own(s)'
      BY <2>1, <2>2, <2>3, <2>4, <3>2, <3>3, <3>4 DEF Own, PathMade
    <3>6. late \subseteq late'
      BY <2>1
    <3> QED
      BY <1>0, <1>a, <2>4, <3>1, <3>5, <3>6, GoesStep DEF Looping
  <2>5. CASE fifo_path = NoOne /\ Fails(s, "open_fifo", "fifo")
    <3>1. s \notin overlapped => s \in late' \/ <<"mkfifo", s>> \in unheeded
      BY <1>a, <2>2, <2>3, <2>5
    <3>2. late \subseteq late'
      BY <2>1
    <3> QED
      BY <2>5, <3>1, <3>2, FailsStep DEF Protos
  <2> QED
    BY <1>8, <2>4, <2>5 DEF OpenFifo
<1>9. CASE Refused(s)
  <2>1. PICK from \in Starting : Fails(s, from, "refused")
    BY <1>9 DEF Refused
  <2>2. UNCHANGED late
    BY <1>9 DEF Refused
  <2> QED
    BY <2>1, <2>2, FailsStep DEF Protos
<1> QED
  BY <1>1, <1>2, <1>3, <1>4, <1>5, <1>6, <1>7, <1>8, <1>9 DEF StartUp

-----------------------------------------------------------------------------
\* A run that serves alone has its own FIFO open, and is the writer it needs.
LEMMA LoopStep ==
    ASSUME HostInv, NEW s \in Servers, Loop(s)
    PROVE  Rest'
<1> USE DEF HostInv, TypeOK
<1>1. PICK to \in {"serve", "read", "opening"} : main' = [main EXCEPT ![s] = to]
  BY DEF Loop, check_alerts, ReadReturns, Loops
<1>2. /\ Serving(s) /\ Live(s)
      /\ UNCHANGED <<port, watched, sensorVars, reporter, signalVars, pathVars,
                     historyVars>>
  BY DEF Loop, check_alerts, ReadReturns, Loops, Serving, Live, Looping
<1>3. to = "opening" => ~Writer(fifo_path)
  BY <1>1 DEF Loop, check_alerts, ReadReturns, Loops, Looping, Starting
<1>4. s \notin overlapped => Own(s)'
  <2> SUFFICES ASSUME s \notin overlapped PROVE Own(s)'
    OBVIOUS
  <2>1. Own(s)
    BY <1>2 DEF Owned
  <2>2. s \notin late => to # "opening"
    BY <1>2, <1>3, <2>1 DEF Own, Writer
  <2>3. HoldsUnix(s) /\ Shared(s) /\ ~Unlinked(s)'
    BY <1>1, <1>2 DEF Shared, Unlinked, HoldsTcp, HoldsUdp, HoldsUnix
  <2>4. UNCHANGED <<port, watched, sensor, target, region, sock_path, fifo_path,
                    stock, late, unheeded>>
    BY <1>2 DEF sensorVars, pathVars, historyVars
  <2>5. PortShared(s) => PortShared(s)'
    BY <2>4 DEF PortShared, Shares
  <2>6. main[s] \in Looping /\ main'[s] = to
    BY <1>1, <1>2 DEF Serving
  <2> QED
    BY <1>2, <2>1, <2>2, <2>3, <2>4, <2>5, <2>6 DEF Own, PathMade, Looping
<1>5. Moves(s, to)
  BY <1>1 DEF Moves
<1> QED
  BY <1>1, <1>2, <1>4, <1>5, GoesStep DEF sensorVars, pathVars, historyVars, Looping

LEMMA EndStep ==
    ASSUME HostInv, NEW s \in Servers, LeaveLoop(s) \/ Kill(s)
    PROVE  Rest'
<1>1. Ends(s) /\ UNCHANGED <<sensorVars, late, why>>
  BY DEF LeaveLoop, Kill
<1>2. /\ Alone' /\ Quiet' /\ Unforked' /\ Owned'
      /\ UNCHANGED <<overlapped, unheeded, foreign>>
  BY <1>1, EndsStep
<1>3. StartupFailures'
  BY <1>1, <1>2, BlameStays DEF HostInv, Blames
<1> QED
  BY <1>2, <1>3 DEF Rest

LEMMA InterruptStep ==
    ASSUME HostInv, NEW s \in Servers, Interrupt(s)
    PROVE  Rest'
<1> USE DEF HostInv, TypeOK
<1>1. /\ main' = [main EXCEPT ![s] = IF @ \in {"opening", "read"} THEN "serve" ELSE @]
      /\ UNCHANGED <<port, sensor, target, region, foreign, sock_path, fifo_path, stock,
                     watched, overlapped, late, unheeded, why>>
  BY DEF Interrupt, sensorVars, pathVars, historyVars
<1>2. Shrinks /\ Settles /\ Blames
  BY <1>1 DEF Shrinks, Settles, Blames, Live, Starting, Looping
<1>3. \A o \in Servers : SameFor(o)
  BY <1>1 DEF SameFor, Serving, Looping
<1>4. \A o \in Servers : main'[o] \in {"off", "ports", "fork_sensor"} =>
         main[o] \in {"off", "ports", "fork_sensor"} /\ sensor'[o] = sensor[o]
  BY <1>1
<1> QED
  BY <1>1, <1>2, <1>3, <1>4, RestStays

-----------------------------------------------------------------------------
(***************************************************************************)
(* The sensor process of s, whose parent may be dead.                      *)
(***************************************************************************)

\* What it does once the path has been made.
LEMMA MadeStep ==
    ASSUME HostInv, NEW s \in Servers, SensorOnly, UNCHANGED fifo_path,
           \A o \in Servers : \/ main'[o] = main[o]
                              \/ main[o] = "opening" /\ main'[o] = "read",
           \A o \in Servers \ {s} : sensor'[o] = sensor[o] /\ target'[o] = target[o],
           \/ sensor'[s] = sensor[s] /\ target'[s] = target[s]
           \/ /\ sensor[s] \notin Forked /\ sensor'[s] \notin Forked
              /\ sensor'[s] \in {"opening", "writing"} =>
                    \/ target'[s] = fifo_path
                    \/ target'[s] = target[s] /\ sensor[s] \in {"opening", "writing"}
    PROVE  Rest'
<1> USE DEF HostInv, TypeOK, SensorOnly, historyVars
<1>1. Shrinks /\ Blames
  BY DEF Shrinks, Blames, Live, Starting, Looping
<1>2. Settles
  BY DEF Settles, Unsettled, Forked
<1>3. \A o \in Servers : SameFor(o)
  BY DEF SameFor, Serving, Looping
<1>4. \A o \in Servers : main'[o] \in {"off", "ports", "fork_sensor"} =>
         /\ main[o] \in {"off", "ports", "fork_sensor"}
         /\ sensor[o] # "none" \/ sensor'[o] = sensor[o]
  BY DEF Forked
<1> QED
  BY <1>1, <1>2, <1>3, <1>4, RestStays

\* What it does to the path: no other run alive is outside `overlapped`.
LEMMA PathStep ==
    ASSUME HostInv, NEW s \in Servers, UNCHANGED <<main, target, overlapped, late, why>>,
           UNCHANGED <<foreign, stock, watched>>, unheeded \subseteq unheeded',
           sensor[s] \in Unsettled, NEW to, to \notin {"none", "unlink"},
           sensor' = [sensor EXCEPT ![s] = to],
           Live(s) /\ s \notin overlapped => Own(s)'
    PROVE  Rest'
<1> USE DEF HostInv, TypeOK, SensorOnly, historyVars
<1>1. Shrinks /\ Settles /\ Blames
  BY DEF Shrinks, Settles, Blames, Live
<1>2. Alone' /\ Quiet'
  BY <1>1, AloneStays, QuietStays
<1>3. Unforked'
  BY DEF Unforked, Unsettled
<1>4. Owned'
  <2> SUFFICES ASSUME NEW o \in Servers, Live(o)', o \notin overlapped' PROVE Own(o)'
    BY DEF Owned
  <2>1. Live(o) /\ o \notin overlapped
    BY DEF Live
  <2>2. o = s
    BY <2>1 DEF Quiet
  <2> QED
    BY <2>1, <2>2
<1>5. StartupFailures'
  BY <1>1, BlameStays
<1> QED
  BY <1>2, <1>3, <1>4, <1>5 DEF Rest

LEMMA SensorStep ==
    ASSUME HostInv, NEW s \in Servers, SensorProcess(s)
    PROVE  Rest'
<1> USE DEF HostInv, TypeOK
<1>0. NUM_SENSORS \in Nat
  BY HostAssumption
<1>a. ASSUME NEW n, NEW flags, Continues(s, n, flags)
      PROVE  \E to \in {"check", "sleep", "gone"} : sensor' = [sensor EXCEPT ![s] = to]
  BY <1>a DEF Continues
<1>b. ASSUME NEW flags, Round(s, flags)
      PROVE  \E to \in {"check", "sleep", "gone"} : sensor' = [sensor EXCEPT ![s] = to]
  BY <1>a, <1>b DEF Round
<1>c. ASSUME \E to \in {"check", "sleep", "gone"} : sensor' = [sensor EXCEPT ![s] = to],
             sensor[s] \notin Forked, SensorOnly, UNCHANGED <<main, fifo_path>>,
             \A o \in Servers \ {s} : target'[o] = target[o]
      PROVE  Rest'
  BY <1>c, MadeStep DEF Forked
<1>1. CASE cleanup_fifo(s)
  <2>1. /\ sensor[s] = "unlink" /\ sensor' = [sensor EXCEPT ![s] = "mkfifo"]
        /\ UNCHANGED <<main, port, target, region, foreign, sock_path, stock, watched,
                       overlapped, late, why>>
    BY <1>1 DEF cleanup_fifo, mainVars, fifoVars
  <2>2. /\ fifo_path' = NoOne \/ <<"unlink_fifo", s>> \in unheeded'
        /\ unheeded \subseteq unheeded'
    BY <1>1 DEF cleanup_fifo, Heeded, Unheeded
  <2>3. <<"unlink_socket", s>> \in unheeded => <<"unlink_socket", s>> \in unheeded'
    BY <2>2
  <2>4. PortShared(s) => PortShared(s)'
    BY <2>1, <2>2 DEF PortShared, Shares
  <2>5. UNCHANGED <<Shared(s), Unlinked(s), HoldsUnix(s), Serving(s)>>
    BY <2>1 DEF Shared, Unlinked, HoldsTcp, HoldsUdp, HoldsUnix, Serving
  <2>6. Own(s) => Own(s)'
    BY <2>1, <2>2, <2>3, <2>4, <2>5 DEF Own, Forked
  <2> QED
    BY <2>1, <2>2, <2>6, PathStep DEF Owned, Unsettled
<1>2. CASE initiateAlertModule(s)
  <2>1. /\ sensor[s] = "mkfifo" /\ Continues(s, 0, running[s])
        /\ \/ fifo_path' = IF fifo_path = NoOne THEN s ELSE fifo_path
           \/ fifo_path' = NoOne /\ <<"mkfifo", s>> \in unheeded'
        /\ UNCHANGED fifo_path \/ fifo_path = NoOne
        /\ unheeded \subseteq unheeded'
        /\ <<"unlink_fifo", s>> \in unheeded' => <<"unlink_fifo", s>> \in unheeded
    BY <1>2 DEF initiateAlertModule, Heeded, Unheeded
  <2>2. PICK to \in {"check", "sleep", "gone"} : sensor' = [sensor EXCEPT ![s] = to]
    BY <1>a, <2>1
  <2>3. UNCHANGED <<main, port, target, region, foreign, sock_path, stock, watched,
                    overlapped, late, why>>
    BY <1>2 DEF initiateAlertModule, mainVars, fifoVars
  <2>4. PortShared(s) => PortShared(s)'
    BY <2>1, <2>3 DEF PortShared, Shares
  <2>5. UNCHANGED <<Shared(s), Unlinked(s), HoldsUnix(s), Serving(s)>>
    BY <2>3 DEF Shared, Unlinked, HoldsTcp, HoldsUdp, HoldsUnix, Serving
  <2>6. Own(s) => PathMade(s)'
    BY <2>1, <2>3 DEF Own, PathMade, Servers, NoOne
  <2>7. Own(s) => Own(s)'
    BY <2>1, <2>2, <2>3, <2>4, <2>5, <2>6 DEF Own, Forked
  <2> QED
    BY <2>1, <2>2, <2>3, <2>7, PathStep DEF Owned, Unsettled
<1>3. CASE SensorWakes(s)
  <2>1. Round(s, running[s])
    BY <1>3 DEF SensorWakes
  <2> QED
    BY <1>b, <1>c, <1>3, <2>1 DEF SensorWakes, Senses, Forked
<1>4. CASE send_alert(s)
  <2>1. /\ sensor[s] = "check" /\ SensorOnly /\ UNCHANGED <<main, fifo_path>>
    BY <1>4 DEF send_alert, Senses
  <2>2. CASE Continues(s, hot[s] - 1, running[s]) /\ UNCHANGED target
    BY <1>a, <1>c, <2>1, <2>2 DEF Forked
  <2>3. CASE /\ sensor' = [sensor EXCEPT ![s] = "opening"]
             /\ target' = [target EXCEPT ![s] = fifo_path]
    BY <2>1, <2>3, MadeStep DEF Forked
  <2> QED
    BY <1>4, <2>2, <2>3 DEF send_alert
<1>5. CASE AlertOpens(s)
  <2>1. /\ sensor[s] = "opening" /\ sensor' = [sensor EXCEPT ![s] = "writing"]
        /\ SensorOnly /\ UNCHANGED <<target, fifo_path>>
        /\ main' = Woken(target[s])
    BY <1>5 DEF AlertOpens, Senses
  <2>2. \A o \in Servers : \/ main'[o] = main[o]
                           \/ main[o] = "opening" /\ main'[o] = "read"
    BY <2>1 DEF Woken
  <2> QED
    BY <2>1, <2>2, MadeStep DEF Forked
<1>6. CASE AlertWritten(s)
  <2>1. /\ sensor[s] = "writing" /\ SensorOnly /\ UNCHANGED <<main, fifo_path>>
        /\ target' = [target EXCEPT ![s] = NoOne]
    BY <1>6 DEF AlertWritten, Senses
  <2>2. \E to \in {"check", "sleep", "gone"} : sensor' = [sensor EXCEPT ![s] = to]
    BY <1>a, <1>6 DEF AlertWritten
  <2> QED
    BY <1>c, <2>1, <2>2 DEF Forked
<1>7. CASE SensorInterrupted(s)
  <2>1. SensorOnly /\ UNCHANGED <<main, target, fifo_path>>
    BY <1>7 DEF SensorInterrupted
  <2>2. CASE sensor[s] = "sleep" /\ Round(s, {})
    BY <1>b, <1>c, <2>1, <2>2 DEF Forked
  <2>3. CASE sensor[s] = "opening" /\ Continues(s, hot[s] - 1, {})
    BY <1>a, <1>c, <2>1, <2>3 DEF Forked
  <2>4. CASE UNCHANGED sensor
    BY <2>1, <2>4, MadeStep
  <2> QED
    BY <1>7, <2>2, <2>3, <2>4 DEF SensorInterrupted
<1> QED
  BY <1>1, <1>2, <1>3, <1>4, <1>5, <1>6, <1>7 DEF SensorProcess

-----------------------------------------------------------------------------
\* The power failure process and other programs change nothing of this.
LEMMA ElseStep ==
    ASSUME HostInv,
           \/ \E s \in Servers : ReporterProcess(s)
           \/ ForeignBind
           \/ UNCHANGED vars
    PROVE  Rest'
<1>1. /\ UNCHANGED <<mainVars, sensorVars, region, sock_path, fifo_path, stock,
                     fifoVars, historyVars>>
      /\ foreign \subseteq foreign'
  BY DEF ReporterProcess, ReporterSettles, ReporterWakes, init_emergency_notification,
         ReporterInterrupted, Reports, ReporterOnly, ForeignBind, vars, pathVars
<1>2. Shrinks /\ Settles /\ Blames
  BY <1>1 DEF Shrinks, Settles, Blames, Live, mainVars, sensorVars, historyVars
<1>3. \A o \in Servers : SameFor(o)
  BY <1>1 DEF SameFor, mainVars, sensorVars, fifoVars, historyVars
<1> QED
  BY <1>1, <1>2, <1>3, RestStays DEF mainVars, sensorVars, historyVars

LEMMA HostInductive == HostInv /\ [Next]_vars => HostInv'
<1> SUFFICES ASSUME HostInv, [Next]_vars PROVE HostInv'
  OBVIOUS
<1>1. TypeOK' /\ Counted'
  BY TypesStep DEF HostInv
<1>2. Rest'
  BY LaunchStep, StartUpStep, LoopStep, EndStep, InterruptStep, SensorStep, ElseStep
     DEF Next
<1> QED
  BY <1>1, <1>2 DEF HostInv, Rest

LEMMA HostInvariant == Spec => []HostInv
BY HostInitially, HostInductive, PTL DEF Spec

\* Every variable keeps its type (start_server and the processes it forks).
THEOREM HostTypes == Spec => []TypeOK
BY HostInvariant, PTL DEF HostInv

\* A start that fails without an overlap fails for the ports of another program,
\* for a FIFO that its sensor process has not made, or for a call that the
\* system refused, never for what a dead run has left (set_unix_socket after
\* cleanup_unix_socket).
THEOREM Failures == Spec => []StartupFailures
BY HostInvariant, PTL DEF HostInv

\* A run without an overlap serves at the ports it has published, on the socket
\* the path names, with a stock of its own (share_ports_shared_memory).
THEOREM Advertises == Spec => []Advertised
<1>1. HostInv => Advertised
  <2> SUFFICES ASSUME HostInv, NEW s \in Servers, Serving(s), s \notin overlapped
               PROVE  /\ \A proto \in Protos :
                            Shares(s, proto) => region[proto] = port[s][proto]
                      /\ sock_path = s /\ stock = s
    BY DEF Advertised
  <2>1. Own(s)
    BY DEF HostInv, Owned, Live, Serving
  <2>2. Shared(s) /\ HoldsUnix(s)
    BY DEF Shared, HoldsTcp, HoldsUdp, HoldsUnix
  <2> QED
    BY <2>1, <2>2 DEF Own, PortShared
<1> QED
  BY <1>1, HostInvariant, PTL

\* ... and shares the FIFO with its own sensor process, once that was in time
\* (create_infection_alerts_process, cleanup_fifo, initiateAlertModule).
THEOREM SharesTheFifo == Spec => []FifoShared
<1>1. HostInv => FifoShared
  BY DEF HostInv, Owned, Own, FifoShared, Sound, Live, Serving, Forked, PathMade
<1> QED
  BY <1>1, HostInvariant, PTL
=============================================================================
