----------------------------- MODULE RefugeHost -----------------------------
(***************************************************************************)
(* One machine on which the server program is started, stopped, killed and *)
(* started again, twice at once too: what main() and start_server do up to *)
(* the loop, the two processes they fork, and what outlives them all: the  *)
(* ports, the region that publishes them, the path of the unix socket, the *)
(* path of the FIFO and the stock in System V memory.  RefugeServer says   *)
(* what the loop itself does.                                              *)
(*                                                                         *)
(* A run of the program has its number as a name.  The FIFO that its       *)
(* sensor process makes, an object that lives on when the path is unlinked, *)
(* and its unix socket have the same name.                                 *)
(***************************************************************************)
EXTENDS Naturals, FiniteSets

CONSTANTS
    MaxRuns,       \* how often the server program is started
    Ports,         \* the ports of the machine
    DEFAULT_PORT,  \* of a port not given on the command line
    Arguments,     \* the ports each run is given
    NUM_SENSORS,
    ForeignPorts,  \* ports that other programs may take: <<"tcp" or "udp", port>>
    MaxMishaps     \* bound of the exploration: see Happens

Servers == 1 .. MaxRuns      \* in the order of their start
NoOne   == 0
MaybeServer == Servers \cup {NoOne}
NoPorts  == [tcp |-> 0, udp |-> 0]
PortInfo == [tcp : Ports \cup {0}, udp : Ports \cup {0}]

ASSUME HostAssumption ==
    /\ MaxRuns \in Nat
    /\ 0 \notin Ports /\ DEFAULT_PORT \notin Ports \cup {0}
    \* atoi() makes 0 of what is no number
    /\ Arguments \in [Servers -> [tcp : Ports \cup {0, DEFAULT_PORT},
                                  udp : Ports \cup {0, DEFAULT_PORT}]]
    /\ NUM_SENSORS \in Nat
    /\ ForeignPorts \subseteq {"tcp", "udp"} \X Ports
    /\ MaxMishaps \in Nat

VARIABLES
    main,          \* the next statement of the parent process
    port,          \* tcp_port and udp_port, and what bind() has made of a 0
    sensor,        \* what the sensor process is about to do
    hot,           \* sensors above the threshold, still to be reported
    target,        \* the FIFO that send_alert has opened or waits to open
    reporter,      \* what the power failure process is about to do
    running,       \* the processes whose SERVER_RUNNING is 1
    pending,       \* the children with a SIGINT not yet handled
    \* the machine
    region,        \* the shared memory /port_shared_memory
    foreign,       \* ports that other programs hold
    sock_path,     \* the socket that /tmp/socket names
    fifo_path,     \* the FIFO that /tmp/alerts_fifo names
    stock,         \* the run that has set the stock to zero last
    watched,       \* fifo_fd of each run
    reading,       \* the FIFO that check_alerts opens
    pipe,          \* the FIFOs that hold unread alerts
    \* history
    overlapped,    \* runs that have shared the machine with the start of another
    late,          \* runs that opened the FIFO before their sensor process made it
    unheeded,      \* calls that failed without ending the run: <<call, run>>
    why,           \* the call that ended a run's start-up
    mishaps        \* what has happened, of what rarely happens

mainVars     == <<main, port>>
sensorVars   == <<sensor, hot, target>>
signalVars   == <<running, pending>>
pathVars     == <<region, foreign, sock_path, fifo_path, stock>>
fifoVars     == <<watched, reading, pipe>>
historyVars  == <<overlapped, late, unheeded, why>>
vars == <<mainVars, sensorVars, reporter, signalVars, pathVars, fifoVars,
          historyVars, mishaps>>

Procs    == {"main", "sensor", "reporter"}
Protos   == {"tcp", "udp"}
Reported == {"unlink_socket", "unlink_fifo", "mkfifo", "share_ports"}
Starting == {"ports", "fork_sensor", "fork_reporter", "unlink_socket",
             "share_ports", "bind_tcp", "bind_udp", "bind_unix", "open_fifo"}
Looping  == {"serve", "opening", "read"}
Live(s)    == main[s] \in Starting \cup Looping
Serving(s) == main[s] \in Looping

HoldsUnix(s) == Serving(s) \/ main[s] = "open_fifo"
HoldsUdp(s)  == HoldsUnix(s) \/ main[s] = "bind_unix"
HoldsTcp(s)  == HoldsUdp(s) \/ main[s] = "bind_udp"
Holds(s, proto) == IF proto = "tcp" THEN HoldsTcp(s) ELSE HoldsUdp(s)

Taken(proto, p) ==
    \/ <<proto, p>> \in foreign
    \/ \E s \in Servers : Holds(s, proto) /\ p = port[s][proto]

Init ==
    /\ main = [s \in Servers |-> "off"]
    /\ port = [s \in Servers |-> NoPorts]
    /\ sensor = [s \in Servers |-> "none"]
    /\ hot = [s \in Servers |-> 0]
    /\ target = [s \in Servers |-> NoOne]
    /\ reporter = [s \in Servers |-> "none"]
    /\ running = [s \in Servers |-> Procs]
    /\ pending = [s \in Servers |-> {}]
    /\ region = NoPorts /\ foreign = {}
    /\ sock_path = NoOne /\ fifo_path = NoOne /\ stock = NoOne
    /\ watched = [s \in Servers |-> NoOne]
    /\ reading = [s \in Servers |-> NoOne]
    /\ pipe = {}
    /\ overlapped = {} /\ late = {} /\ unheeded = {}
    /\ why = [s \in Servers |-> "none"]
    /\ mishaps = 0

-----------------------------------------------------------------------------
(***************************************************************************)
(* The parent: main() and start_server.                                    *)
(***************************************************************************)

\* What the start of another run disturbs: a live run, and a sensor process,
\* its parent alive or dead, that has yet to unlink or make the path.
Settling(o) == Live(o) \/ sensor[o] \in {"unlink", "mkfifo"}

\* The exploration is bounded by what may happen to the machine besides runs
\* that follow each other: SIGINT, a crash, a call that the system refuses, a
\* round with an infection, a port taken, and, for two of these, a run that
\* starts beside another.
Happens(n) == mishaps' = mishaps + n /\ mishaps' <= MaxMishaps

Launch(s) ==
    /\ main[s] = "off" /\ \A o \in 1 .. s - 1 : main[o] # "off"
    /\ IF \E o \in Servers : Live(o) THEN Happens(2) ELSE UNCHANGED mishaps
    /\ main' = [main EXCEPT ![s] = "ports"]
    /\ overlapped' = overlapped \cup {o \in Servers : Live(o)}
                     \cup {o \in {s} : \E q \in Servers : Settling(q)}
    /\ UNCHANGED <<port, sensorVars, reporter, signalVars, pathVars, fifoVars,
                   late, unheeded, why>>

\* From one statement of the start-up to the next.
Goes(s, from, to) ==
    /\ main[s] = from
    /\ main' = [main EXCEPT ![s] = to]

\* A call that fails and is reported by perror only: the run goes on.
Unheeded(s, call) ==
    /\ Happens(1)
    /\ unheeded' = unheeded \cup {<<call, s>>}
Heeded == UNCHANGED <<unheeded, mishaps>>

\* exit() or a signal closes what the process holds; alerts in a FIFO that
\* nobody else has open are gone.
OpenElsewhere(f, s) ==
    \/ \E o \in Servers \ {s} : \/ Serving(o) /\ watched[o] = f
                                \/ main[o] = "read" /\ reading[o] = f
    \/ \E o \in Servers : sensor[o] = "writing" /\ target[o] = f
Ends(s) ==
    /\ main' = [main EXCEPT ![s] = "ended"]
    /\ pipe' = {f \in pipe : OpenElsewhere(f, s)}
    /\ port' = [port EXCEPT ![s] = NoPorts]
    /\ watched' = [watched EXCEPT ![s] = NoOne]
    /\ reading' = [reading EXCEPT ![s] = NoOne]
    /\ UNCHANGED <<pathVars, overlapped, unheeded>>

\* perror and exit(EXIT_FAILURE) in the start-up.
Fails(s, from, call) ==
    /\ main[s] = from
    /\ Ends(s)
    /\ why' = [why EXCEPT ![s] = call]
    /\ UNCHANGED <<sensorVars, reporter, signalVars>>

\* For want of permission, memory or descriptors: fork(), socket(), bind(),
\* listen(), open().
Refused(s) ==
    /\ \E from \in Starting \ {"unlink_socket", "share_ports"} :
          /\ from = "ports" => \E proto \in Protos : Arguments[s][proto] = DEFAULT_PORT
          /\ Fails(s, from, "refused")
    /\ Happens(1)
    /\ UNCHANGED late

\* get_available_port asks for a TCP port, and frees it before it returns it.
\* A UDP port is found in the same way.  Some port is always free.
Available(arg) == IF arg # DEFAULT_PORT THEN {arg}
                  ELSE {p \in Ports : ~Taken("tcp", p)}
ChoosePorts(s) ==
    /\ Goes(s, "ports", "fork_sensor")
    /\ \E t \in Available(Arguments[s].tcp), u \in Available(Arguments[s].udp) :
          port' = [port EXCEPT ![s] = [tcp |-> t, udp |-> u]]
    /\ UNCHANGED <<sensorVars, reporter, signalVars, pathVars, fifoVars,
                   historyVars, mishaps>>

\* fork() copies SERVER_RUNNING as it is.
Inherits(s, child) ==
    running' = [running EXCEPT ![s] =
                   IF "main" \in @ THEN @ ELSE @ \ {child}]

create_infection_alerts_process(s) ==
    /\ Goes(s, "fork_sensor", "fork_reporter")
    /\ sensor' = [sensor EXCEPT ![s] = "unlink"]
    /\ Inherits(s, "sensor")
    /\ UNCHANGED <<port, hot, target, reporter, pending, pathVars, fifoVars,
                   historyVars, mishaps>>

create_power_outage_alert_process(s) ==
    /\ Goes(s, "fork_reporter", "unlink_socket")
    /\ reporter' = [reporter EXCEPT ![s] = "settle"]
    /\ Inherits(s, "reporter")
    /\ UNCHANGED <<port, sensorVars, pending, pathVars, fifoVars, historyVars,
                   mishaps>>

\* Whosever socket it is.
cleanup_unix_socket_skipped(s) ==    \* mutant: no unlink
    /\ Goes(s, "unlink_socket", "share_ports")
    /\ UNCHANGED <<port, sensorVars, reporter, signalVars, pathVars, fifoVars,
                   historyVars, mishaps>>
cleanup_unix_socket(s) ==
    /\ Goes(s, "unlink_socket", "share_ports")
    /\ \/ /\ sock_path' = NoOne
          /\ Heeded
       \/ /\ sock_path # NoOne
          /\ Unheeded(s, "unlink_socket")
          /\ UNCHANGED sock_path
    /\ UNCHANGED <<port, sensorVars, reporter, signalVars, region, foreign,
                   fifo_path, stock, fifoVars, overlapped, late, why>>

\* A region that an earlier run has left is used again.  When shm_open()
\* fails it stays as it is, when ftruncate() or mmap() does it is removed.
share_ports_once(s) ==    \* mutant: a region that exists keeps its UDP port
    /\ region' = [port[s] EXCEPT !.udp = IF region.udp = 0 THEN @ ELSE region.udp]
    /\ Heeded
share_ports_shared_memory(s) ==
    \/ region' = port[s] /\ Heeded
    \/ region' \in {region, NoPorts} /\ Unheeded(s, "share_ports")
Publish(s) ==
    /\ Goes(s, "share_ports", "bind_tcp")
    /\ share_ports_shared_memory(s)
    /\ UNCHANGED <<port, sensorVars, reporter, signalVars, foreign, sock_path,
                   fifo_path, stock, fifoVars, overlapped, late, why>>

\* set_tcp_socket, then set_udp_socket: exit when bind() fails.  For port 0 the
\* system takes a free one, which nobody asks it for.
Bindable(s, proto) ==
    {p \in IF Arguments[s][proto] = 0 THEN Ports ELSE {port[s][proto]} :
        ~Taken(proto, p)}
BindsPort(s, proto, from, to) ==
    \/ \E p \in Bindable(s, proto) :
          /\ Goes(s, from, to)
          /\ port' = [port EXCEPT ![s][proto] = p]
          /\ UNCHANGED <<sensorVars, reporter, signalVars, pathVars, fifoVars,
                         historyVars, mishaps>>
    \/ /\ Arguments[s][proto] # 0 /\ Bindable(s, proto) = {}
       /\ Fails(s, from, proto)
       /\ UNCHANGED <<late, mishaps>>
BindPorts(s) ==
    \/ BindsPort(s, "tcp", "bind_tcp", "bind_udp")
    \/ BindsPort(s, "udp", "bind_udp", "bind_unix")

\* set_unix_socket: bind() fails when the path exists, dead socket or not.
BindUnix(s) ==
    \/ /\ sock_path = NoOne
       /\ Goes(s, "bind_unix", "open_fifo")
       /\ sock_path' = s
       /\ UNCHANGED <<port, sensorVars, reporter, signalVars, region, foreign,
                      fifo_path, stock, fifoVars, historyVars, mishaps>>
    \/ /\ sock_path # NoOne
       /\ Fails(s, "bind_unix", "unix")
       /\ UNCHANGED <<late, mishaps>>

\* An open() of f for writing lets the open() calls for reading return.
Woken(f) == [o \in Servers |->
    IF main[o] = "opening" /\ reading[o] = f THEN "read" ELSE main[o]]

\* One second later: open(FIFO_PATH, O_RDWR), whichever FIFO the path names,
\* init_shared_memory_supplies, and into the loop.
Made(s) == sensor[s] \notin {"unlink", "mkfifo"}
OpenFifo(s) ==
    /\ late' = IF Made(s) THEN late ELSE late \cup {s}
    /\ \/ /\ fifo_path # NoOne
          /\ main[s] = "open_fifo"
          /\ main' = [Woken(fifo_path) EXCEPT ![s] = "serve"]
          /\ watched' = [watched EXCEPT ![s] = fifo_path]
          /\ stock' = s
          /\ UNCHANGED <<port, sensorVars, reporter, signalVars, region, foreign,
                         sock_path, fifo_path, reading, pipe, overlapped,
                         unheeded, why>>
       \/ /\ fifo_path = NoOne
          /\ Fails(s, "open_fifo", "fifo")
    /\ UNCHANGED mishaps

-----------------------------------------------------------------------------
(***************************************************************************)
(* The loop, as far as it touches the FIFO, and its end.                   *)
(***************************************************************************)

\* open() of one side returns once the other side has opened or waits to:
\* start_server does both with O_RDWR.
ReaderWhileItReads(f) ==    \* mutant: start_server opens for writing only
    \E o \in Servers : main[o] \in {"opening", "read"} /\ reading[o] = f
Reader(f) ==
    \E o \in Servers : \/ Serving(o) /\ watched[o] = f
                       \/ main[o] \in {"opening", "read"} /\ reading[o] = f
Writer(f) ==
    \E o \in Servers : \/ Serving(o) /\ watched[o] = f
                       \/ sensor[o] = "writing" /\ target[o] = f

Loops(s, from, to) ==
    /\ main[s] = from
    /\ main' = [main EXCEPT ![s] = to]
    /\ UNCHANGED <<port, watched, sensorVars, reporter, signalVars, pathVars,
                   historyVars, mishaps>>

\* check_alerts opens the path again, which need not name the FIFO that
\* select() found readable: the open() or the read() may block.
check_alerts(s) ==
    /\ watched[s] \in pipe
    /\ fifo_path # NoOne
    /\ \/ /\ fifo_path \in pipe
          /\ pipe' = pipe \ {fifo_path}
          /\ Loops(s, "serve", "serve")
          /\ UNCHANGED reading
       \/ /\ fifo_path \notin pipe
          /\ reading' = [reading EXCEPT ![s] = fifo_path]
          /\ Loops(s, "serve", IF Writer(fifo_path) THEN "read" ELSE "opening")
          /\ UNCHANGED pipe
ReadReturns(s) ==
    /\ reading[s] \in pipe \/ ~Writer(reading[s])
    /\ pipe' = pipe \ {reading[s]}
    /\ reading' = [reading EXCEPT ![s] = NoOne]
    /\ Loops(s, "read", "serve")

\* The loop sees SERVER_RUNNING, or select() returns EINTR: RefugeServer says
\* when.
LeaveLoop(s) ==
    /\ main[s] = "serve" /\ "main" \notin running[s]
    /\ Ends(s)
    /\ UNCHANGED <<sensorVars, reporter, signalVars, late, why, mishaps>>

\* SIGPIPE, SIGKILL or a crash: no handler runs.
Kill(s) ==
    /\ Live(s) /\ Happens(1)
    /\ Ends(s)
    /\ UNCHANGED <<sensorVars, reporter, signalVars, late, why>>

-----------------------------------------------------------------------------
(***************************************************************************)
(* SIGINT.  The terminal sends it to the three processes of a run, kill    *)
(* only to the parent; each has a SERVER_RUNNING of its own.  A process    *)
(* handles the signal before its next statement.                           *)
(***************************************************************************)
Lives(s, child) ==
    \/ child = "sensor" /\ sensor[s] \notin {"none", "gone"}
    \/ child = "reporter" /\ reporter[s] \notin {"none", "gone"}
Children(s) == {c \in {"sensor", "reporter"} : Lives(s, c)}

\* sigint_handler passes the signal on to alerts_pid, which is zero in the
\* sensor process itself.  power_outage_pid is zero everywhere: the variable
\* that create_power_outage_alert_process sets is local to it.
Passed(s) == {c \in {"sensor"} : Lives(s, c)}
Stops(s, p) == running' = [running EXCEPT ![s] = @ \ {p}]

\* In the parent: an open() or a read() that blocks returns EINTR.
Interrupt(s) ==
    /\ Live(s) /\ Happens(1)
    /\ Stops(s, "main")
    /\ \E group \in {{}, Children(s)} :
          pending' = [pending EXCEPT ![s] = @ \cup group \cup Passed(s)]
    /\ main' = [main EXCEPT ![s] = IF @ \in {"opening", "read"} THEN "serve" ELSE @]
    /\ reading' = [reading EXCEPT ![s] = NoOne]
    /\ UNCHANGED <<port, sensorVars, reporter, pathVars, watched, pipe, historyVars>>

-----------------------------------------------------------------------------
(***************************************************************************)
(* The sensor process.  Its sleep of 30 seconds, or that of minutes of the *)
(* other child, outlasts what is left of the start-up of its own run.      *)
(***************************************************************************)
LongSleepEnds(s) == main[s] \notin Starting

SensorOnly == UNCHANGED <<port, reporter, region, foreign, sock_path, stock,
                         watched, reading, historyVars>>
Senses(s, from) ==
    /\ sensor[s] = from /\ "sensor" \notin pending[s]
    /\ SensorOnly
\* n more alerts to send, or the test of the loop, and sleep(30).
Continues(s, n, flags) ==
    /\ hot' = [hot EXCEPT ![s] = n]
    /\ sensor' = [sensor EXCEPT ![s] = IF n > 0 THEN "check"
                                       ELSE IF "sensor" \in flags THEN "sleep"
                                       ELSE "gone"]

cleanup_fifo_skipped(s) ==    \* mutant: the path is not unlinked
    /\ Senses(s, "unlink")
    /\ sensor' = [sensor EXCEPT ![s] = "mkfifo"]
    /\ UNCHANGED <<main, hot, target, fifo_path, running, pending, pipe, mishaps>>
cleanup_fifo(s) ==
    /\ sensor[s] = "unlink" /\ "sensor" \notin pending[s]
    /\ sensor' = [sensor EXCEPT ![s] = "mkfifo"]
    /\ \/ /\ fifo_path' = NoOne
          /\ Heeded
       \/ /\ fifo_path # NoOne
          /\ Unheeded(s, "unlink_fifo")
          /\ UNCHANGED fifo_path
    /\ UNCHANGED <<mainVars, hot, target, reporter, signalVars, region, foreign,
                   sock_path, stock, fifoVars, overlapped, late, why>>

\* initiateAlertModule goes on when mkfifo() finds the path taken, or fails.
initiateAlertModule(s) ==
    /\ sensor[s] = "mkfifo" /\ "sensor" \notin pending[s]
    /\ \/ /\ fifo_path' = IF fifo_path = NoOne THEN s ELSE fifo_path
          /\ Heeded
       \/ /\ fifo_path = NoOne
          /\ Unheeded(s, "mkfifo")
          /\ UNCHANGED fifo_path
    /\ Continues(s, 0, running[s])
    /\ UNCHANGED <<mainVars, target, reporter, signalVars, region, foreign,
                   sock_path, stock, fifoVars, overlapped, late, why>>

\* update_sensor_values: get_temperature draws 35.0 .. 38.9, and now and then
\* 38.0 .. 43.0, so that any number of the four may be above the threshold.
get_temperature == (350 .. 389) \cup (380 .. 430)
THRESHOLD_TEMP == 380
RoundPastTheLast(s, flags) ==    \* mutant: i <= num_sensors
    \/ Continues(s, 0, flags) /\ UNCHANGED mishaps
    \/ \E n \in 1 .. NUM_SENSORS + 1 : Continues(s, n, flags) /\ Happens(1)
Round(s, flags) ==
    \/ Continues(s, 0, flags) /\ UNCHANGED mishaps
    \/ /\ \E t \in get_temperature : t > THRESHOLD_TEMP
       /\ \E n \in 1 .. NUM_SENSORS : Continues(s, n, flags)
       /\ Happens(1)
SensorWakes(s) ==
    /\ LongSleepEnds(s)
    /\ Senses(s, "sleep")
    /\ Round(s, running[s])
    /\ UNCHANGED <<main, target, running, pending, fifo_path, pipe>>

\* check_temperature_threshold; with the path gone send_alert gives up on this
\* sensor.
send_alert(s) ==
    /\ Senses(s, "check")
    /\ \/ /\ fifo_path = NoOne
          /\ Continues(s, hot[s] - 1, running[s])
          /\ UNCHANGED target
       \/ /\ fifo_path # NoOne
          /\ sensor' = [sensor EXCEPT ![s] = "opening"]
          /\ target' = [target EXCEPT ![s] = fifo_path]
          /\ UNCHANGED hot
    /\ UNCHANGED <<main, running, pending, fifo_path, pipe, mishaps>>

\* The open() for writing returns, and so do those for reading that wait.
AlertOpens(s) ==
    /\ Reader(target[s])
    /\ Senses(s, "opening")
    /\ sensor' = [sensor EXCEPT ![s] = "writing"]
    /\ main' = Woken(target[s])
    /\ UNCHANGED <<hot, target, running, pending, fifo_path, pipe, mishaps>>

\* write() to a FIFO whose last reader has gone raises SIGPIPE.
AlertWritten(s) ==
    /\ Senses(s, "writing")
    /\ \/ /\ Reader(target[s])
          /\ pipe' = pipe \cup {target[s]}
          /\ Continues(s, hot[s] - 1, running[s])
       \/ /\ ~Reader(target[s])
          /\ sensor' = [sensor EXCEPT ![s] = "gone"]
          /\ hot' = [hot EXCEPT ![s] = 0]
          /\ UNCHANGED pipe
    /\ target' = [target EXCEPT ![s] = NoOne]
    /\ UNCHANGED <<main, running, pending, fifo_path, mishaps>>

\* SIGINT: sleep() and a blocked open() return, and the round goes on.
SensorInterrupted(s) ==
    /\ "sensor" \in pending[s]
    /\ pending' = [pending EXCEPT ![s] = @ \ {"sensor"}]
    /\ Stops(s, "sensor")
    /\ SensorOnly
    /\ \/ /\ sensor[s] = "sleep"
          /\ Round(s, {})
       \/ /\ sensor[s] = "opening"
          /\ Continues(s, hot[s] - 1, {})
          /\ UNCHANGED mishaps
       \/ /\ sensor[s] \notin {"sleep", "opening"}
          /\ UNCHANGED <<sensor, hot, mishaps>>
    /\ UNCHANGED <<main, target, fifo_path, pipe>>

-----------------------------------------------------------------------------
(***************************************************************************)
(* The power failure process.                                              *)
(***************************************************************************)
ReporterOnly == UNCHANGED <<mainVars, sensorVars, pathVars, fifoVars,
                           historyVars, mishaps>>
Reports(s, from, to) ==
    /\ reporter[s] = from /\ "reporter" \notin pending[s]
    /\ reporter' = [reporter EXCEPT ![s] = to]
    /\ UNCHANGED signalVars
    /\ ReporterOnly

\* while (SERVER_RUNNING) sleep(...)
AgainAnyhow(s) == "sleep"    \* mutant: the flag is not tested
Again(s) == IF "reporter" \in running[s] THEN "sleep" ELSE "gone"

ReporterSettles(s) == Reports(s, "settle", Again(s))
ReporterWakes(s) == LongSleepEnds(s) /\ Reports(s, "sleep", "connect")

\* init_emergency_notification connects to whoever listens at the path and
\* simulate_electricity_failure sends, or the process exits.
Listened == \E o \in Servers : sock_path = o /\ HoldsUnix(o)
init_emergency_notification_retried(s) ==    \* mutant: no exit()
    Reports(s, "connect", Again(s))
init_emergency_notification(s) ==
    Reports(s, "connect", IF Listened THEN Again(s) ELSE "gone")

\* SIGINT: the first sleep() leads to the test of the loop, the long one
\* straight to a report.
ReporterInterrupted(s) ==
    /\ "reporter" \in pending[s]
    /\ Stops(s, "reporter")
    /\ pending' = [pending EXCEPT ![s] = (@ \ {"reporter"}) \cup Passed(s)]
    /\ reporter' = [reporter EXCEPT ![s] =
          CASE @ = "settle" -> "gone" [] @ = "sleep" -> "connect" [] OTHER -> @]
    /\ ReporterOnly

-----------------------------------------------------------------------------
\* Another program binds a port.
ForeignBind ==
    /\ \E taken \in ForeignPorts :
          /\ ~Taken(taken[1], taken[2])
          /\ foreign' = foreign \cup {taken}
    /\ Happens(1)
    /\ UNCHANGED <<mainVars, sensorVars, reporter, signalVars, region,
                   sock_path, fifo_path, stock, fifoVars, historyVars>>

StartUp(s) ==
    \/ ChoosePorts(s)
    \/ create_infection_alerts_process(s)
    \/ create_power_outage_alert_process(s)
    \/ cleanup_unix_socket(s) \/ Publish(s)
    \/ BindPorts(s) \/ BindUnix(s) \/ OpenFifo(s) \/ Refused(s)
Loop(s) == check_alerts(s) \/ ReadReturns(s)
SensorProcess(s) ==
    \/ cleanup_fifo(s) \/ initiateAlertModule(s) \/ SensorWakes(s)
    \/ send_alert(s) \/ AlertOpens(s) \/ AlertWritten(s)
    \/ SensorInterrupted(s)
ReporterProcess(s) ==
    \/ ReporterSettles(s) \/ ReporterWakes(s)
    \/ init_emergency_notification(s) \/ ReporterInterrupted(s)

Next ==
    \/ \E s \in Servers :
          \/ Launch(s) \/ StartUp(s) \/ Loop(s) \/ LeaveLoop(s) \/ Kill(s)
          \/ Interrupt(s)
          \/ SensorProcess(s) \/ ReporterProcess(s)
    \/ ForeignBind

Spec == Init /\ [][Next]_vars

\* The scheduler runs a child that can run, and sleep() ends.  Nothing is asked
\* of the parent: it may wait in select() for ever.
Fairness ==
    \A s \in Servers : WF_vars(SensorProcess(s)) /\ WF_vars(ReporterProcess(s))
FairSpec == Spec /\ Fairness

-----------------------------------------------------------------------------
(***************************************************************************)
(* Properties.                                                             *)
(***************************************************************************)
TypeOK ==
    /\ main \in [Servers -> {"off", "ended"} \cup Starting \cup Looping]
    /\ port \in [Servers -> PortInfo]
    /\ sensor \in [Servers -> {"none", "unlink", "mkfifo", "sleep",
                               "check", "opening", "writing", "gone"}]
    /\ hot \in [Servers -> 0 .. NUM_SENSORS]
    /\ target \in [Servers -> MaybeServer]
    /\ reporter \in [Servers -> {"none", "settle", "sleep", "connect",
                                 "gone"}]
    /\ running \in [Servers -> SUBSET Procs]
    /\ pending \in [Servers -> SUBSET {"sensor", "reporter"}]
    /\ region \in PortInfo
    /\ foreign \subseteq ForeignPorts
    /\ sock_path \in MaybeServer /\ fifo_path \in MaybeServer
    /\ stock \in MaybeServer
    /\ watched \in [Servers -> MaybeServer]
    /\ reading \in [Servers -> MaybeServer]
    /\ pipe \subseteq Servers
    /\ overlapped \subseteq Servers /\ late \subseteq Servers
    /\ unheeded \subseteq Reported \X Servers
    /\ why \in [Servers -> {"none", "tcp", "udp", "unix", "fifo", "refused"}]
    /\ mishaps \in Nat

\* A run that no other start has overlapped and that serves has published the
\* ports it holds, the socket path leads to it and the stock is its own, in
\* spite of what crashed runs have left behind (start_server); but for a port
\* given as 0, and for a region it could not write.
Shares(s, proto) ==
    Arguments[s][proto] # 0 /\ <<"share_ports", s>> \notin unheeded
Advertised ==
    \A s \in Servers : Serving(s) /\ s \notin overlapped =>
        /\ \A proto \in Protos : Shares(s, proto) => region[proto] = port[s][proto]
        /\ sock_path = s /\ stock = s

\* With its FIFO made in time, it watches the FIFO that the path names and to
\* which its own sensor process writes, also one that could not be unlinked
\* (create_infection_alerts_process, and the sleep(1) of start_server).
Sound(s) == Serving(s) /\ s \notin overlapped \cup late
FifoShared ==
    \A s \in Servers : Sound(s) =>
        /\ watched[s] = fifo_path
        /\ sensor[s] \in {"opening", "writing"} => target[s] = fifo_path
        /\ <<"unlink_fifo", s>> \notin unheeded => fifo_path = s
        /\ main[s] # "opening"

\* What a failed start-up can be blamed on: another run at the same time, or
\* for the ports another program, or for the FIFO a sensor process that was late or
\* could not make it.  In particular no run fails on the socket that a dead one
\* has left, unless it was not allowed to unlink it.
StartupFailures ==
    \A s \in Servers : s \notin overlapped =>
        /\ why[s] = "unix" => <<"unlink_socket", s>> \in unheeded
        /\ why[s] \in Protos => foreign # {}
        /\ why[s] = "fifo" => s \in late \/ <<"mkfifo", s>> \in unheeded

\* An alert of the sensors gets through to a sound run: send_alert does not
\* stay in its open() for ever.
AlertsGetThrough ==
    []<>(\A s \in Servers : ~(sensor[s] = "opening" /\ Sound(s)))

\* The children that a SIGINT has reached end, all but a sensor process in an
\* open() that nobody answers: the others do not wait for anybody.
InterruptedChildrenEnd ==
    <>[](\A s \in Servers :
            /\ "reporter" \notin running[s] => reporter[s] \in {"none", "gone"}
            /\ "sensor" \notin running[s] => sensor[s] \in {"none", "opening", "gone"}
            /\ \A c \in pending[s] : ~Lives(s, c))

\* A power failure process does not outlive the last server for ever, though
\* nobody signals it when its parent is killed: its next report fails.
ReportersEnd ==
    (\A o \in Servers : ~Live(o)) ~>
       \/ \E o \in Servers : Live(o)
       \/ \A s \in Servers : reporter[s] \in {"none", "gone"}
=============================================================================
