# shelter_server in TLA+

A verification development for the refuge server of this repository: the
server program (`src/server`), its libraries (`lib`) and the clients that talk
to it (`src/clients`). Line numbers below are of `src/server/server.c` unless
another file is named.

## 1. The system

One server process, two children that it forks, and any number of client
programs on the same or other hosts.

```
 tcp_client (parent: menu, child: reader) ==TCP==\
 udp_client ------------------------------UDP-----\      select() loop
 power_outage child ----unix stream socket---------> start_server --> supplies (shm)
 alerts child (sensors) ----FIFO------------------/       |
                                                          +--> log file, port shm
```

### Components, state, operations

| component | state | operations | hard behaviour | what makes it correct |
|---|---|---|---|---|
| Event loop, `start_server` (22-135), `sigint_handler` (245) | `SERVER_RUNNING`, `master_fds`, `read_fds`, `max_fd`, `fd` | test, select, visit ready descriptors in ascending order, SIGINT | the scan uses a snapshot while handlers change what it tells of; a signal between test and select, or during select | a bit is still true at its turn; nobody is starved; SIGINT ends the server |
| TCP handling (137-190, 375-623, 1051-1097) | `TCPClientList`, open descriptors, listen queue | accept, list, read one request, answer, close, delist, broadcast | reuse of descriptor numbers, full list, clients that leave at any moment, requests that arrive together, SIGPIPE | the three records agree; listing lasts as long as the connection; broadcasts reach the listed |
| UDP handling (715-810, 1099-1134) | `UDPClientList` | cache the sender, update or answer | datagrams of unknown peers, full cache, equal ports | the cache has no duplicate and stays within its array |
| Alerts in the server (949-1017, 1338-1360) | `EntryAlertsCount`, FIFO | read everything, count one entry, broadcast | several alerts in one read | no counter exceeds what its sensor raised |
| Power failures in the server (192-243) | accepted unix connection | accept, blocking `recv`, broadcast, close | the whole server waits in `recv` | reported failures are handled |
| Supplies (`lib/suppliesData`) | counters in shared memory | initialise, update, read | overflow of `int`, attachments without detach | counters stay in range |
| Sensors (`lib/alertInfection`), alerts child (1250-1275) | temperatures | every 30 s: new readings, alerts over a threshold | the FIFO may be missing or replaced; `open` for writing waits for a reader | alerts get through to the server that forked it |
| Power reporter (`lib/emergNotif`), child (1277-1303) | its socket | every 5 to 10 minutes: connect, send, close | outlives the server (a local variable hides `power_outage_pid`, 1280) | it ends once it is told, or once nobody listens |
| Socket set-up (`lib/socketSetup`) | | socket, bind, listen | failure ends the process | a start fails only for a reason on the machine as it is now |
| TCP client (`src/clients/tcp_client.c`) | `authenticated`, `CONNECTED` in each of its two processes | connect, greet, menu, reader | messages that arrive together, signals between parent and child | it greets first; an exit or a disconnect ends both processes |
| UDP client | `server_addr` in each of its two processes | menu, listener | the listener overwrites the address requests go to | requests go where the user said |
| Port selection and sharing (268-359) | `SHARED_MEM_PORTS` | find a free port, publish it | the port is released before it is bound and published before the socket exists; a port may be given as 0 | a serving run holds the ports it has published |
| Logging and summaries | log file | append | | not modelled: no state that a property is about |
| cJSON (`lib/cJSON`) | a heap of linked items | parse, build, rearrange, look up, print, delete | failures in the middle of a text, lists linked both ways with a shortcut to the last | nothing leaks or is freed twice, the lists stay whole, a text is accepted iff it is one |
| tests, mocks, unix test clients | | | | not modelled: tools |

### Interactions

While the server runs, `select()` is the only place where the components meet. Clients, sensors and
the reporter put something into a kernel queue; the loop visits the ready
descriptors (TCP listener 3, UDP 4, unix 5, FIFO 6, clients from 7 on, since
`start_server` opens them in this order and the kernel hands out the lowest
free number) and calls one handler each. A handler may change what a later bit
of the same pass is about, and the world goes on changing in between.

Before and after that they meet through names that outlive a process: the
region `/port_shared_memory`, the paths `/tmp/socket` and `/tmp/alerts_fifo`, the
ports, the stock in System V memory. A run finds there what an earlier run, dead
or alive, has left, and `start_server` and its two children repair it in their
own order. The processes of a program, server or client, meet through `fork`
(which copies variables) and signals.

## 2. The modules

| module | stands for | extends |
|---|---|---|
| `Supplies` | arithmetic of `update_supplies_from_json` on C ints | |
| `ClientLists` | `add_tcp_client`, `remove_tcp_client`, `add_udp_client` | |
| `NotificationService` | abstract: what a TCP connection is promised | |
| `RefugeServer` | the server process and its environment | `Supplies`, `ClientLists` |
| `RefugeHost` | the machine: starts, ports, paths, the children, SIGINT, crashes | |
| `ClientPromise` | abstract: what the server relies on from a client | |
| `TcpClient`, `UdpClient` | one run of either client program, two processes each | |
| `ClientPrograms` | both side by side | `TcpClient`, `UdpClient` |
| `JsonItems` | cJSON's list operations, lookup, printing, on a heap | |
| `JsonLibrary` | the parser token by token, and a caller of the library | `JsonItems` |
| `MCRefugeServer`, `MCRefugeHost`, `MCJsonLibrary` | instances for TLC | |
| `RefugeServerProofs` | lemmas on `ClientLists` and `Supplies`, the inductive invariant and what follows from it | `RefugeServer` |
| `RefugeServerPromises` | proofs about updates, the UDP cache, the service, alerts | `RefugeServerProofs` |
| `RefugeHostProofs` | proofs about the machine | `RefugeHost` |
| `ClientProofs` | proofs about the client programs | `ClientPrograms` |
| `JsonForest` | lemmas on cJSON's operators: what each does to a forest of items | `JsonItems` |
| `JsonProofs` | the inductive invariant of the library and what follows from it | `JsonLibrary`, `JsonForest` |
| `JsonGrammar` | lemmas on the grammar, and that the parser accepts it | `JsonProofs` |
| `JsonPrinting` | lemmas on parts of texts, and that printing inverts parsing | `JsonGrammar` |

`RefugeHost` stops where `RefugeServer` begins: it has of the loop only what
touches the FIFO. `ClientPromise` joins the other two: its three steps are
`Connect`, `Ask` and `Leave` of `RefugeServer`'s environment, and `TcpClient` is
shown to implement it, so that what `RefugeServer` assumes of a client is what
the program does. The ports that `GetPort` and `SetServerAddr` read are
`region` of `RefugeHost`.

### RefugeServer and the code

* **Thread.** `pc` is where the server's thread is: `test` (the `while`
  condition), `enter` (between the condition and the system call), `select`,
  `scan` (the `for` loop, with `fd` its variable), `recv_unix` (blocked in the
  `recv` of `handle_unix_socket_activity`), and three ends: `stopped` (the loop
  was left), `failed` (`exit(EXIT_FAILURE)` behind `select`), `killed`
  (SIGPIPE). A handler is one action, because the server has one thread and a
  handler makes no call that waits for others, except that `recv`: this is why
  the unix handler is two actions.
* **Whose turn.** `Due(f)` is the test of the `for` loop: `f` is the next
  descriptor whose bit `select` has set. Every handler has it as a guard and
  ends with `Visited(f)`.
* **Descriptors.** `fd_owner` says whose connection a descriptor is. `accept`
  takes the lowest free one. `NoDescriptor` is `EMFILE`: `accept_tcp_connection`,
  `accept_unix_connection` and the `open` of `check_alerts` fail, the handler
  returns, and the bit comes back in the next pass.
* **Connections.** `link[c]` is what the server's kernel knows of a client's
  connection (the table is in the module). A client that exits may leave a FIN
  (`fin`) or, when it had unread data, a reset (`rst`). A write to a closed
  client provokes a reset (`provoked`), which arrives later (`reset`); the next
  write raises SIGPIPE.
* **Requests.** `inbox[c]` is what has arrived. `recv` takes all of it and
  `cJSON_Parse` reads the first object, so a handler looks at the head and
  empties the inbox. `torn` is a text that does not parse, for instance the
  part of a request beyond the buffer; `other` is every message without a
  handler.
* **Alerts.** `fifo` holds the entries named by unread alerts; `check_alerts`
  takes all of them, and `DetectEntry` picks one as the `strstr` chain does.
* **Stock.** One function from items to `0 .. IntMax`; TLC uses one item and
  `IntMax = 1`, so that every addition to a full counter overflows.
* **History.** `said`, `sent`, `served`, `raised`, `failures` and `sigints` bound the
  exploration or let properties speak of the past; no guard of a server action
  reads them.

### RefugeHost and the code

* **Runs.** The server program is started `MaxRuns` times, in order, one after
  the other or while another is alive. `main[s]` is the next statement of run
  `s`'s parent: `ports` (main.c:17-34), `fork_sensor`, `fork_reporter`,
  `unlink_socket` (42), `share_ports` (47), `bind_tcp`, `bind_udp`, `bind_unix`
  (51-53), `open_fifo` (55-66), and then `serve`. Between any two of them
  everything else may move.
* **Ports.** An argument is a port, `DEFAULT_PORT` (not given), or 0, which
  `atoi` makes of what is no number. For a 0 the region says 0, and `bind`
  takes a free port that nobody asks it for.
* **Calls that fail.** `unlink` of either path, `mkfifo` and the three calls of
  `share_ports_shared_memory` are reported by `perror` only, and the run goes on
  (`Unheeded`); `ftruncate` and `mmap` remove the region first. Every other
  call of the start-up may be refused and ends the run (`Refused`).
* **Objects and names.** A FIFO and a unix socket have the number of the run
  that made them, the paths hold a number or nothing. `unlink` takes the name
  away and leaves the object with whoever has it open; `watched[s]` is the
  FIFO behind `fifo_fd`, `reading[s]` and `target[s]` those that `check_alerts`
  and `send_alert` have opened by name.
* **Blocking.** `open` for writing waits for a reader (`Reader`), `open` for
  reading for a writer, `read` for an alert or for the last writer to go.
  `start_server` holds its FIFO with `O_RDWR`, which is both.
* **Signals.** `Interrupt(s)` is SIGINT to the parent, alone or with its
  children; `running[s]` has the processes whose copy of `SERVER_RUNNING` is
  still 1. The handler passes the signal on by the two variables: `Passed(s)`
  has only the sensor process, since `power_outage_pid` is never assigned.
  No `SA_RESTART`: what blocks returns. `Kill(s)` is everything that runs no
  handler.
* **Time.** The sleeps of 30 seconds and of minutes begin after the fork and
  outlast what is left of the start-up of their own run (`LongSleepEnds`); they
  may end during the start-up of another run, and the one second of the parent
  (55) does not outlast anything in particular.
* **History.** `overlapped` are the runs that shared the machine with the start
  of another one, `late` those that opened the FIFO before their sensor process
  had made it, `unheeded` has the calls that failed without ending a run, `why`
  is the call that ended a start-up.

### The client programs and the code

* **Processes.** `parent` and `reader` (TCP), `menu` and `listener` (UDP) are
  the two processes; `signalled`, `interrupted` those with a SIGINT not yet
  handled; each has its own copy of what `fork` copied.
* **Connection.** `link` has the names of `RefugeServer`, seen from this side.
  A connection ends when both processes have closed it.
* **Reading.** `Receive(n)`: one `recv` returns `n` notices, `cJSON_Parse` reads
  the first. `missed` notes a disconnect that was behind another notice.
* **The user** may choose any option, end the input, or press Ctrl+C at any
  time. An update prompts for more input, which can end as well (`InputEnds`).

### cJSON and the model

* **Heap.** `heap` maps allocated items to their fields; an address is reused
  as soon as it is free, so that a stale pointer would meet a new item.
* **Parser.** Tokens instead of characters; one action per token. A frame of
  `stack` is the locals (`head`, `current_item`) of one active `parse_array` or
  `parse_object`; the two functions differ only in the key, so one set of
  actions stands for both.
* **Caller.** `held` is what the caller has to delete. Every call of the library
  is possible on what it holds, in any order, and each allocation may fail.

Operators marked *mutant* are variants of the definition that follows them, as
a slip in that code would have it. They are not part of the specification; each
was used to make sure that the properties notice the slip.

## 3. What TLC checks

`CHECK_DEADLOCK FALSE` throughout: the programs may end, and nobody has to send
anything. The first four runs are instances of `MCRefugeServer`, `host` is one of
`MCRefugeHost`.

| run | instance | properties |
|---|---|---|
| `tcp` | 2 clients (one administrator), list of 1, 2 client descriptors, 2 requests each, 1 alert | `TypeOK`, `ConnectionsHeld`, `PendingStillReady`, `UpdateGranted` |
| `crowd` | 3 clients, list of 2, 3 client descriptors, 1 alert, 1 power failure | `RecordsAgree`, `ListingForLife`, `ImplementsService` |
| `udp` | 3 peers, two with one port, cache of 2, 2 waiting datagrams, 3 alerts of 3 entries | `UdpCacheDistinct`, `NoPhantomAlerts` |
| `live` | 2 clients, list of 1, a spare descriptor, greetings, 1 alert, 1 failure, 1 SIGINT; `FairSpec` | `RequestsRead`, `DeparturesReaped`, `AlertsRead`, `FailuresHandled` |
| `host` | 2 runs: one with TCP port 0 and the UDP port left open, one with both given; 2 ports that others may take, 1 sensor, mishaps worth 2; `FairSpec` | `TypeOK`, `Advertised`, `FifoShared`, `StartupFailures`, `AlertsGetThrough`, `InterruptedChildrenEnd`, `ReportersEnd` |
| `clients` | one TCP and one UDP client, 2 unread notices, 2 addresses | `TcpTypeOK`, `OrphanReader`, `DeafMenu`, `RequestsGoToServer`, `KeepsPromise`, `ExitEndsBoth`, `DisconnectObeyed`, `HangUpNoticed`, `UdpExitEndsBoth` |
| `json` | 5 items, 4 calls, 2 levels of nesting, some 900 texts, 2 strings that differ in case only | `TypeOK`, `NothingLeaks`, `WellLinked`, `ParsesTheGrammar`, `PrintsWhatItParsed`, `FindsTheFirst` |

What the properties say:

* `ConnectionsHeld`: from the handshake until its end is noticed a connection is
  in the listen queue or behind one descriptor, and only once. No leak, no
  second owner.
* `PendingStillReady`: what `select` reported is still true when the loop gets
  there, so that no handler blocks, although handlers before it close
  descriptors and accept new ones.
* `UpdateGranted`: the server keeps no record of who has authenticated. That
  an update still comes from someone it has answered with `auth_success` rests
  on two things: the client program greets first, and a refused connection is
  closed in the same handler, with everything that was already waiting on it.
* `RecordsAgree`: `master_fds`, `tcp_clients` and the open descriptors agree and
  lie within what the `for` loop visits; no duplicate in the list.
* `ListingForLife`: a connection that stays watched is never listed later and
  never delisted.
* `ImplementsService`: the server implements `NotificationService` with a
  descriptor for a slot. Accept is `Join`, close is `Part`, a broadcast is one
  `Notify` that reaches exactly the registered connections.
* `NoPhantomAlerts`: however alerts are read together, no counter exceeds the
  alerts of its entry, the unread ones included.
* `UdpCacheDistinct`: no two cached peers share an endpoint as
  `add_udp_client` compares them, and the array has room for all of them.
* the four liveness properties: no request, departure, alert or failure is left
  alone for ever while the server is up.
* `Advertised`, `FifoShared`: a run that serves and that no other start has
  overlapped has published the ports it holds, is where the socket path leads,
  owns the stock, and reads the FIFO that its sensor process writes to,
  whatever crashed runs have left. Excepted are a port given as 0, and a region
  that could not be written. The second one needs that the sensor process
  was in time (55); a FIFO that it could not unlink is shared all the same, with
  a name and perhaps alerts of an earlier run.
* `StartupFailures`: what a failed start is to be blamed on. On a dead run's
  socket only if the path could not be unlinked; on a port only if another
  program holds one; on the FIFO only if the sensor process was late or could
  not make it.
* `AlertsGetThrough`: `send_alert` is not stuck with a server that is sound.
* `InterruptedChildrenEnd`: children that SIGINT has reached end, but for a
  sensor process in an `open` that nobody answers, which is left stuck.
* `ReportersEnd`: nobody signals the power failure process, but it does not stay
  for ever on a machine without a server.
* `OrphanReader`, `DeafMenu`: the only ways in which one process of a TCP client
  goes on without the other. They are ways users meet: the end of the input
  leaves a reader that keeps its place in the server, and a server that closes
  leaves a menu that sends into the void.
* `DisconnectObeyed`: a disconnect ends both processes unless one `recv`
  returned it behind another notice, in which case it is lost
  (`tcp_client.c:203`: one parse per `recv`).
* `ExitEndsBoth`, `UdpExitEndsBoth`, `HangUpNoticed`: nobody waits for what will
  never come.
* `KeepsPromise`: the TCP client implements `ClientPromise`.
* `RequestsGoToServer`: `recvfrom` stores the sender into the variable that
  requests are sent by (`udp_client.c:497`), in the child's copy.
* `NothingLeaks`: at every moment, in the middle of a failing parse too, each
  item is in exactly one list or hand, and each string in one item.
* `WellLinked`: the doubly linked lists are whole, and the first child knows the
  last, after any sequence of calls.
* `ParsesTheGrammar`: the parser accepts a text iff the grammar (`Values`,
  defined by what a value is and not by how it is read) does, and stops where
  the value ends. `PrintsWhatItParsed` is its inverse.
* `FindsTheFirst`: lookup finds the first member with the key, in any case,
  items without a key included.

**Bounds.** Two clients are enough for every pair of handlers in one pass and
for the reuse of a number; the third in `crowd` gives a list with an entry to
shift and a client to turn away. `MaxFd` leaves either exactly the descriptors
needed, so that `EMFILE` happens, or one to spare. One alert with one failure is
two broadcasts, enough to provoke a reset and to meet it. Links and inboxes are
not bounded: a client may come and go without end, only the requests of one
connection are counted.
In `host` two runs give every pair of a live, dying or dead run with a start;
`MaxMishaps` counts SIGINTs, crashes, refused calls, infections and taken ports,
and a start beside a live run twice, so that any two of them meet. In `clients`
two unread notices are enough for one behind another. In `json` five items make
a list of three in a document, with something to insert; the texts are four
documents, all their prefixes and one-token changes, and every text of three
tokens.

**Fairness.** `WF_vars(ServerStep)`: the server is one thread of a time-sharing
system and its handlers terminate. `WF_vars(PowerSend)`: the reporter sends (or
dies, which closes its socket) right after it has connected
(`lib/emergNotif/src/emergNotif.c`). No client, sensor or signal is fair there.
In `host` each child is fair as a whole, its parent not at all: a child that can
run is scheduled and its sleeps end, while a server may wait in `select` for
ever. In `clients` the reader is fair, and so is what the parent does without
its user; the user, the server and the network are not.
`live` has a spare descriptor on purpose: without one the `open` of
`check_alerts` fails for as long as the clients stay and `AlertsRead` does not
hold; the loop then spins.

### Disagreements between the code and its texts

Five runs check a statement of the documentation and end in a counterexample.

| run | statement | what happens |
|---|---|---|
| `unlisted` | "sends the given message to all TCP clients currently connected" (`include/server.h:473`) | a client accepted while the list is full is served but never notified, also after the list has emptied |
| `undercount` | "Number of alerts in the north entry point" (`include/server.h:135`) | two alerts read at once are one in the counters |
| `sigpipe` | the defect described at `README.md:178` is to be fixed | a client leaves; the unix socket and the FIFO come before its descriptor; the second broadcast of the pass raises SIGPIPE |
| `lost_sigint` | SIGINT tells "that the server should shut down" (`include/server.h:227`) | between the `while` test and `select` it is forgotten until something else happens |
| `same_port` | the server "sends the alert to all TCP/UDP clients" (`README.md:203`); "Compare client address and port" (1107) | `sockaddr_in6` compared as `sockaddr_in`: only the port counts, so that a peer with a cached peer's port is served and never sent an alert |

`NotifiesEveryUdpPeer`, which `same_port` refutes, fails of a full cache too, as
TLC shows with three distinct ports and a list of two: `remove_udp_client` is
never called, so that a peer that writes after `MAX_CLIENTS` others is never sent
an alert, however long they have been gone (1117).

Others were met while reading and need no run: SIGINT during `select` ends in
`exit(EXIT_FAILURE)` (93) while `include/server.h:225` says "gracefully"; a
refused client is disconnected (536) while `src/clients/tcp_client.c:224` tells
it "You can only check the status"; a power failure never becomes the
`last_event` that `README.md:131` shows; the "normal" temperatures of
`lib/alertInfection/src/alertInfection.c:73` reach 38.9 although the comment
ends at 37.9, so that alerts are common; the UDP client passes NULL to
`inet_pton` when it has no `-a`, although `README.md:265` promises the loopback
address; a second server on the machine takes the socket path, the FIFO, the
stock and the published ports from the first (`overlapped` in `RefugeHost`),
which no text mentions; with `-p tcp 0`, or an argument that is no number, 0 is
published and another port bound, although the ports are said to be "shared with
the clients via shared memory" (`README.md:171`).

## 4. What is proved

All theorems hold for every value of the constants that satisfies
`ServerAssumption`, `MaxClientsAssumption` and `IntMaxAssumption`: the free
number of clients, descriptors, list places, requests, alerts, failures and
signals. Of these only `MaxFd >= 7` says something of the system (there is room
for one client), and the amounts of updates are integers.

| theorem | says |
|---|---|
| `TypeCorrect` | `Spec => []TypeOK` |
| `RecordsAlwaysAgree` | `Spec => []RecordsAgree` |
| `PendingAlwaysReady` | `Spec => []PendingStillReady` |
| `ConnectionsAlwaysHeld` | `Spec => []ConnectionsHeld` |
| `ListingIsForLife` | `Spec => ListingForLife` |
| `UpdatesAlwaysGranted` | `Spec => UpdateGranted` |
| `ServiceImplemented` | `Spec => ImplementsService` |
| `UdpCacheAlwaysDistinct` | `Spec => []UdpCacheDistinct` |
| `NeverPhantomAlerts` | `Spec => []NoPhantomAlerts` |
| `RemoveTcpClientFacts`, `AddTcpClientFacts`, `AddUdpClientFacts` | what the list operations do to a list of any length |
| `AddStockRange`, `AddStockExact`, `UpdateKeepsStock` | the stock stays in range; what fits is added exactly |

**The argument.** None of the invariants is inductive alone. A handler takes
`Head(backlog)` or `fd_owner[f]` only because `select` reported `f` earlier in
the pass; so types need `PendingStillReady`. That in turn needs the records:
closing one descriptor leaves the other bits true only if no other descriptor
has the same owner, and an accepted descriptor is new only if `master_fds` is
exactly the set of open ones. The inductive invariant is

    IInv == TypeOK /\ RecordsAgree /\ Exclusive /\ Snapshot

`Exclusive` gives every connection one place and ties places to `link`;
`Snapshot` is `PendingStillReady` with two facts of the scan (reported
descriptors do not exceed `max_fd`; while the thread is in `recv` the
connection is there and the turn has not passed `UnixFd`). Each conjunct has its
own step lemma. `RecordsChange` and `PlacesChange` reduce `Next` to the few
actions that touch the records, `SnapshotVisited` does the same for the scan,
`EnvironmentKeepsReady` says that nobody but the server makes a reported bit
false.

`RefugeServerPromises` builds on `IInv`, with one more invariant where it needs
it:

* `Greeted` for updates: the first unread request of a connection is its
  greeting, or the connection has been answered `auth_success`; and a
  connection that has spoken and has nothing unread has been answered so. It
  would break if a refused connection were kept, or closed later than its next
  request is read.
* `Fresh` for the service: nobody has been told anything before being accepted,
  so that a `Join` starts with nothing delivered although descriptors and
  clients come back. `AcceptJoins`, `CloseParts` and `BroadcastNotifies` match
  the handlers with the three actions of the service, everything else is a
  stutter (`OtherStutter`). `Join` counts the registered connections and
  `add_tcp_client` compares a length: `ListedCardinality` says that this is the
  same for a list without duplicates.
* the counting lemmas `PlacesAppend` and `PlacesFinite` for alerts, and
  `DetectedIsQueued`: `detect_entry` names an entry that was read.

### The machine and the clients

| theorem | says |
|---|---|
| `HostTypes`, `Failures`, `Advertises`, `SharesTheFifo` | `RefugeHost!Spec => []` of `TypeOK`, `StartupFailures`, `Advertised`, `FifoShared` |
| `TcpTypes`, `Orphans`, `Deafness` | `TcpSpec => []` of `TcpTypeOK`, `OrphanReader`, `DeafMenu` |
| `KeepsThePromise` | `TcpSpec => KeepsPromise` |
| `Destinations` | `UdpSpec => []RequestsGoToServer` |
| `Together` | the above for the two programs side by side |

They hold for any number of runs, ports, arguments, sensors and mishaps
(`HostAssumption`: `DEFAULT_PORT` and 0 are no ports, though a run may be given
either), and for any notices,
requests, addresses and bounds (`TcpAssumption`, `UdpAssumption`).

`HostInv` strengthens the host's properties by what a run outside `overlapped`
may count on. `Alone`: no other run is alive. `Quiet`: no sensor process of
another run, its parent dead or not, has yet to unlink or make the FIFO. From
these two every step of another process either concerns a run that is
overlapped or is one of an old child that touches no name. `Own(s)` is then
what `s` has done so far, by its position in `start_server` and its sensor
process's: the socket path is empty from `unlink_socket` to `bind_unix`, the
region is its own from `share_ports` on, the FIFO its own once made, each unless
a call of its own for it is in `unheeded`. `Counted` (a round has an
alert to send) and `Unforked` (no child before the fork) close the types and
`Own`. The frame lemmas (`OwnStays`, `RestStays`, ...) are stated once; each
action has one lemma.

`TcpInv` adds to the two properties what `main` has done so far (`Parents`),
that a reader with a signal leaves a signalled or dead parent (`Signals`), and
that the first request on the connection is the greeting (`Greeted`), which is
the whole of the refinement. For UDP: the menu's `server_addr` is the configured
one from `fork` on.

### cJSON

| theorem | says |
|---|---|
| `AlwaysAForest` | `Spec => []JsonInv` |
| `TypeCorrect`, `NoLeak`, `ListsStayLinked` | `Spec => []` of `TypeOK`, `NothingLeaks`, `WellLinked` |
| `GetObjectItemFindsTheFirst` | `Spec => []FindsTheFirst` |
| `ParserAcceptsTheGrammar` | `Spec => []ParsesTheGrammar` |
| `PrintingInvertsParsing` | `Spec => []PrintsWhatItParsed` |
| `PrintsParts` | `print_value` writes items that stand for fitting parts of a text as those parts |
| `ValuesDetermined` | where a value begins determines where it ends |
| `FindsFirst` | `get_object_item` returns the first child with the name, NULL if none has it |
| `ReplaceIsDetachAndInsert` | `cJSON_ReplaceItemViaPointer` yields the heap that detaching and inserting yield |
| `DuplicateGrove` | `cJSON_Duplicate` yields a separate tree that owns as many blocks |

They hold for any number of items, strings, texts, calls and nesting levels
(`JsonAssumption`, `CallsAssumption`: `Lower` maps names to names, a name is not
a mark of the model, texts are sequences of tokens).

The heap is a forest at every moment, but not one whose edges are all there:
while `parse_array` reads a list, no item points at it yet. So a forest
(`Forest(h, R, P)` of `JsonForest`) is a heap with its roots and a function from
items to parents, of which `Linked` says

* a child's parent is the item that points at it, siblings have one parent;
* `prev` of a `next` leads back, and `prev` of a first child is an item of the
  same list without a `next`;

and `Rooted` that nothing points at a root and that every item is reached from
one. `JsonInv` is `TypeOK`, `Owned` (each block is owned by an item), `Control`
(what the parser knows at each mode; `depth` is the length of `stack`), and that
there is a `P` for which `Shape(P)` holds:

* the heap is a forest of `Roots`;
* documents the caller holds, and the one being parsed, have no parent;
* frame `k` fills in the item that frame `k - 1` reads (`current`), which has no
  child yet; its list runs from `head` to `current`, and the parent of both is
  the item it fills in (`Frame`).

`P` is needed because of the last point: the parent of a list that is being read
is known to the parser only. From `Frame` it follows that the lists of the
frames are in different trees (`StackFacts`, `NotBelow`), which is why the
innermost one can be deleted when memory runs out without touching what the
others hold (`UnwindInv`), and closed without making a cycle (`CloseInv`).

Reachability is the least closed set, so that what is reached is shown by naming
a closed set, not by induction. Where lengths matter induction is replaced by
the least natural number for which a claim fails (`LeastNatural`), and what a
recursive function returns by the run it makes (`Iterates`, `ChainRuns`,
`SearchRuns`). `MembersFacts` then says that `Members` is all children, each
once: it can be no longer than the number of items because a list that came
back to itself would have two predecessors for one item. `ReplaceGrove` is
proved by `ReplaceIsDetachAndInsert` from the lemmas of the other two.

`ParserAcceptsTheGrammar` needs more than the heap: `GrammarInv` of
`JsonGrammar` says how the parser's position relates to the text. `Values` says
what a list is by the existence of a set of commas that separate its elements
(commas of inner lists are left out of that set), whereas the parser takes the
first comma it meets behind an element. For every frame `k` of `stack` there
are the place `s[k]` of its opening bracket and `c[k]` of the last of its
delimiters that has been read (`Reads`), such that

* what lies between them is elements separated by commas (`SoFar`), and `s[k]` is
  where frame `k - 1` waits for a value, its key and colon read (`Opened`);
* the mode says how far the parser is behind `c[k]` of the innermost frame, and
  in `after` that a value ends at `pos` (`Here`);
* if the text begins with a value at all, every one of these lists can be
  completed from its `c[k]` (`Expected`, `Ahead`).

The first two give that what is accepted is a value. The third gives the
converse: when the parser is about to reject, the completion says that another
token stands there (`ExpectsValue`, `ExpectsMember`, `ValueRead`), and at the
nesting limit that the values left have no brackets. That the completion and
the parser mean the same commas is `ValuesDetermined`: two values that begin at
one place are equal, level by level, because two separations that begin alike
agree up to the first delimiter in which they differ (`SameDelimiters`).

`PrintingInvertsParsing` relates the items to the text. While the parser runs
there are three functions on the items (`Recorded`, in `PrintInv`): `A`, where
the value of an item begins; `B`, where it ends, or 0 while it is being read;
and `K`, the item in whose list it is, which the heap does not say before the
list is closed. Of them it says

* every item that is complete stands for the tokens from `A` to `B`: a token it
  spells, or brackets of its type with its first child behind the first one
  (`IsPart`), and what follows it is a comma and the next item of the list, key
  and colon before its value, or the closing bracket (`Follows`);
* a complete item is in the list of a complete one, of a frame, or is the root
  (`Placed`);
* of the list of a frame all but the last item are complete, and the first
  stands behind the bracket of the item that the frame fills in (`Listed`);
* the mode says what lies between the last delimiter and `pos` (`Arrived`); a
  key that has been read counts only from the colon on, when its value begins
  (`LastingNamed`, `LastingBegun`).

Each step either completes one item (`LastingComplete`, for tokens and for
brackets), begins one (`LastingBegun`), or appends one (`LastingAppended`), and
leaves what it says of the others alone. At the end no frame is left, so that
every item below the root is complete. `PrintsParts` then shows that
`print_value` writes such an item as its part. It is not an induction over the
tree, which the prover could not do: `print_value` computes the text of all
items in rounds, and if a round failed for an item that has no more complete
items at or behind its beginning than there have been rounds, the least such
round (`LeastNatural`) would have failed for one of its children before.

### Only model-checked

Liveness and `ENABLED` are out of the prover's reach:
`RequestsRead`, `DeparturesReaped`, `AlertsRead`, `FailuresHandled`,
`AlertsGetThrough`, `InterruptedChildrenEnd`, `ReportersEnd`, `ExitEndsBoth`,
`DisconnectObeyed`, `HangUpNoticed` and `UdpExitEndsBoth` hold on the instances
of their runs. Every safety property that a passing run checks is also proved.

## 5. What the models leave out

* `get_food_supply` and `get_medicine_supply` attach the shared memory on every
  call and never detach; every module assumes that attaching succeeds. The
  limit is some tens of thousands of requests away, and the handlers would
  dereference NULL there.
* Datagrams to UDP peers, replies and alerts (`send_to_all_udp_clients`, whose
  addressees are the cache), the text of every message, the log and the summary
  output: they change no state a property is about.
* `check_alerts` reads at most 1024 bytes, some forty alerts, far more than
  four sensors raise before the loop comes round; the rest would be read in the
  next pass. The model takes what there is.
* A handler is atomic although clients run meanwhile. What they add during a
  handler is, for the handler, as if it had come after it; a broadcast is the
  only handler that looks at many connections, and a reset that arrives in the
  middle of one is covered by one that arrives before it.
* The reporter has one connection outstanding: it sleeps at least five minutes
  between two.
* `send` does not block and is not partial: the messages are far smaller than a
  socket buffer, and a client that stops reading is not modelled.
* `remove_udp_client`, `set_ports`, the four one-protocol functions of
  `socket_setup.c` and the connectionless branch of `handle_unix_socket_activity`
  are never called.
* `host` has one bit per FIFO for the alerts in it: `RefugeServer` says which
  there are. The parent's loop beyond the FIFO is there too. Failures of
  `malloc` and of the log are left out, and so is `htons((uint16_t)port)`, which
  truncates a port above 65535 given on the command line.
* The clients: addresses and names are values, `getaddrinfo`, `connect`,
  `get_os_id` and `fork` succeed or not; what a menu prints is not modelled. A
  notice is read whole or behind others by one `recv`, never in two parts
  (`tcp_client.c:186`): the halves would not parse, as merged ones do not. After
  a wrong option (`tcp_client.c:330`) the half-made document is lost;
  `JsonLibrary` allows a caller that.
* cJSON: the test of `cJSON_InsertItemInArray` for a corrupted list (2283-2286
  of `cJSON.c`), which cannot hold by `WellLinked`, and the partial copy that a
  failing `cJSON_Duplicate` makes and deletes (2790-2794); characters (escapes,
  UTF-16, white space), the values of numbers and their text, references and
  constant keys, `cJSON_Compare`, `cJSON_Minify`, printing into a given buffer,
  hooks. The programs here use none of these but numbers, whose arithmetic is in
  `Supplies`. `cJSON.h` is not in the repository.
* Logging, tests, mocks, and the manual unix clients.

## 6. Plan

Done: the server (`RefugeServer`), the machine (`RefugeHost`), the clients, the
library (`JsonLibrary`), and the proofs of section 4. What could come next, most useful first:

1. Attachments of the supplies against a limit, as a fault in `RefugeServer`.
2. `cJSON_Compare` against equality of printed trees.
