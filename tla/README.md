# NanodeUIP: specifications and proofs

NanodeUIP is the uIP TCP/IP stack packaged as an Arduino library for boards
with an ENC28J60 Ethernet controller. This directory holds TLA+ models of its
core, translated from the source under `src/`, the TLC configurations that
check them on small instances, and proofs that TLAPS checks for instances of
any size. `PROJECT.json` says, for every definition, which lines it stands for.

1. [The system](#1-the-system)
2. [The models](#2-the-models)
3. [What the runs check](#3-what-the-runs-check)
4. [What is proved](#4-what-is-proved)
5. [Disagreements between code and documentation](#5-disagreements-between-code-and-documentation)
6. [What is not modelled](#6-what-is-not-modelled)
7. [Plan](#7-plan)

To run: `tlc -config MCUipTcp_life.cfg MCUipTcp` (the runs of section 3),
`tlapm UipTcp_proofs.tla` (the proofs of section 4).

## 1. The system

There is one thread and no interrupt handler that touches the stack. A sketch
calls `NanodeUIP::poll()` from its loop. `poll()` handles one packet, or, **only
if there is none**, looks at the periodic timer and runs the tick of every TCP
connection, every UDP connection and, more rarely, of the ARP table. Everything
else happens in calls that nest inside `uip_process()`: the stack calls the
application, which answers through flags (`uip_send`, `uip_close`, `uip_abort`,
`uip_stop`) and may call back into the stack (`uip_connect`, `resolv_query`).
One buffer, `uip_buf`, holds the packet being received and then the one being
sent. The concurrency is therefore that of the network (segments lost,
repeated, reordered, late), of timers against packets, of callbacks that change
a table their caller is in the middle of using, of protothreads that wait over
many calls, and of the Ethernet controller, which stores frames while the driver
works on its registers.

| Component | State | Operations | Talks to | What must be right |
|---|---|---|---|---|
| TCP connections, `uip.cpp` | `uip_conns[]`: state, port, peer, `len`, `timer`, `nrtx`; `uip_listenports[]`; `lastport` | `uip_connect/listen/unlisten`; `uip_process` for a tick, a poll request, a segment | the application (callback), ARP, driver | a segment has one connection to go to; what is sent is retransmitted until acknowledged or given up; the application knows the state of its connection; closing ends |
| TCP data, `uip.cpp` + `psock.cpp` | `snd_nxt`, `rcv_nxt`, `mss`; the protosocket's `sendptr`, `sendlen` | `uip_send`, retransmission by the application, `PSOCK_SEND` | the peer, over the network | the peer gets the bytes in order and once; "sent" means received; `PSOCK_SEND` ends |
| Protosocket input, generators, `psock.cpp` | `readptr`, `readlen`, `bufptr`, `state` | `PSOCK_READTO`, `PSOCK_GENERATOR_SEND` | the stack | no byte lost or read twice over several packets |
| RTT estimator, `uip.cpp` | `sa`, `sv`, `rto` (bytes) | one update per acknowledgement | the retransmission timer | `rto` stays sensible |
| ARP, `uip_arp.cpp` | `arp_table[]`, `arptime` | `arpin`, `out`, `timer` | driver, IP output | one entry per host; frames go to the next hop's last address; old entries age out |
| UDP connections, `uip.cpp` | `uip_udp_conns[]` (2), `lastport` | `uip_udp_new/remove/bind`, demultiplexing, tick | DHCP, resolver | a datagram reaches the connection it is for |
| DHCP, `dhcpc.cpp` | protothread state, offered address, server | tick, message | UDP, the sketch (callback) | configures what a server acknowledged; retries until it does |
| Resolver, `resolv.cpp` | `names[]` (2), `seqno`, `resolv_conn` | `resolv_query/conf/lookup`, tick, message | UDP, the sketch (callback) | every name is asked for and reported once, with its own address |
| Main loop and timers, `NanodeUIP.cpp`, `timer.cpp` | `periodic_timer`, `arp_timer`, `uip_buf`, `uip_len`, `uip_slen` | `poll`, `timer_expired`, `timer_reset` | everything | timers go on and keep time; what is sent was built for it |
| IP and ICMP input, `uip.cpp` | none | header checks, echo | TCP, UDP | nothing is answered that was not for this host |
| ENC28J60 driver, `enc28j60.cpp` | `gNextPacketPtr`, selected bank; the controller's ring, counters, transmit buffer | init, receive, send | the controller | frames come out once, in order and whole; the buffer is not written while being sent; the loop never hangs |
| telnetd, shell and memb, `src/uip/` | `lines[]` in memory blocks, `numsent`, option parser | output queue, acknowledgement, closing | TCP | a line waiting has its own block |
| Web client, `webclient.c` | one static state: request, parser, timer | get, answer, redirect | TCP, resolver, the program | the program gets the page's text and nothing else |
| Web server, `httpd*.c` | a connection's two protothreads | request, page, script, include | protosockets | the page asked for, whole; silent clients are dropped |
| SMTP, `smtp.c` | one protothread | the dialogue | protosocket, the program | "sent" means the server took it |
| uip-fw, uip-split, `src/uip/` | `fwcache[]` | forward, output, split, periodic | other nodes | loops end; checksums stay right |
| uip-neighbor, `src/uip/` | neighbour table | add, update, lookup, periodic | not in the Arduino build | a free or the oldest entry gives way |

The hazards of this code, each with its line and the property that would catch
it, are the `hazards` of `PROJECT.json`. The hard behaviours are these:

* **Callbacks that open connections.** `uip_connect()` inside a callback runs
  while the calling handler holds a pointer to a slot; that slot may already be
  `CLOSED` or `TIME_WAIT` and be given away. UDP callbacks close and open
  connections, too, and all of them move `lastport`.
* **Fields with two meanings.** `timer` is the retransmission timer in some
  states and the age in others; `len` is bytes of data, or the one sequence
  number of a SYN or FIN; both are bytes, compared with `==`.
* **The application retransmits.** uIP does not keep what it has sent; the
  application must produce the same bytes again, and must know how many were
  acknowledged. Five pieces of code do this bookkeeping, each in its own way.
* **One static state for all connections** (telnetd, the web client).
* **Tables with two to eight entries** that evict the oldest, by 8-bit clocks.
* **Answers matched by an index** (the resolver) or by a constant (DHCP's xid),
  so that late answers meet later questions.
* **A wrapping clock**, and timers looked at only when the network is idle.
* **A controller that works at the same time** as its driver, keeps its state
  when the processor restarts, and has errata to be worked around.

## 2. The models

| Module | What it is |
|---|---|
| `UipTcp`, `MCUipTcp`, `UipTcp_proofs` | the connection table and TCP state machine of `uip_process()`; symmetry and view; inductive invariant and theorems |
| `ReliableStream` | abstract specification: one direction of a TCP connection |
| `TcpStream`, `TcpStream_proofs` | one connection's data transfer, with the protosocket, the network and a peer; the proofs of both refinements |
| `Timer`, `Node`, `Node_proofs` | the main loop with the timers, the UDP connections and the two lengths of the packet buffer |
| `UipArp` | the ARP cache |
| `Resolv`, `Resolv_proofs` | the DNS resolver, its invariant and theorems |
| `Dhcpc` | the DHCP client |
| `UipEvents`, `UipApp`, `Psock` | a TCP connection as its application sees it; one such connection; protosockets on it |
| `Telnetd`, `Smtp`, `Httpd`, `WebClient` | the applications |
| `MCApps`, `Apps_proofs`, `Httpd_proofs` | every application and the DHCP client, for one run; the theorems about them; those about the pages of the web server, and with them the types of all applications |
| `FrameQueue` | abstract specification: what the Ethernet driver promises |
| `Enc28j60` | the driver against its controller |
| `UipFw` | nodes that forward packets to each other |
| `UipNeighbor` | the neighbour table |
| `MCLink`, `Link_proofs` | the ARP cache, the driver, the nodes and the neighbour table, for one run; the theorems about them |
| `FoldTheorems` | what a fold does to every value, from which the proofs take their inductions |

A step of a model is one call of `uip_process()` (or of an API function from
the main loop): nothing can come between. The application's callback is part of
the step that calls it. Finer steps are taken where something can: the driver's
operations on the bus, and the statements of a protothread. Each module is
parameterised by the constants of `uipopt.h` and the like, which the code fixes
at compile time.

How they fit together: `Node` calls what the other modules detail. A visit of a
TCP connection is `Periodic(s)` of `UipTcp`, that of a UDP connection is `Poll`
of `Resolv` or `DhcpPoll` of `Dhcpc`, that of the ARP timer is `Timer` of
`UipArp`; `PollFrame` is the `Input` of each. `TcpStream` is one connection of
`UipTcp` with its sequence numbers; `UipEvents` is that connection from above,
and the applications run on it. `Enc28j60` is the `waiting` of `Node` in detail.

### UipTcp

`conn` is `uip_conns[]`, `listenports` is `uip_listenports[]`, `lastport` is
itself, `out` is what the step leaves in `uip_buf` for the device. The actions:

| Action | Code |
|---|---|
| `Listen`, `Unlisten`, `Connect` | `uip_listen`, `uip_unlisten`, `uip_connect` |
| `Periodic(s)` = `TickWait`, `TickCountDown`, `TickGiveUp`, `TickRetransmit`, `TickAppRetransmit`, `TickPoll` | `uip_process(UIP_TIMER)` |
| `PollRequest(s)` | `uip_process(UIP_POLL_REQUEST)` |
| `Input(sg)` = `RecvStray`, `RecvSyn`, `Recv(s, sg)` with one action per state | `uip_process(UIP_DATA)` for TCP |

`AfterCall` is the callback's freedom: the table it started from, or that table
after one `uip_connect()`. `AppTurn` is a callback followed by the `appsend`
label, so that every answer of the application is tried everywhere. `told` is a
history variable: what the application has heard of the connection in the slot.

Abstractions, besides those in the module's header comment:
* A segment carries whether its sequence number is the expected one (`inseq`)
  and whether it acknowledges what is outstanding (`acks`), the only two things
  the code computes from the numbers. `TcpStream` has the numbers.
* The RTT estimator may produce any `rto` of `RtoRange`.
* At most one `uip_connect()` per callback. `uip_stop()` and `uip_restart()` are
  called in the calls that reach an application with an established connection.
* A `send` answer also stands for a retransmission that the stack makes because
  `uip_slen` was left over from an earlier call.
* `uip_udp_new()` moves `lastport` too (`Node`). With a port space as small as the
  checked one `uip_connect()` could find no port, where the code would search for
  ever; the action is then disabled. The real ports cannot be used up by three
  connections.
* Checksums, urgent data, the window (`TcpStream` has it) and the MSS option are
  left out.

### TcpStream and ReliableStream

`TcpStream` is one established connection: `uip` holds the sequence number
fields, `psock` the protosocket that sends a message with `PSOCK_SEND` and then
closes, `heard` what the application got, `peer` a TCP at the other end,
`toPeer` and `toUip` the segments in flight. Bytes are numbered, so that a lost,
repeated or invented byte shows. The peer and the network are external: the peer
takes what is in order and fits its buffer, advertises the room left and may
repeat anything not yet acknowledged; the network loses, duplicates and reorders.
Sequence numbers wrap around within every run (`SeqMod` 16, `ISS` 14, `IRS` 15).

`ReliableStream` is what one direction of a TCP connection promises. `TcpStream`
refines it twice, through `Outgoing` (the message: `written` is how much the
protosocket handed to the stack, `confirmed` how much it believes to have
arrived) and `Incoming` (the peer's data: `abandoned` once uIP has closed, since
it then acknowledges data and throws it away).

Abstractions: the retransmission timer may expire at any tick; what the
application wants to send in the call that tells it of a FIN is ignored, as in
the code; what the peer sends to a `CLOSED` connection is left out (`UipTcp`
answers it with a RST). `MayQuit` lets the application close when data comes;
only `tcp_quit` sets it.

### UipArp

`arp_table`, `arptime` and `out` are the code's; `learned` (what each host said
last) and `wrapped` (the clock has wrapped around) are history. `Request` and
`Reply` are `uip_arp_arpin()`, `Timer` is `uip_arp_timer()`, `ArpOut` is
`uip_arp_out()`. `uip_arp_ipin()` is compiled out. Senders have an address of the
local network, or 0.0.0.0 (a probe), which the table stores as an unused entry.
The default router is configured: with `uip_draddr` 0.0.0.0 the lookup matches
unused entries, a hazard that belongs to the start-up before DHCP.

### Resolv

`names`, `seqno` are the code's; `conn` is the local port of `resolv_conn`;
`questions` is every question ever sent, each of which the server may answer at
any time, any number of times or never. `check_entries()` is a walk with the
application's callback in the middle: `at` is its position, one step of the
model looks at one entry, and no other action is enabled while it runs. `told`
is history, as in `UipTcp`.

Abstractions: an address is the name it belongs to; the fields of an entry that
are written before they are read are cleared; `init_resolv()` has been called,
and only once; a callback makes at most one query. The port of a new UDP
connection is any port.

### Timer and Node

`Timer` is `timer.cpp`: moments modulo the width of the clock, and
`timer_expired()` as the code writes it, a difference plus one. `Node` is
`poll()`: `PollFrame` handles a frame, `PollNothing` finds neither frame nor
expired timer, `PollTimer` starts a walk over all connections, of which `pos` is
the place. `Visit` is one call of `uip_periodic()` or `uip_udp_periodic()`, or
the look at the ARP timer. `Elapse` and `Arrive` are the world, at any time, also
in the middle of a walk. `IpInput` is the order of the header checks; `UIP_BROADCAST` is 0 in
this build, so that a configured host drops broadcasts like anything else that is
not addressed to it.

`Uses(udp)` is what any callback or the sketch may do with UDP connections:
`UdpNew` is the search of `uip_udp_new()`, `UdpBind` is `uip_udp_bind()` with any
port, `DhcpInit` and `resolv_conf()` are there by name. Neither `uip_udp_bind()` nor
`dhcpc_init()`, which binds port 68, looks at the other connections, and neither
does the model: two connections may share a port that one of them was bound to.
`bound` is history and marks these; `UdpPortsDistinct` is about the ports
that `uip_udp_new()` chooses.

`lag` is history: the time since a timer was last due or set, counted without
wrapping; `TimersKeepTime` compares the code's arithmetic with it.

`uip_len` and `uip_slen` are the two globals on which it hangs what `poll()` sends.
A length is 0 (`none`) or not, and then a step remembers whether it was set in this
call (`built` by the stack, `queued` by `uip_send()`) or in an earlier one (`left`).
Nothing resets them between calls: each path has to. So every call begins with the
lengths as they are, and each exit of `uip_process()` is an operator of its own with
the lengths that hold there: `Drop` is the label `drop`, `SendHeader` a packet of
headers alone, `SendData` one with the `uip_slen` bytes of the application, `AppSend`
the label `appsend`; `TcpInput`, `TcpTimer` and `UdpCall` are the paths that lead to
them, with the assignments of `uip_len` and `uip_slen` on the way. The calls that
tell an application of an end leave `uip_slen` as it was, so that old lengths do
stay; `SentIsOwn` says that they never reach the network.

### Dhcpc

`dhcp` is `dhcpc_state` with the place the protothread waits at; `HandleDhcp(m)`
is `handle_dhcp()` for a tick (`Silence`), a datagram that is no reply to this
host, or a reply. `Parsed` stores address and server of every reply before its
type is looked at, as `parse_msg()` does. `messages` is what was ever sent: any
server may answer any of it at any time, any number of times or never, with
acknowledgement or refusal. `granted` is history.

### The applications

`UipEvents` lists the events an application is called for (connected, data,
acknowledged, retransmit, poll, and the ends) and what the stack makes of each
answer; it is the upper side of `UipTcp` and `TcpStream`, with one segment
outstanding at most, the peer taking what it gets in order. The retransmitted
data is what the application puts into the buffer at that moment: `RexmitIsSame`
compares it with what was sent first. `HttpdChanging` are the lines of the web
server's reports that are made of counters and timers: made again, they are
other lines, for which `PageIsSentAgain` makes the one exception.

* `Psock`: the three blocking calls the applications use. Each statement of a
  protothread is a step; one that blocks returns to the stack. Segments may be
  cut anywhere, so that a line or a reply arrives in pieces, and several together.
* `Telnetd`: the queue of lines with their memory blocks (`memb_alloc`,
  `memb_free` with reference counts), the option parser, the commands of the
  shell by the number of lines they print, and both kinds of end.
* `Smtp`: the dialogue as a program of statements, with a server that answers
  each command once, with any code, in any pieces.
* `Httpd`: `handle_input()` and `handle_output()` on their two protosockets,
  scripts, includes and reports. The files are a constant: the list of
  `httpd-fsdata.c` in its order. A name finds its file as in
  `httpd_fs_strcmp()`, which calls two names equal as soon as the stored one ends, or
  the one asked for has a line end: `/index.html.old` is answered with `/index.html`
  and 200. The property does not repeat that loop: it says which files a name stands
  for (`StandsFor`, by prefixes of the name), that the first of them is sent, and
  404 if there is none. Names are sequences of tokens; no token is the
  beginning of another, so that prefixes of tokens are prefixes of characters.
* `WebClient`: the request, the parser of status line and headers, and moved pages,
  for several connections that share the one static state. `told.mixed` is history:
  a second request began before the first connection was done.

`MCApps` gives each of them, and `Dhcpc`, behaviours of their own in one run:
they share no state, and `app` names the one that runs.

### Enc28j60 and FrameQueue

`drv` is the driver (`pc` names its next bus operation, `bank` and `next` are the
variables `Enc28j60Bank` and `gNextPacketPtr`), `chip` the controller, which is
external: its ring of cells, pointers, packet counter, transmit buffer and the
bits `TXRTS` and `TXERIF`. `ChipReceives` and `ChipTransmits` come between any two
operations; a transmission may fail and leave the transmit logic stuck, and
`Restart` is a restart of the processor alone. The driver refines `FrameQueue`
through the frames that lie in the ring from `next` on. `EPKTCNT` is one byte, and
the controller takes no frame when it is full (`EthPackets`).

`RXSTOP_INIT` is even in the source (`0x1FFF-0x0600-1`), and so it is in all runs.
That has a consequence. When `next` is at the start of the ring, the driver first
writes `next` to `ERXRDPT` and then moves it back to `RXSTOP_INIT`. In between, the
controller may store frames up to the cell before `RXSTOP_INIT`: `ERXWRPT` then equals
`ERXRDPT` after the second write, and the controller takes the full ring for
an empty one and overwrites frames that wait. `filled` in `MCLink` is history: it is
set when this state (`~NotFilled`) comes about and cleared by the next reset of the
controller. `FramesInOrderUntilFilled` is the refinement up to that moment. After it
frames are lost or mixed, which a run with `FramesInOrder` shows at once. This is
no entry of section 5, since it depends on what the controller, which is external,
does with equal pointers.

### UipFw and UipNeighbor

Each node of `UipFw` has an inbox; `FwLocal`, `FwDuplicate`, `FwForward` and
`FwExpire` are the ways through `uip_fw_forward()`, `Output` is `uip_fw_output()`
for the packets of a call, `Split` is `uip_split_output()`. Addresses are pairs of
words, checksums are computed as the code computes them. `last` is history.
`UipNeighbor` is the table with the code's comparison of a link address with IP
addresses (`EndsSearch`); `NeighborAsIp` says which link address reads like
which IP address, and in the runs one of the two does.

## 3. What the runs check

Passing runs:

| Run | States | What it shows |
|---|---|---|
| `tcp_life` | 52,132 | One slot, all timers and retry counts, every answer of the application, every segment in every state. `OutstandingMatchesState`: a SYN or FIN that waits is exactly the one byte the timer works on. `AppKnowsState`: the application is never told something that makes no sense and no connection disappears without a word. `SentIsOutstanding`: what takes sequence space is on the retransmission list. `TransitEnds`: opening and closing end, under any behaviour of the peer. |
| `tcp_table` | 50,618 | Two slots, two peers: `UniqueConnections` while active and passive opens, ports that wrap around, `TIME_WAIT` slots and opens inside callbacks compete. |
| `tcp_send` | 350,172 | A message of two segments and a byte from the peer: both directions refine `ReliableStream`, and `PSOCK_SEND` ends. |
| `resolv_life` | 799,163 | Two names, two entries, two ports, four queries with `seqno` wrapping after three: `ToldOnce` and `QueriesEnd`. |
| `node` | 45,680 | `TimersKeepTime` across the wrap of the clock and whole intervals late; `SentIsOwn`: no packet or data of an earlier call leaves, on any path of `uip_process()`; `VisitsGoOn`: every connection is visited again and again. |
| `node_ports` | 117,612 | `UdpPortsDistinct`: whatever callbacks and the sketch open, close and bind, `uip_udp_new()` chooses no port in use. |
| `apps` | 23,170 | DHCP: `ConfiguredIsGranted`, `RequestsEnd`, `DhcpcKeepsAsking`. All applications: `AppsSendTheSame`, which is `RexmitIsSame` but for the web server's lines of counters. telnetd: `LinesAreOwned`. SMTP: `OkMeansTaken`. Web server: `HttpdPageIsRight`, `HttpdDropsSilentClient`. Web client: `DataIsRight`. |
| `link` | 386,908 | ARP: `OneEntryPerHost`, `FramesReachNextHop`, `ForgetsOldest`, with three hosts that change their hardware addresses and a table of two. Driver: `FramesInOrderUntilFilled` (it refines `FrameQueue`), `TransmitUndisturbed`, `ReadPointerOddOrEnd`, `LinkLoopGoesOn`. Forwarding: `ChecksumStaysRight`, `NotTwiceRunning` (nothing is sent for a packet that was the last one sent, also when it comes back at once), `PacketsDie`. Neighbours: `OldestOrLookalikeGoes`. |

Violation runs, each for a sentence of the documentation (section 5):
`tcp_reset`, `tcp_window`, `resolv_drop`, `eth_even`.

### Bounds

* `tcp_life` has one slot because its properties speak of one slot at a time;
  `tcp_table` adds the second, which is where eviction and port clashes need
  two. The proofs cover any number for all safety properties. Retry limits are 6 and 2 in `tcp_life`, above the last
  step of the backoff (`nrtx` 4), and 1 and 0 in `tcp_table`, where retries
  matter only for reaching `TickGiveUp`. Timeouts are a few ticks.
* Two or three local ports: with as many slots the search wraps around.
* `tcp_send`: two segments are the shortest message with a full segment followed
  by a short one; one segment in flight towards the peer and two towards uIP are
  enough for a late duplicate to meet a new segment. The peer's buffer holds one
  full segment, so its window is full or closed; `tcp_window` uses one that is
  not, where the property fails.
* `link`, the ARP cache: three hosts for two entries make every update after the second an
  eviction; the clock wraps after four ticks, above the maximum age of two.
* `resolv_life`: `MAX_RETRIES` 3 is the least with a retry whose timer was
  lengthened. `MaxQueries` bounds the application: one that never stops querying
  can hold up another entry for ever, see below.
* `node`: a clock of five ticks; `MaxLag` 2 lets `poll()` fall two periods behind,
  and is the most a clock of that width can tell from the future (section 4 has
  the general condition). One UDP connection with two dynamic ports and the port
  of DHCP, and one TCP connection: `SentIsOwn` is about lengths that one call leaves
  to the next, `VisitsGoOn` about the walk.
* `node_ports`: two UDP connections, three dynamic ports that `lastport` goes around
  in, and the port of DHCP, with the smallest clock.
* `apps`: segments of three tokens and one retransmission of each; every text is
  longer than a segment. Two DHCP servers, waits of a few seconds. Three lines for
  telnetd, one less than `help` prints. Requests and replies of each kind the
  parsers tell apart, in all pieces; names that are a file's, none's, one that goes on
  after a file's, one with a line end, and one too long for the buffer of five
  tokens. Of the two lines of a report one changes.
* `link`, the others: a ring of five cells, which ends at an even address like that of the
  source, for frames of two and three cells, so that it is full and wraps around in the
  middle of a frame; a packet counter that is full at three; one restart. A ring of seven cells
  with four packets (1,159,747 states) passes, too, but takes longer than is useful
  for every run. Three nodes: two
  default routers of each other and one behind; a full segment, a packet that
  loops and a broadcast. Three neighbours for three entries, and two link addresses, of
  which one reads like an IP address.
* `TcpStream`, `MCApps` and `MCLink` say `CHECK_DEADLOCK FALSE`: when the
  connection is gone, the mail sent, the host configured, or the last packet
  dropped, nothing is left to happen.

### Fairness

* `Node`: `poll()` is called again and again and returns (`WF` of `PollFrame` and
  of each `Visit`), time goes on (`WF` of `Elapse`). That `poll()` finds **no**
  frame again and again is an assumption about the network, for which the code
  does nothing: it is the strong fairness of `PollTimer`. `VisitsGoOn` follows,
  and is what the other modules take for granted.
* `UipTcp`, `TcpStream`, `Resolv`, `Dhcpc`: `WF` of a connection's tick, which is
  `VisitsGoOn`; for DHCP also of time. Nothing is assumed of the network, the
  peers, the servers or the application, except that `QueriesEnd` bounds the
  queries: `check_entries()` sends one packet per poll and does not even count the
  timers of the entries behind it, so that a first entry which is queried anew at
  each poll starves the second.
* `Httpd`: a call returns (`HttpdRuns`), and the periodic timer polls and
  retransmits (`HttpdTick`). The client is not fair: it may fall silent.
* `Enc28j60`: the driver goes on, and the controller ends a transmission, well or
  with an error, unless it is stuck. `UipFw`: each node takes what arrived.

### Mutants

Every property of a passing run has a mutated operator beside the one it mutates
(marked "Mutant" in the modules): a dropped guard, a missing reset, a wrong bound.
With the mutant in place of the operator the run finds the property violated.

## 4. What is proved

TLAPS proves, for every value of the constants that the named assumptions allow:

| Theorem | States |
|---|---|
| `UipTcp_proofs!TypeCorrect` | every timer fits its byte, no retry count passes its limit |
| `UipTcp_proofs!ConnectionsAreUnique` | no two connections in use share port and peer |
| `UipTcp_proofs!OutstandingIsRight` | `len` fits the state |
| `UipTcp_proofs!AppIsToldRight` | the application's knowledge fits the state |
| `UipTcp_proofs!SentStaysOutstanding` | a SYN, a FIN or data that a step sends is counted as outstanding on its connection at the end of that step; a close may later put a FIN in the place of data (`uip.cpp:1728`) |
| `TcpStream_proofs!TypeCorrect` | windows, positions and segments have their types |
| `TcpStream_proofs!MessageIsDelivered` | if the application may not close early, `Spec /\ []WindowsFit => OutgoingSpec`: the peer gets the message in order, each byte once, and what counts as acknowledged is what it has |
| `TcpStream_proofs!RoomIsEnough` | `WindowsFit` holds for a peer whose buffer takes the message and one segment more, so `Spec => OutgoingSpec` for it |
| `TcpStream_proofs!SentAndReceived` | under `WindowsFit`, `PSOCK_SEND` is over only when the peer has the whole message, as `psock.h` says |
| `TcpStream_proofs!PeerStreamIsDelivered` | `Spec => IncomingSpec`: the application gets the peer's stream in order, each byte once and the end last, and the peer is told that bytes have arrived only if they have |
| `Link_proofs!ArpTypes` | the entries and their clock have their types |
| `Link_proofs!HostsHaveOneEntry` | no host has two entries |
| `Link_proofs!FramesGoRight` | frames go to the hardware address the next hop gave last |
| `Link_proofs!OldestIsForgotten` | until the clock wraps, only the oldest entry of a full table gives way (an action property) |
| `Resolv_proofs!TypeCorrect` | timers and retries in range, every question for a name |
| `Resolv_proofs!QueriesAreToldOnce` | one call of `resolv_found()` per query at most |
| `Node_proofs!TypeCorrect` | clock, timers, lengths and UDP table have their types |
| `Node_proofs!TimersAreRight` | a timer is expired if and only if its interval has passed since it was last due |
| `Node_proofs!PortsAreDistinct` | `uip_udp_new()` chooses no port in use: two UDP connections share one only if one of them was bound |
| `Node_proofs!OwnPacketsOnly` | no packet and no data left by an earlier call is sent, whatever `uip_len` and `uip_slen` are at the beginning of a call (an action property) |
| `Apps_proofs!DhcpcTypes` | the waits of the DHCP client stay within their limits |
| `Apps_proofs!AddressIsGranted` | the address configured was acknowledged by the server named |
| `Apps_proofs!TelnetdTypes` | telnetd's lines and the blocks of its heap have their types |
| `Apps_proofs!TelnetdLinesAreOwned` | each line of telnetd's output has a block of its own, which is in use |
| `Apps_proofs!TelnetdRepeats` | what telnetd sends again is what it sent |
| `Apps_proofs!SmtpRepeats` | what the SMTP client sends again is what it sent |
| `Apps_proofs!SmtpOkMeansTaken` | `smtp_done()` reports success only when the server has got the whole dialogue, in order and once, and has replied to every command but `QUIT` |
| `Apps_proofs!SmtpTypesHold` | the SMTP client stays within its buffer, sends nothing from memory that is used for other packets and reports only codes of `smtp.h` |
| `Apps_proofs!HttpdRepeats` | so is what the web server sends again, but for a line of a report that is made of counters, which is made anew |
| `Apps_proofs!WebTypesHold` | the web client's timer and line buffer keep their limits, and its pointer into the request and what is left of it add up |
| `Apps_proofs!WebDataIsRight` | the program gets the text of its page from the beginning and nothing else, and the server a beginning of the request, as long as no second request began before the first connection was done |
| `Apps_proofs!AppsRepeat` | the composed module `MCApps` keeps `AppsSendTheSame` |
| `Httpd_proofs!HttpdSendsThePage` | the client of the web server has got a beginning of the page its request stands for and nothing else, and all of it when the server closes, for any list of files, any names and any lines that change |
| `Httpd_proofs!HttpdTypesHold` | the web server stays within its input buffer and its segments, counts polls no further than the limit and reads no request from memory that is used for other packets |
| `Httpd_proofs!AppsSendThePage`, `AppsTypes` | the composed module `MCApps` keeps `HttpdPageIsRight` and `AppsTypeOK` |
| `Link_proofs!BufferIsLeftAlone` | the transmit buffer is not written while being sent |
| `Link_proofs!BankIsRight` | the driver's copy of the selected bank is right after the first reset |
| `Link_proofs!FramesAreInOrder` | `EthSpec /\ []NotFilled => FramesInOrder`: the driver implements a queue of frames |
| `Link_proofs!FramesAreInOrderUntilFilled` | `LinkSpec => FramesInOrderUntilFilled`, for odd and even rings: every step is one of the queue until the ring is filled between the two writes of `ERXRDPT`, and again after the next reset |
| `Link_proofs!ReadPointerIsOdd` | `ERXRDPT` is left at an odd address, or at the end of the ring when the next packet begins at its start |
| `Link_proofs!PartsAreApart` | a behaviour of the run's specification `LinkSpec` is one of `EthSpec`, of `FwSpec` and of `NeighborSpec`, so that all the theorems about these hold of it |
| `Link_proofs!LinkTypes` | for odd and even rings: the pointers of the driver and the controller stay in the ring, and unless it was filled as above `EPKTCNT` never exceeds what it can hold, also across restarts; and the types of the other parts |
| `Link_proofs!UpdateIsRight`, `HopStaysGood` | the incremental update of the checksum is a new computation, for every header and TTL |
| `Link_proofs!ChecksumsAreRight` | every packet anywhere has the right checksum |
| `Link_proofs!NoLoopAtOnce` | a packet that is the last one sent, and not `FW_TIME` old, is taken from the input without anything being sent (an action property) |
| `Link_proofs!OldestNeighborIsReplaced` | a new neighbour takes an entry that is free or the oldest, or one whose IP address reads like the new link address (an action property) |
| `FoldTheorems!FoldLeftSteps`, `FoldLeftStays` | a fold over a sequence is its recursion; what each step keeps, the fold keeps |

**UipTcp.** The inductive invariant `IInv` joins the four properties: a slot that
is reused must have an application that knows of its end (`AppKnowsState`), or
`Refill` would confuse it; that in turn needs the state and `len` to fit. The
difficulty is that the invariant does not hold inside a step: a handler changes
its slot, calls the application, which may open a connection in the table as it
is at that moment, and changes the slot again. The proof is therefore about
tables `t`: `HalfWay(t, s)` says that everything but slot `s` is in order, and
`s` too if the callback may take it. `BeginStep` leads from the invariant to a
half-way table, `CallKeepsTable` takes it through the callback, `EndStep` back;
one lemma per action applies the three. It assumes `16 * UIP_RTO < 256` (the
backoff fits its byte), `UIP_MAXSYNRTX <= UIP_MAXRTX` and a timeout that fits a
byte; the code's 3, 5, 8 and 120 do.

**TcpStream.** For streams of any length, any segment size, closed and opened
windows, sequence numbers of any width above twice the length of the streams, and
with an application that may close at any data (`MayQuit` is not fixed). The
invariant gives every number a position in the stream: `rcv_nxt` is the number of a
position `r`, which as long as uIP has not closed is what the application has heard
and its end; every acknowledgement in flight, however old, is the number of a
position up to `r`; every segment in flight is a part of what the peer has written,
under the number of its place. `AtIsInjective` says that different positions have
different numbers, so that a segment that passes the test of its number is the next
part of the stream (`PartsJoin`), and `AtIsAhead` that an old acknowledgement does
not look like a new one. `Quiet` and `Takes` are the two kinds of steps of uIP:
those that take nothing in, and those that take one segment; each has a lemma, and
one lemma per event says which kind it is. `StepRefines` then reads a step of
`ReliableStream` off `Moves`.

The other direction is proved in the same way: `OutInv` says which bytes of the
message are out, which the peer has and which acknowledgements are in flight, all as
positions. It needs two conditions, since without them the code does not do it.
`~MayQuit`: the application does not close while data is outstanding, which would
put the FIN in the place of that data. `WindowsFit`: every window that is advertised
is 0 or has room for the chunk that is out; otherwise `ack_data()` takes a chunk to be as long
as the new window (`tcp_window`). The second is a condition on behaviours;
`RoomIsEnough` shows that it is not an idle one: it holds throughout if the peer's
buffer takes the whole message and a segment more, which need not be read for that.
Smaller buffers that are read in time satisfy it, too.

**UipArp.** `ArpInv` adds to the properties that an entry in use holds what its
host said last (`EntriesCurrent`) and that, before the clock wraps, no entry is
younger than the clock (`NotAhead`), without which ages say nothing. `SlotIsSafe`
says that the entry an update takes is the host's own or forgets somebody else.

**Resolv.** `GoodEntry` for every entry, and that a walk has a connection to send
on. As for TCP the lemmas speak of tables, since the callback changes the table
in the middle of a walk (`FoundKeeps`).

**Node.** The timer's start and the clock are moments of a circle; `LagIsTrue`
says that their distance on it is the true time since the timer was due, which
holds as long as that time stays below the width of the clock (`MaxLag + 1 <
ClockMod`, for the code's 32 bits of milliseconds 49 days). `TickCounts` and
`ResetCounts` carry it over a tick and over `timer_reset()`, `ExpiredIsLate` reads
`timer_expired()` off it. For the ports, `UsesKeeps` goes through all a callback
may do in any table, for the same reason as in `UipTcp`; it needs no condition on
which ports are bound. `SentIsOwn` needs the path of each event: that the
lengths at its exit were set on the way to it.

**Folds.** `Output()` of forwarding, the heap of telnetd and the chain of frames in
the ring are folds or follow a chain of any length. `FoldTheorems` takes the operator
that is folded as a constant: a module that needs it for an operator of its own
INSTANCEs it with that operator, and has the induction as a theorem about it
(`FoldLeftSteps`, `FoldLeftStays`). Induction itself is `SetInduction`, for a set of
numbers and not for a formula, from the well-foundedness of `<`.

**Dhcpc.** Until the client is bound the host has no address, whatever replies have
overwritten; the one step that configures it is taken on an acknowledgement, and
then `parse_msg()` has stored the server and address of this very message.
`AnswerIsReply` says that what servers send are replies of the right shape.

**Telnetd.** `TelInv` says that the queue has allocated blocks, each its own
(`Owned`), and that the outstanding segment is made of the first lines of the queue
(`FrontIsSent`). Printing only ever adds to the queue or to free blocks (`Longer`,
which is transitive and so survives any command's output), and the front goes only
when it is acknowledged: what `senddata()` makes again is then what was sent.

**Protosockets, Smtp and Httpd.** A protosocket keeps what it has not sent yet. The
lemmas about it (`SockSends` to `SockGenerated`) hold for any protothread: `SockInv` is what both
applications share, the connection, the protosocket and a call that can
happen; `Sending` says that what is outstanding is the first chunk of what the
protosocket keeps. `SmtpInv` adds that the program counter waits at a statement that
sends, `HttpInv` that the server is past the request and outstanding is what its
statement makes: a chunk of a text, of a file, or a line of a report, as it was the
first time or made again. `PSOCK_SEND` leaves
its statement only when nothing is outstanding, so that no other statement meets data
that is. That a line which is made again can be another one is part of what is proved:
nothing is assumed of `HttpdChanging` (section 5 has the disagreement). Of the constants it is assumed
that messages, files and reports are sequences and no file is empty.

**The dialogue of Smtp.** The program of the client and the commands of the server are
two texts, for any message and with or without a second receiver; `ProgramSays` shows that
the one says the other: `Talk(cc)[i]` is what the first `i` statements have said and how many
replies they have read, and at the end that is the whole `Dialogue` and a reply to every
command but the last. `InStep` ties a session to it. `Speaks`: what the peer has
acknowledged, with what the protosocket still has to send, is what the program has
said. `Hears`: the replies that have been read, the one whose end the server owes and the
one that this call brings are no more than the server has begun; so a reply in two
segments counts once. `Turn`: `psock_newdata()` looks at data once only because of the
state `READ`, which every `PSOCK_SEND` that ends would clear; it is safe since each
reply is followed by a statement with something to send (`TakesTurns`), which
blocks and so ends the call. `TalkInv` keeps this until success is reported, and
from then on that what was reported stays true, although the protothread starts again in
the same connection. It is assumed that no reply code is an end of line.

`FitsInv` adds the types to `TalkInv`: that the buffer of the replies never holds more than its
size, however a line is cut (`ReplyFits`), and that what was reported is a code of `smtp.h`. It is
assumed that the text of the mail is never the memory of another packet, which is what
`Junk` stands for.

**The page of Httpd.** `PageInv` is about the connection while there is one (`Live`), which is
in one of two phases. In the first (`ReadsRequest`) the server has sent nothing, and what
the client has said is the words that are behind, the part of the next one that was read,
of which the buffer has what fits, and what has not been read yet: so the name is that of
the request, in whatever pieces it came. In the second (`SendsPage`) what the client has
acknowledged, with what is left, is the whole `Response`. What is left (`Left`) depends on
the statement the thread waits at: of this statement (`LeftNow`), which is less if
this call acknowledges what is outstanding; and of the ones after it (`LeftThen`), which for a
script is what the lines still to come show (`ShownAll`). `ShownFolds` and the lemmas after it
take a text, a file or a report off the front of that, with `FoldTheorems` for the
lines; one lemma per statement (`TextIsSent`, `FileIsSent`, `ReportIsSent` and others)
moves the one equation over, whether the statement goes on (`PageMovesOn`) or blocks
(`PageBlocks`). The close comes after the last statement only, with nothing left. For the
types the phases say the rest: the input is read in the call that brings it
(`ReadsInCall`), and the polls stop at the limit because the connection is then aborted
(`IsPatient`). A line of a report that was made again stands for the line in what the
client has got (`ReportIsMadeAnew`). Which file is opened is a matter of the names alone:
`StandsForIsEqual` shows that the loop of `httpd_fs_strcmp()` finds two names equal exactly if one
stands for the other in the sense of the property, and `CandidatesMatch` that so the first
match of the list is the first candidate. Of
the constants it is assumed that the names of the 404 page and of the includes open a file,
that a request has no token that
stands for the memory of another packet, and that the input buffer has room for more than
its end. Names are cut to the input buffer of 50 bytes (`PsockBufsize`); that the name then fits
`filename[20]` (`httpd.h:46`) is taken for granted, as it is in the model: `strncpy` leaves a longer one
without an end.

**All applications.** `AllGood` is the invariant of the application that runs, and each keeps its own.

**WebClient.** `WebInv` says that at most one connection is current, that is, not closed
by its server yet, and how the client's one static state stands to it (`Stands`). If it is
not open yet, the client is at the beginning of this page's request (`OpeningIs`). If it
is open (`OpenIs`), the server has acknowledged the request up to `ptr`, what is
outstanding is the chunk that `senddata()` would make again, and `Reads` says where the parser is:
of the `k` tokens of the reply that came, the header line is the part since the last end of
line, or the buffer is full, and the program was told what follows the empty line. A reply
comes only when the whole request is there (`RequestGoesOn`, from the end mark of the
request), so that a `Location:` field cannot change the name of the page while it is
still being asked for. `newdata()` is a fold over the tokens of a segment; `ParseGood`
takes it one token at a time (`ReadsTo`), and `ReplyGoesOn` joins segments. Calls for a
connection that is not current are only its end (`OldEnds`) and change nothing. The
condition `~told.mixed` is needed: two connections at once share the state, and the code does
not keep them apart. Of the constants it is assumed that a known host has the pages that
moved to it, and that no name is the end of a request.

**Enc28j60.** Between the wait for the transmitter and its start (`SendingPrepared`)
nothing is being sent and the buffer holds the driver's frame; and every register
access selects its bank (`BankSelected`), while only a restart, which ends at the
reset, forgets it.

The queue is proved from `RingInv`: the frames that wait lie one behind the other
from `next` on, or from the one that is being copied, up to the write pointer
(`Chain`), there are as many as `EPKTCNT` counts, and the read pointer is where they
begin or one cell before (`InRing`). Places are counted from where the frames begin
(`Pos`), so that the wrap-around of the ring is met in a few lemmas only. What the
controller has room for fits behind the chain (`RoomIs`), `ChainGrows` and
`ChainDrops` are an arrival and the end of a packet, and `ChainReads`, an induction
along the next packet pointers, says that who follows them finds the queue. One case
is not safe: between the two writes of `ERXRDPT` frames may come that fill the ring
up to the very cell the second one names, and the full ring then looks empty.
`NotFilled` excludes this one state, which can come about because the `RXSTOP_INIT` of the
source is even, as the addresses are at which frames begin. `FramesAreInOrder` takes it as a condition on the
whole behaviour; `FramesAreInOrderUntilFilled` has no condition and says of every step what it is:
`FilledInv` is the invariant while `filled` is false, and `FilledUntilReset` that
only the reset of the controller, which empties the ring, makes it false again. It is assumed that no frame is longer than the
ring less two cells (`EthAssumption`): `MAX_FRAMELEN` is 1500 and the ring has 6655.

The bound on `EPKTCNT` needs more than `RingInv`, which says nothing of the ring while
the driver starts again: the controller knows nothing of that and stores frames until
`SoftReset`. `FilledInv` also says what is left then: between the read pointer, or the cell after
it, and the write pointer there are two cells for each packet that is counted, but for
the one whose cells are free already (`Spacious`). While the driver runs it follows from
the chain (`ChainTakesRoom`, an induction along it), and a frame that comes keeps it
(`FrameTakesRoom`).

**UipFw.** `FwInv` says that everything anywhere is a packet with the right checksum,
and that what a node sent last is in its cache, with the time that is left to it,
until it is `FW_TIME` old; so a packet with the same key takes the path
of `FwDuplicate` and no other. A packet goes through hops, halves and error
messages in one step; each has a lemma that it makes packets of packets, and the
folds of `Output()` keep what each send keeps (`OutputIsCached`).

**UipNeighbor.** The step that adds a neighbour takes the first free or the oldest
entry, or one that ends the search because its IP address reads like the link
address (`ChosenIsOldest`). Nothing is assumed of `NeighborAsIp` but its type.

**Only model-checked.** Liveness (`TransitEnds`, `SendEnds`, `QueriesEnd`,
`VisitsGoOn`, `RequestsEnd`, `DhcpcKeepsAsking`, `HttpdDropsSilentClient`,
`LinkLoopGoesOn`, `PacketsDie`), which needs fairness and ENABLED. Every invariant
and every other action property of the passing runs is stated by a theorem.

## 5. Disagreements between code and documentation

Each of these has a run:

| Run | Code | What happens |
|---|---|---|
| `tcp_reset` | `uip.cpp:760` | the RST for a timed-out connection is built from the slot after the callback; if that opened a connection, the new peer is reset and the old one never hears |
| `tcp_window` | `psock.cpp:158` | a chunk is taken to be as long as the mss is when it is acknowledged; a window that changes in between makes `PSOCK_SEND` skip or repeat bytes |
| `resolv_drop` | `resolv.cpp:364` | the second query takes the first one's entry, although the other has never been used; the first name is dropped without a call |
| `eth_even` | `enc28j60.cpp:413` | errata point 13 forbids an even `ERXRDPT`; the end of the receive ring, which the driver writes when the next packet begins at its start, is even. Two lines earlier (407) it writes the address of the next packet itself, which is always even |

These were met while modelling; the models do as the code does, and no property
states the contrary:

* TCP: any call of the application clears `nrtx` (`uip.cpp:1767`), so that a peer
  that sends data but acknowledges nothing is never given up. `uip_close()` over
  outstanding data puts the FIN in that data's place (`uip.cpp:1728`; `MayQuit` of
  `TcpStream`). `uip_close()` and `uip_abort()` in a retransmission call are
  ignored. A passive open without an MSS option keeps the `mss` of the slot's
  previous connection. The length of an IP packet is compared with a `uip_len` that
  includes the link header (`uip.cpp:863`).
* Protosockets: data that comes while `PSOCK_SEND` waits is acknowledged and lost
  (`psock.cpp:270`).
* ARP: the age test looks at unused entries only (`uip_arp.cpp:157`); entries in use
  never age out. A default router of 0.0.0.0 matches an unused entry.
* Resolver: a late answer is stored under the name that holds the entry now
  (`resolv.cpp:278`); an answer without an address ends a query in silence, with the
  previous address left for `resolv_lookup()`; after `seqno` has wrapped around ages
  are negative and every query takes the first entry.
* telnetd: when the segment with `exit` has to be retransmitted, the close is
  forgotten; a second session at the same time shares the first one's lines.
* SMTP: a FIN of the server in the middle of the dialogue is never reported, and
  `smtp_done()` can be called again after the end.
* UDP: `uip_udp_bind()` and with it `dhcpc_init()` do not look whether the port is in use:
  after a second `dhcpc_init()` two connections have port 68, and datagrams go to the
  first.
* Web server: `uip.h:760` wants "the exact same data" for a retransmission, but the
  statistics are printed anew (`httpd-cgi.c:148`), from `nrtx` and `timer`, which the
  retransmission itself has changed: with `HttpdChanging` not empty, `RexmitIsSame` is
  false for the web server, and `PageIsSentAgain` is what is left of it.
  The names of files are compared as far as the stored one goes, so that a
  longer name opens it (`httpd-fs.c:58`); the include of a missing file and a piece of length zero wait
  until the poll limit; a name of 20 characters or more is left without its end
  (`httpd.c:269`).
* Web client: a request that begins before the connection of the one before is closed shares
  the static state with it, and either may be continued with the other's bytes
  (`webclient.c:193`; `told.mixed` marks these behaviours, and `DataIsRight` is about the others);
  the end of a connection is reported twice, an unknown host in a
  redirect not at all; a `Location:` field changes the page's name whatever the
  status is; a header line of over 200 characters stops the parser; and
  a timer compared with `==` misses its limit once two connections share it.
* Forwarding: the halves `uip_split_output()` makes have one IP id, so that a
  forwarding node that runs this code drops the second as a duplicate
  (`uip-fw.c:430`).
* Neighbours: the search compares the link address, and not the IP address, with the
  IP addresses of the table (`uip-neighbor.c:102`). If it reads like one of them, that entry
  is replaced, which need be neither "the first unused entry" nor "the oldest used
  entry" of the comment (line 94); `OldestOrLookalikeGoes` allows just this. And a neighbour that is added again gets a second entry,
  while lookup finds the first.
* Driver: the ring that is filled between the two writes of `ERXRDPT` (section 2).

## 6. What is not modelled

* Compiled out: fragment reassembly, IPv6, `uip_arp_ipin()`.
* No caller: `PSOCK_READBUF`, `timer_restart()`, `timer_remaining()`,
  `dhcpc_request()`.
* No state: `uiplib.c` and the text the applications format; the lengths and checksums
  of `IpInput`, of which only the outcome matters.
* The RTT estimator: `UipTcp` takes any timeout of `RtoRange` in its place, so that
  its properties do not depend on it. In 8-bit arithmetic a measured time far above
  `rto` makes `sa` wrap around.
* Hardware: the clock output and the contents of PHY registers, the tap device of
  the Unix port. Protothreads (`pt.h`, `lc*.h`) are a way to write a state machine;
  each is modelled as the state machine of the code that uses it.
* Generated or data: `httpd-fsdata.c`, the string tables of the applications.
* The example sketches, for which "any application" stands.

## 7. Plan

1. `Rtt`: the estimator in 8-bit arithmetic against the reference definition.
2. A second session for telnetd, and two connections of the web server, which
   share its file system.
