-------------------------------- MODULE Node --------------------------------
(***************************************************************************)
(* The main loop, NanodeUIP::poll(), with the timers and the table of UDP  *)
(* connections.                                                            *)
(*                                                                         *)
(* One call of poll() handles one waiting frame.  Only if none waits does  *)
(* it look at the periodic timer, and if that has expired it visits every  *)
(* TCP connection, every UDP connection and the ARP timer; pos is where    *)
(* this walk is, 0 outside of it.  Time goes on and frames arrive at any   *)
(* moment.  Each visit, and each frame, is one call of uip_process(),      *)
(* which may call the application.  poll() sends what is in uip_buf when   *)
(* uip_len is not 0, and uip_process() puts into it the data that uip_slen *)
(* counts: two globals that each path has to set.                          *)
(*                                                                         *)
(* Abstractions.  A length is 0 or not, with where it comes from.  Which   *)
(* path a TCP connection takes is the subject of UipTcp: here any that     *)
(* uip_process() has for its event.  What a frame says is decided when it  *)
(* is read.  uip_arp_out() (UipArp) sends the packet or a query in its     *)
(* place.  A peer is an address with a port.                               *)
(***************************************************************************)
EXTENDS Timer

CONSTANTS
    PERIODIC,        \* the interval of periodic_timer
    ARP_PERIOD,      \* the interval of arp_timer
    UIP_CONNS,       \* TCP connections
    UIP_UDP_CONNS,   \* UDP connections
    DhcpPort,        \* the port the DHCP client binds: 68
    StartPort,       \* lastport at the start: 1024
    FirstPort,       \* where lastport goes on after LastPort: 4096
    LastPort,        \* the highest port ever used: 31999
    Peers,           \* remote ends of UDP connections
    MaxLag           \* bound: how far poll() may fall behind a timer

ASSUME NodeAssumption ==
    /\ PERIODIC \in Nat \ {0}
    /\ ARP_PERIOD \in Nat \ {0}
    /\ UIP_CONNS \in Nat \ {0}
    /\ UIP_UDP_CONNS \in Nat \ {0}
    /\ DhcpPort \in Nat \ {0}
    /\ StartPort \in Nat
    /\ FirstPort \in Nat
    /\ LastPort \in Nat
    /\ DhcpPort < StartPort
    /\ StartPort <= FirstPort
    /\ FirstPort + UIP_UDP_CONNS <= LastPort
    /\ MaxLag \in Nat
    /\ MaxLag >= PERIODIC
    /\ MaxLag >= ARP_PERIOD
    /\ MaxLag + 1 < ClockMod

VARIABLES
    clock,       \* clock_time()
    timers,      \* periodic_timer and arp_timer
    lag,         \* history: the time since each of them was last due or set
    waiting,     \* the controller holds a frame
    pos,         \* the visit poll() makes next, 0 when it makes none
    uip_len,     \* the length of the packet in uip_buf
    uip_slen,    \* the length of the application's data
    out,         \* history: what the step sends
    udp,         \* uip_udp_conns[]
    lastport,
    configured   \* uip_hostaddr is not 0.0.0.0

vars == <<clock, timers, lag, waiting, pos, uip_len, uip_slen, out, udp, lastport, configured>>

TcpSlots == 1 .. UIP_CONNS
UdpSlots == 1 .. UIP_UDP_CONNS
FirstUdp == UIP_CONNS + 1
ArpVisit == UIP_CONNS + UIP_UDP_CONNS + 1
Visits == 1 .. ArpVisit

Ports == {DhcpPort} \cup StartPort .. LastPort
NoPort == 0
AnyPeer == "any peer"

\* A UDP connection; unused when lport is NoPort.  bound is history: its port is
\* the program's choice (uip_udp_bind()), not that of uip_udp_new().
UdpConn == [lport : Ports \cup {NoPort}, peer : Peers \cup {AnyPeer}, bound : BOOLEAN]
Unused == [lport |-> NoPort, peer |-> AnyPeer, bound |-> FALSE]
DhcpConn == [lport |-> DhcpPort, peer |-> AnyPeer, bound |-> TRUE]

\* A length: "none" is 0; "left" was set in an earlier call of uip_process();
\* "built" and "queued" in this one, by the stack and by uip_send().
Lengths == {"none", "left"}
Packet == [packet : {"built", "left"}, data : {"none", "queued", "left"}]
NoPacket == [packet |-> "none", data |-> "none"]

-----------------------------------------------------------------------------
(* UDP connections                                                         *)

\* lastport after k steps of the search.
PortAfter(p, k) ==
    IF p + k <= LastPort THEN p + k ELSE FirstPort + (p + k - LastPort - 1)

\* Mutant: only the first connection's port is looked at.
PortUsedByFirst(t, p) == t[1].lport = p

PortUsed(t, p) == \E i \in UdpSlots : t[i].lport = p

\* The search of uip_udp_new() ends at port p.
NewPort(t, p) ==
    \E k \in 1 .. UIP_UDP_CONNS + 1 :
        /\ p = PortAfter(lastport, k)
        /\ ~PortUsed(t, p)
        /\ \A j \in 1 .. k - 1 : PortUsed(t, PortAfter(lastport, j))

\* The slot it takes; with none free lastport has moved all the same.
FirstFree(t, i) ==
    /\ t[i].lport = NoPort
    /\ \A j \in 1 .. i - 1 : t[j].lport # NoPort

\* uip_udp_new() finds port p; c is what the caller makes of the connection.
Opened(t, p, c) ==
    /\ NewPort(t, p)
    /\ lastport' = p
    /\ \/ /\ \A i \in UdpSlots : t[i].lport # NoPort
          /\ udp' = t
       \/ \E i \in UdpSlots :
             /\ FirstFree(t, i)
             /\ udp' = [t EXCEPT ![i] = c]

UdpNew(t, peer) ==
    \E p \in Ports : Opened(t, p, [lport |-> p, peer |-> peer, bound |-> FALSE])

\* dhcpc_init(): a new connection that is then bound to DhcpPort, whoever has it.
DhcpInit(t) == \E p \in Ports : Opened(t, p, DhcpConn)

\* Nothing reads what else is left in a connection without a port.
UdpRemove(t, i) == [t EXCEPT ![i] = Unused]
UdpBind(t, i, port) == [t EXCEPT ![i] = [@ EXCEPT !.lport = port, !.bound = TRUE]]

\* What the program may do with the table t: nothing, open a connection, bind
\* one to any port, close one, resolv_conf() (close one and open another), or
\* uip_connect(), which shares lastport and skips ports that UipTcp knows of.
Uses(t) ==
    \/ udp' = t /\ UNCHANGED lastport
    \/ \E peer \in Peers : UdpNew(t, peer)
    \/ DhcpInit(t)
    \/ \E i \in UdpSlots, port \in Ports :
          /\ t[i].lport # NoPort
          /\ udp' = UdpBind(t, i, port)
          /\ UNCHANGED lastport
    \/ \E i \in UdpSlots : udp' = UdpRemove(t, i) /\ UNCHANGED lastport
    \/ \E i \in UdpSlots, peer \in Peers : UdpNew(UdpRemove(t, i), peer)
    \/ udp' = t /\ lastport' \in StartPort .. LastPort

\* The callback of a connection; that of the DHCP client may configure the host.
AppCall == Uses(udp) /\ UNCHANGED configured
UdpAppCall(i) ==
    /\ Uses(udp)
    /\ configured' \in IF udp[i].lport = DhcpPort THEN {configured, TRUE} ELSE {configured}

-----------------------------------------------------------------------------
(* Packets                                                                 *)

\* The packet or data that a length counts is an earlier one in the next call.
Kept(length) == IF length = "none" THEN "none" ELSE "left"

\* uip_process() returns with these lengths, the packet with this data in it;
\* poll() sends it unless uip_len is 0.
Return(len, slen, data) ==
    /\ uip_len' = Kept(len)
    /\ uip_slen' = Kept(slen)
    /\ out' = IF len = "none" THEN NoPacket ELSE [packet |-> len, data |-> data]

\* The ends of uip_process(), with uip_slen as it is there: the label drop, a
\* packet of headers (tcp_send_nodata and the replies made of the packet
\* received), and one with the data that uip_slen counts.
Drop(slen) == Return("none", slen, "none")
SendHeader(slen) == Return("built", slen, "none")
SendData(slen) == Return("built", slen, slen)

\* uip_slen after a callback that began with slen: uip_send() may set it.
Callback(slen) == {slen, "queued"}

\* The label appsend: uip_abort() and uip_close() take the data back.
AppSend(slen) ==
    \/ SendHeader("none")
    \/ slen # "none" /\ SendData(slen)
    \/ slen = "none" /\ (SendHeader(slen) \/ Drop(slen))

\* A segment.  The stack answers by itself; or it tells the application of an
\* end (RST, FIN, a refused open), where uip_slen stays as it was and no data
\* is sent; or it asks the application for data.
TcpInput ==
    \/ /\ Drop(uip_slen) \/ SendHeader(uip_slen)
       /\ UNCHANGED <<udp, lastport, configured>>
    \/ /\ AppCall
       /\ \E slen \in Callback(uip_slen) : Drop(slen) \/ SendHeader(slen)
    \/ /\ AppCall
       /\ \E slen \in Callback("none") : AppSend(slen)

\* The periodic call for a TCP connection: it clears both lengths first, then
\* waits, resends what needs no data, gives the connection up (a RST after the
\* callback), or asks the application for data.
TcpTimer ==
    \/ /\ Drop("none") \/ SendHeader("none")
       /\ UNCHANGED <<udp, lastport, configured>>
    \/ /\ AppCall
       /\ \E slen \in Callback("none") : SendHeader(slen) \/ AppSend(slen)

\* Mutant: what an earlier callback queued is still counted.
UdpCallKeepsLength(i) ==
    /\ UdpAppCall(i)
    /\ \E slen \in Callback(uip_slen) :
          IF slen = "none" THEN Drop(slen) ELSE SendData(slen)

\* udp_found and the periodic call: uip_slen is cleared, the application is
\* called, and a datagram is sent if it has queued one.
UdpCall(i) ==
    /\ UdpAppCall(i)
    /\ \E slen \in Callback("none") :
          IF slen = "none" THEN Drop(slen) ELSE SendData(slen)

\* The part of a frame that decides which way it goes.
Frame ==
    [type : {"ip"},
     shape : BOOLEAN,                     \* version, length and fragment are right
     sum : BOOLEAN,                       \* the header checksum is right
     dest : {"us", "others"},             \* broadcasts too: UIP_BROADCAST is 0
     proto : {"tcp", "udp", "icmp", "other"}]
    \cup [type : {"arp", "other"}]

\* The order of the checks: an unconfigured host takes any address.
IpInput(f) ==
    IF ~f.shape THEN "drop"
    ELSE IF configured /\ f.dest # "us" THEN "drop"
    ELSE IF ~f.sum THEN "drop"
    ELSE IF f.proto = "other" THEN "drop"
    ELSE f.proto

\* Datagram (port, peer) reaches the first connection i that takes it.
Accepts(i, port, peer) ==
    /\ udp[i].lport = port
    /\ udp[i].peer \in {AnyPeer, peer}
UdpFound(i, port, peer) ==
    /\ Accepts(i, port, peer)
    /\ \A j \in 1 .. i - 1 : ~Accepts(j, port, peer)

FrameIp(f) ==
    /\ f.type = "ip"
    /\ \/ /\ IpInput(f) = "drop"
          /\ Drop(uip_slen)
          /\ UNCHANGED <<udp, lastport, configured>>
       \/ /\ IpInput(f) = "icmp"          \* only an echo is answered
          /\ Drop(uip_slen) \/ SendHeader(uip_slen)
          /\ UNCHANGED <<udp, lastport, configured>>
       \/ /\ IpInput(f) = "tcp"
          /\ TcpInput
       \/ /\ IpInput(f) = "udp"
          /\ \E port \in Ports, peer \in Peers :
                \/ \E i \in UdpSlots : UdpFound(i, port, peer) /\ UdpCall(i)
                \/ /\ \A i \in UdpSlots : ~Accepts(i, port, peer)
                   /\ Drop(uip_slen)
                   /\ UNCHANGED <<udp, lastport, configured>>

\* uip_arp_arpin(): a query for our address is answered.
FrameArp(f) ==
    /\ f.type = "arp"
    /\ Drop(uip_slen) \/ SendHeader(uip_slen)
    /\ UNCHANGED <<udp, lastport, configured>>

\* Any other frame stays in the buffer, with its length, until the next poll.
FrameOther(f) ==
    /\ f.type = "other"
    /\ uip_len' = "left"
    /\ out' = NoPacket
    /\ UNCHANGED <<uip_slen, udp, lastport, configured>>

-----------------------------------------------------------------------------
(* The main loop                                                           *)

PollFrame ==
    /\ pos = 0
    /\ waiting
    /\ waiting' = FALSE
    /\ \E f \in Frame : FrameIp(f) \/ FrameArp(f) \/ FrameOther(f)
    /\ UNCHANGED <<clock, timers, lag, pos>>

PollNothing ==
    /\ pos = 0
    /\ ~waiting
    /\ ~TimerExpired(timers.periodic, clock)
    /\ uip_len' = "none"
    /\ out' = NoPacket
    /\ UNCHANGED <<clock, timers, lag, waiting, pos, uip_slen, udp, lastport, configured>>

\* timer_reset() of timer t.
ResetTimer(t) ==
    /\ timers' = [timers EXCEPT ![t] = TimerReset(@, clock)]
    /\ lag' = [lag EXCEPT ![t] = @ - timers[t].interval]

PollTimer ==
    /\ pos = 0
    /\ ~waiting
    /\ TimerExpired(timers.periodic, clock)
    /\ ResetTimer("periodic")
    /\ pos' = 1
    /\ uip_len' = "none"
    /\ out' = NoPacket
    /\ UNCHANGED <<clock, waiting, uip_slen, udp, lastport, configured>>

VisitTcp ==
    /\ pos \in TcpSlots
    /\ TcpTimer
    /\ pos' = pos + 1
    /\ UNCHANGED <<timers, lag>>

VisitUdp ==
    /\ pos \in FirstUdp .. ArpVisit - 1
    /\ LET i == pos - UIP_CONNS
       IN  \/ /\ udp[i].lport = NoPort
              /\ Drop(uip_slen)
              /\ UNCHANGED <<udp, lastport, configured>>
           \/ udp[i].lport # NoPort /\ UdpCall(i)
    /\ pos' = pos + 1
    /\ UNCHANGED <<timers, lag>>

VisitArp ==
    /\ pos = ArpVisit
    /\ IF TimerExpired(timers.arp, clock) THEN ResetTimer("arp")
       ELSE UNCHANGED <<timers, lag>>
    /\ pos' = 0
    /\ out' = NoPacket
    /\ UNCHANGED <<uip_len, uip_slen, udp, lastport, configured>>

Visit ==
    /\ VisitTcp \/ VisitUdp \/ VisitArp
    /\ UNCHANGED <<clock, waiting>>

\* The sketch, between two calls of poll().
Sketch ==
    /\ pos = 0
    /\ Uses(udp)
    /\ configured' \in {configured, TRUE}
    /\ out' = NoPacket
    /\ UNCHANGED <<clock, timers, lag, waiting, pos, uip_len, uip_slen>>

-----------------------------------------------------------------------------
(* The world                                                               *)

Elapse ==
    /\ \A t \in DOMAIN timers : lag[t] < MaxLag
    /\ clock' = Plus(clock, 1)
    /\ lag' = [t \in DOMAIN lag |-> lag[t] + 1]
    /\ out' = NoPacket
    /\ UNCHANGED <<timers, waiting, pos, uip_len, uip_slen, udp, lastport, configured>>

Arrive ==
    /\ ~waiting
    /\ waiting' = TRUE
    /\ out' = NoPacket
    /\ UNCHANGED <<clock, timers, lag, pos, uip_len, uip_slen, udp, lastport, configured>>

-----------------------------------------------------------------------------
(* NanodeUIP::init(), and what the sketches and the Unix program do after  *)
(* it: an address of their own, or DHCP on the first UDP connection.       *)

InitConfigured ==
    /\ configured = TRUE
    /\ udp = [i \in UdpSlots |-> Unused]
    /\ lastport = StartPort

InitDhcp ==
    /\ configured = FALSE
    /\ udp = [i \in UdpSlots |-> IF i = 1 THEN DhcpConn ELSE Unused]
    /\ lastport = StartPort + 1

Init ==
    /\ clock \in Moments
    /\ timers = [periodic |-> TimerSet(PERIODIC, clock), arp |-> TimerSet(ARP_PERIOD, clock)]
    /\ lag = [periodic |-> 0, arp |-> 0]
    /\ waiting = FALSE
    /\ pos = 0
    /\ uip_len = "none"
    /\ uip_slen = "none"
    /\ out = NoPacket
    /\ InitConfigured \/ InitDhcp

Next == PollFrame \/ PollNothing \/ PollTimer \/ Visit \/ Sketch \/ Elapse \/ Arrive

Spec == Init /\ [][Next]_vars

\* The sketch calls poll() again and again and time goes on.  That poll()
\* finds no frame again and again is an assumption about the network, for
\* which the code does nothing: it is the strong fairness of PollTimer.
FairSpec ==
    /\ Spec
    /\ WF_vars(PollFrame)
    /\ WF_vars(Visit)
    /\ WF_vars(Elapse)
    /\ SF_vars(PollTimer)

-----------------------------------------------------------------------------
(* Correctness                                                             *)

TypeOK ==
    /\ clock \in Moments
    /\ timers \in [{"periodic", "arp"} -> Timers]
    /\ lag \in [{"periodic", "arp"} -> 0 .. MaxLag]
    /\ waiting \in BOOLEAN
    /\ pos \in 0 .. ArpVisit
    /\ uip_len \in Lengths
    /\ uip_slen \in Lengths
    /\ out \in Packet \cup {NoPacket}
    /\ udp \in [UdpSlots -> UdpConn]
    /\ lastport \in StartPort .. LastPort
    /\ configured \in BOOLEAN

\* timer_expired() tells the truth while the clock wraps around, however many
\* intervals late poll() is, and timer_reset() keeps the timer "stable over
\* time": a timer is due if and only if its interval has passed since it was
\* last due.
TimersKeepTime ==
    \A t \in DOMAIN timers : TimerExpired(timers[t], clock) <=> lag[t] >= timers[t].interval

\* uip_udp_new() never gives a connection a port that another one has, whatever
\* callbacks open, bind and close while lastport wraps around: two connections
\* share a local port only if the program bound one of them to it, as
\* dhcpc_init() does when it is called again.
UdpPortsDistinct ==
    \A i, j \in UdpSlots :
        i # j /\ udp[i].lport = udp[j].lport /\ udp[i].lport # NoPort
            => udp[i].bound \/ udp[j].bound

\* What poll() sends was built in this call of uip_process(), of data queued in
\* this call: not the frame received, nor a packet or data that an earlier call
\* left behind, as the callbacks of a reset or a FIN leave uip_slen set.
SentIsOwn ==
    [][out' # NoPacket => out'.packet = "built" /\ out'.data # "left"]_vars

\* Every connection and the ARP timer are visited again and again.
VisitsGoOn == \A v \in Visits : []<>(pos = v)

=============================================================================
