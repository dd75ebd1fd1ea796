-------------------------------- MODULE Dhcpc --------------------------------
(***************************************************************************)
(* The DHCP client, dhcpc.cpp: a protothread on one UDP connection.        *)
(*                                                                         *)
(* handle_dhcp() runs once per UDP timer tick and once per datagram, and   *)
(* goes on when the timer has expired or a datagram is there, whatever it  *)
(* says.  Every reply to this host (the transaction id never changes)      *)
(* overwrites the address and the server before its type is looked at.     *)
(*                                                                         *)
(* Abstractions.  The timer is the time left, in seconds (Node has the     *)
(* timers).  The other options of a reply follow the address.  Servers are *)
(* external: one may answer any message ever sent to it, at any time, any  *)
(* number of times or never.                                               *)
(***************************************************************************)
EXTENDS Integers

CONSTANTS
    DhcpServers,     \* the servers of the network
    DhcpOffers,      \* what a server has to offer: [DhcpServers -> SUBSET addresses]
    DISCOVER_LIMIT,  \* seconds: the wait doubles while below (20)
    REQUEST_LIMIT    \* seconds: the wait grows while not above (10)

ASSUME DhcpcAssumption ==
    /\ DISCOVER_LIMIT \in Nat \ {0}
    /\ REQUEST_LIMIT \in Nat \ {0}
    /\ DOMAIN DhcpOffers = DhcpServers

VARIABLES
    dhcp,      \* dhcpc_state, with the place the protothread waits at
    hostaddr,  \* uip_hostaddr, as dhcpc_configured() sets it
    messages,  \* sent so far, which servers may answer any time
    granted,   \* history: what servers have acknowledged
    asking     \* what the last call sent

dhcpVars == <<dhcp, hostaddr, messages, granted, asking>>

NoAddr == "0.0.0.0"
NoServer == "no server"
Addrs == UNION {DhcpOffers[s] : s \in DhcpServers}
MaxTicks == 2 * DISCOVER_LIMIT + REQUEST_LIMIT

DhcpState ==
    [at : {"start", "discover", "request", "bound"},
     ticks : 1 .. MaxTicks, left : 0 .. MaxTicks,
     ipaddr : Addrs \cup {NoAddr}, serverid : DhcpServers \cup {NoServer}]

Lease == [server : DhcpServers \cup {NoServer}, addr : Addrs \cup {NoAddr}]
Silence == [type |-> "nothing"]
Discover == [type |-> "DISCOVER"]
RequestOf(s) == [type |-> "REQUEST", lease |-> [server |-> s.serverid, addr |-> s.ipaddr]]
Messages == {Discover} \cup [type : {"REQUEST"}, lease : Lease]

\* A reply; junk is a datagram for somebody else, or not a reply at all.
Reply ==
    [type : {"OFFER", "ACK", "NAK"}, lease : Lease]
NotAReply == [type |-> "junk"]

-----------------------------------------------------------------------------
(* The protothread                                                         *)

\* send_discover() or send_request(), and the timer.
Waits(s, at, ticks) == [s EXCEPT !.at = at, !.ticks = ticks, !.left = ticks]
Asks(s, m) ==
    /\ dhcp' = s
    /\ asking' = m
    /\ messages' = messages \cup {m}
    /\ UNCHANGED hostaddr

Yields(s) ==
    /\ dhcp' = s
    /\ asking' = Silence
    /\ UNCHANGED <<messages, hostaddr>>

\* Mutant: the address is taken from offers only.
ParsedOfferOnly(s, m) ==
    IF m.type # "OFFER" THEN s
    ELSE [s EXCEPT !.ipaddr = m.lease.addr, !.serverid = m.lease.server]

\* parse_msg()
Parsed(s, m) ==
    IF m \in Reply THEN [s EXCEPT !.ipaddr = m.lease.addr, !.serverid = m.lease.server]
    ELSE s

\* Mutant: the timer is not looked at.
WakesByMessage(s, m) == m # Silence

\* The condition of both PT_WAIT_UNTILs; no message is a timer tick.
Wakes(s, m) == m # Silence \/ s.left = 0

\* The wait before the next question, if there is one.
NextDiscover(s) == IF s.ticks < DISCOVER_LIMIT THEN 2 * s.ticks ELSE s.ticks

\* Mutant: the wait does not grow.
NextRequestSame(s) == s.ticks

NextRequest(s) == s.ticks + 1

Starts(s) == s.at = "start" /\ Asks(Waits(s, "discover", 1), Discover)

InDiscover(s, m) ==
    /\ s.at = "discover"
    /\ IF m.type = "OFFER"
       THEN Asks(Waits(Parsed(s, m), "request", 1), RequestOf(Parsed(s, m)))
       ELSE Asks(Waits(Parsed(s, m), "discover", NextDiscover(s)), Discover)

InRequest(s, m) ==
    /\ s.at = "request"
    /\ LET p == Parsed(s, m)
       IN  \/ /\ m.type # "ACK"
              /\ s.ticks <= REQUEST_LIMIT
              /\ Asks(Waits(p, "request", NextRequest(s)), RequestOf(p))
           \/ /\ m.type # "ACK"
              /\ s.ticks > REQUEST_LIMIT
              /\ Yields([p EXCEPT !.at = "start"])
           \/ /\ m.type = "ACK"
              /\ dhcp' = [p EXCEPT !.at = "bound"]
              /\ hostaddr' = p.ipaddr
              /\ asking' = Silence
              /\ UNCHANGED messages

\* The protothread yields for ever.
Bound(s) == s.at = "bound" /\ Yields(s)

HandleDhcp(m) ==
    \/ Starts(dhcp)
    \/ Bound(dhcp)
    \/ Wakes(dhcp, m) /\ (InDiscover(dhcp, m) \/ InRequest(dhcp, m))
    \/ dhcp.at \in {"discover", "request"} /\ ~Wakes(dhcp, m) /\ Yields(dhcp)

-----------------------------------------------------------------------------
(* The world                                                               *)

\* What server may say to message q.
Answers(server, q) ==
    IF q = Discover
    THEN {[type |-> "OFFER", lease |-> [server |-> server, addr |-> a]] : a \in DhcpOffers[server]}
    ELSE IF q.lease.server # server THEN {}
    ELSE {[type |-> "NAK", lease |-> [server |-> server, addr |-> NoAddr]]}
         \cup {[type |-> "ACK", lease |-> q.lease] : a \in DhcpOffers[server] \cap {q.lease.addr}}

DhcpPoll == HandleDhcp(Silence) /\ UNCHANGED granted

DhcpNewdata ==
    \/ /\ HandleDhcp(NotAReply)
       /\ UNCHANGED granted
    \/ \E server \in DhcpServers, q \in messages :
          \E m \in Answers(server, q) :
              /\ HandleDhcp(m)
              /\ granted' = IF m.type = "ACK" THEN granted \cup {m.lease} ELSE granted

DhcpElapse ==
    /\ dhcp.left > 0
    /\ dhcp' = [dhcp EXCEPT !.left = @ - 1]
    /\ asking' = Silence
    /\ UNCHANGED <<hostaddr, messages, granted>>

\* dhcpc_init(), after the constructor and uip_init().
DhcpcInit ==
    /\ dhcp = [at |-> "start", ticks |-> 1, left |-> 0, ipaddr |-> NoAddr, serverid |-> NoServer]
    /\ hostaddr = NoAddr
    /\ messages = {}
    /\ granted = {}
    /\ asking = Silence

DhcpcNext == DhcpPoll \/ DhcpNewdata \/ DhcpElapse

DhcpcSpec == DhcpcInit /\ [][DhcpcNext]_dhcpVars

-----------------------------------------------------------------------------
(* Correctness                                                             *)

DhcpcTypeOK ==
    /\ dhcp \in DhcpState
    /\ hostaddr \in Addrs \cup {NoAddr}
    /\ messages \subseteq Messages
    /\ granted \subseteq Lease
    /\ asking \in Messages \cup {Silence}

\* The address the host is configured with is one that its server has
\* acknowledged, although offers, refusals and late answers of other servers
\* overwrite address and server while the client waits.
ConfiguredIsGranted ==
    hostaddr # NoAddr =>
        [server |-> dhcp.serverid, addr |-> hostaddr] \in granted

\* A refused or unanswered request does not hold the client: it is configured,
\* or it begins again.
RequestsEnd == dhcp.at = "request" ~> dhcp.at \in {"start", "bound"}

\* The client asks again and again until it is configured.
KeepsAsking == []<>(dhcp.at = "bound" \/ asking # Silence)

=============================================================================
