------------------------------ MODULE UipArp ------------------------------
(***************************************************************************)
(* The ARP cache of uip_arp.cpp: what ARP packets and the ARP timer do to  *)
(* arp_table[], and what uip_arp_out() makes of an outgoing IP packet.     *)
(*                                                                         *)
(* Addresses are model values; a packet is what the code compares of it.   *)
(* learned and wrapped are history: the hardware address each host gave    *)
(* last, and whether the 8-bit clock arptime has wrapped around.           *)
(***************************************************************************)
EXTENDS Integers

CONSTANTS
    UIP_ARPTAB_SIZE,  \* entries of the table
    UIP_ARP_MAXAGE,   \* "the maximum age of ARP table entries"
    TimeMod,          \* the clock counts modulo this (256 in the code)
    Hosts,            \* addresses on the local network
    Remote,           \* an address elsewhere
    BroadcastIp,      \* the broadcast address
    Router,           \* uip_draddr, the default router
    Macs,             \* hardware addresses
    AllZeroes,        \* the IP address 0.0.0.0, which marks an unused entry
    ZeroMac, BroadcastMac

ASSUME ArpAssumption ==
    /\ UIP_ARPTAB_SIZE \in Nat \ {0}
    /\ UIP_ARP_MAXAGE \in Nat \ {0}
    /\ TimeMod \in Nat \ {0}
    /\ AllZeroes \notin Hosts \cup {Remote, BroadcastIp}
    /\ Router \in Hosts

VARIABLES
    arp_table,  \* entries: IP address, hardware address, time of the last update
    arptime,    \* ticks of the ARP timer
    out,        \* what uip_arp_out() or uip_arp_arpin() left for the device
    learned,    \* history
    wrapped     \* history

vars == <<arp_table, arptime, out, learned, wrapped>>

Entries == 1 .. UIP_ARPTAB_SIZE
Entry == [ipaddr : Hosts \cup {AllZeroes}, ethaddr : Macs \cup {ZeroMac},
          time : 0 .. TimeMod - 1]

Used(e) == e.ipaddr # AllZeroes
Nothing == [kind |-> "none"]

-----------------------------------------------------------------------------
Init ==
    /\ arp_table = [i \in Entries |-> [ipaddr |-> AllZeroes, ethaddr |-> ZeroMac, time |-> 0]]
    /\ arptime = 0
    /\ out = Nothing
    /\ learned = [h \in Hosts |-> ZeroMac]
    /\ wrapped = FALSE

Holds(i, ip) == Used(arp_table[i]) /\ arp_table[i].ipaddr = ip

\* The differences are taken as integers: they are negative for the entries
\* updated before the clock wrapped.
Age(i) == arptime - arp_table[i].time

\* Mutant: the entry heard of last is thrown away.
GivesWayYoungest(i) ==
    /\ \A j \in Entries : Age(i) <= Age(j)
    /\ \A j \in Entries : Age(j) = Age(i) => i <= j

\* The first entry of the greatest positive age or, when there is none, the
\* first of all.
GivesWay(i) ==
    IF \E j \in Entries : Age(j) > 0
    THEN /\ \A j \in Entries : Age(j) <= Age(i)
         /\ \A j \in Entries : Age(j) = Age(i) => i <= j
    ELSE \A j \in Entries : i <= j

\* Mutant: only the first entry is looked at for an update.
SlotForFirst(i, ip) ==
    \/ Holds(i, ip) /\ \A j \in Entries : i <= j
    \/ /\ ~\E j \in Entries : Holds(j, ip) /\ \A k \in Entries : j <= k
       /\ IF \E j \in Entries : ~Used(arp_table[j])
          THEN ~Used(arp_table[i]) /\ \A j \in Entries : ~Used(arp_table[j]) => i <= j
          ELSE GivesWay(i)

\* Where uip_arp_update() stores an address: in the entry that holds it, in
\* the first unused one, or in the one that gives way.
SlotFor(i, ip) ==
    \/ Holds(i, ip) /\ \A j \in Entries : Holds(j, ip) => i <= j
    \/ /\ \A j \in Entries : ~Holds(j, ip)
       /\ IF \E j \in Entries : ~Used(arp_table[j])
          THEN ~Used(arp_table[i]) /\ \A j \in Entries : ~Used(arp_table[j]) => i <= j
          ELSE GivesWay(i)

\* Mutant: a known address keeps its hardware address.
UpdateTimeOnly(ip, mac) ==
    \E i \in Entries :
        /\ SlotFor(i, ip)
        /\ arp_table' = [arp_table EXCEPT ![i] =
               IF Holds(i, ip) THEN [@ EXCEPT !.time = arptime]
               ELSE [ipaddr |-> ip, ethaddr |-> mac, time |-> arptime]]
        /\ learned' = IF ip \in Hosts THEN [learned EXCEPT ![ip] = mac] ELSE learned

\* uip_arp_update().  A sender that has no address yet gives 0.0.0.0: the
\* entry it gets counts as unused.
Update(ip, mac) ==
    \E i \in Entries :
        /\ SlotFor(i, ip)
        /\ arp_table' = [arp_table EXCEPT ![i] =
                            [ipaddr |-> ip, ethaddr |-> mac, time |-> arptime]]
        /\ learned' = IF ip \in Hosts THEN [learned EXCEPT ![ip] = mac] ELSE learned

\* uip_arp_arpin(): a request for our address is answered, a reply for us is
\* noted, and anything else is ignored.
Request(ip, mac) ==
    /\ Update(ip, mac)
    /\ out' = [kind |-> "reply", mac |-> mac, hop |-> ip]
    /\ UNCHANGED <<arptime, wrapped>>

Reply(ip, mac) ==
    /\ Update(ip, mac)
    /\ out' = Nothing
    /\ UNCHANGED <<arptime, wrapped>>

\* uip_arp_timer(): only unused entries are tested for their age, and emptied.
Expired(i, now) == ~Used(arp_table[i]) /\ now - arp_table[i].time >= UIP_ARP_MAXAGE

\* Mutant: a clock wider than its byte.
TimerUnbounded ==
    /\ arptime' = arptime + 1
    /\ out' = Nothing
    /\ UNCHANGED <<arp_table, learned, wrapped>>

Timer ==
    /\ arptime' = (arptime + 1) % TimeMod
    /\ arp_table' = [i \in Entries |-> IF Expired(i, arptime')
                                       THEN [arp_table[i] EXCEPT !.ipaddr = AllZeroes]
                                       ELSE arp_table[i]]
    /\ wrapped' = (wrapped \/ arptime' < arptime)
    /\ out' = Nothing
    /\ UNCHANGED learned

\* The address whose hardware address an IP packet for dest needs.
NextHop(dest) == IF dest \in Hosts THEN dest ELSE Router

Matches(i, ip) == arp_table[i].ipaddr = ip

\* uip_arp_out(): the frame for the next hop, or an ARP request in its place.
ArpOut(dest) ==
    LET hop == NextHop(dest)
    IN  /\ \/ /\ dest = BroadcastIp
              /\ out' = [kind |-> "ip", mac |-> BroadcastMac, hop |-> dest]
           \/ /\ dest # BroadcastIp
              /\ \E i \in Entries :
                    /\ Matches(i, hop)
                    /\ \A j \in Entries : Matches(j, hop) => i <= j
                    /\ out' = [kind |-> "ip", mac |-> arp_table[i].ethaddr, hop |-> hop]
           \/ /\ dest # BroadcastIp
              /\ \A i \in Entries : ~Matches(i, hop)
              /\ out' = [kind |-> "request", mac |-> BroadcastMac, hop |-> hop]
        /\ UNCHANGED <<arp_table, arptime, learned, wrapped>>

Next ==
    \/ \E ip \in Hosts \cup {AllZeroes}, mac \in Macs : Request(ip, mac) \/ Reply(ip, mac)
    \/ Timer
    \/ \E dest \in Hosts \cup {Remote, BroadcastIp} : ArpOut(dest)

Spec == Init /\ [][Next]_vars

-----------------------------------------------------------------------------
(* Correctness                                                             *)

TypeOK ==
    /\ arp_table \in [Entries -> Entry]
    /\ arptime \in 0 .. TimeMod - 1
    /\ learned \in [Hosts -> Macs \cup {ZeroMac}]
    /\ wrapped \in BOOLEAN

\* An address has one entry at most, so that an update reaches the entry that
\* uip_arp_out() will find.
OneEntryPerHost ==
    \A i, j \in Entries :
        Used(arp_table[i]) /\ arp_table[i].ipaddr = arp_table[j].ipaddr => i = j

\* A frame goes to the hardware address its next hop gave last, however often
\* hosts changed theirs and entries gave way to others.
FramesReachNextHop ==
    out.kind = "ip" => \/ out.mac = BroadcastMac /\ out.hop = BroadcastIp
                       \/ out.hop \in Hosts /\ out.mac = learned[out.hop]

\* "If no unused entry is found, we try to find the oldest entry and throw it
\* away" (uip_arp.cpp): an address is forgotten only from a full table, and
\* only one updated before or with all others; until the clock wraps.
ForgetsOldest ==
    [][\A i \in Entries :
          Used(arp_table[i]) /\ arp_table'[i].ipaddr # arp_table[i].ipaddr /\ ~wrapped'
          => \A j \in Entries : Used(arp_table[j]) /\ arp_table[i].time <= arp_table[j].time]_vars

=============================================================================
