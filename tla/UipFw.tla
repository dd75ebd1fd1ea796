------------------------------- MODULE UipFw -------------------------------
(***************************************************************************)
(* Packet forwarding (src/uip/uip-fw.c) by several nodes that are wired to *)
(* each other, and uip-split.c, which cuts full TCP segments in two before *)
(* they are sent.  An address is a pair of 16-bit words, a node is named   *)
(* by its address, and each node handles the packets that arrive in the    *)
(* order of its inbox, as the loop of a main program does:                 *)
(* uip_fw_forward(), and uip_input() if the answer is UIP_FW_LOCAL.  The   *)
(* wires neither lose nor reorder; nodes may be wired in circles.          *)
(*                                                                         *)
(* Of the IP header the model keeps the fields the code reads and the      *)
(* checksum.  The checksum is that of a machine with the low byte first,   *)
(* where the TTL is the low byte of its 16-bit word; `rest' is the sum of  *)
(* all the other words.                                                    *)
(***************************************************************************)
EXTENDS Naturals, Sequences, FiniteSets, SequencesExt

CONSTANTS FwHosts,        \* the addresses of the nodes
          FwRegistered,   \* the interfaces given to uip_fw_register(), per node, in order
          FwDefault,      \* <<the interface given to uip_fw_default()>>, or <<>>
          FwTraffic,      \* what the nodes send: records [from, packet]
          FwRests,        \* sums of the header words other than the TTL's
          FWCACHE_SIZE, FW_TIME, UIP_TTL,
          FwFull          \* data bytes of a segment that fills the buffer

Word == {n \in Nat : n <= 65535}

ASSUME FwAssumption ==
    /\ FWCACHE_SIZE \in Nat \ {0} /\ FW_TIME \in Nat \ {0}
    /\ UIP_TTL \in 2..255 /\ FwFull \in Nat
    /\ FwRests \subseteq Word \ {0} /\ FwRests # {}

VARIABLES fwcache,   \* per node, the packets sent lately: [timer, key]
          inbox,     \* per node, the packets on their way to it
          unsent,    \* the members of FwTraffic not sent yet
          got,       \* per node, the packets its own stack was given
          last       \* history: per node, the key sent last and its age in periods

fwVars == <<fwcache, inbox, unsent, got, last>>

Address == Word \X Word
Protos == {"tcp", "udp", "icmp"}
Broadcast == <<65535, 65535>>

Netif == [ipaddr : Address, mask : Address, to : FwHosts]

ASSUME FwWiring ==
    /\ FwHosts \subseteq Address
    /\ FwRegistered \in [FwHosts -> Seq(Netif)]
    /\ FwDefault \in [FwHosts -> Seq(Netif)]

(***************************************************************************)
(* The header checksum                                                     *)
(***************************************************************************)
OnesAdd(a, b) == IF a + b > 65535 THEN a + b - 65535 ELSE a + b

ChecksumOf(rest, ttl) == 65535 - OnesAdd(rest, ttl)

\* A packet with the right checksum, as the stack of its sender makes it.
FwPacket ==
    {p \in [ipid : Word, src : Address, dst : Address, ttl : 1..255, proto : Protos,
            seqno : Nat, data : Seq(Nat), rest : Word \ {0}, sum : Word] :
        p.sum = ChecksumOf(p.rest, p.ttl)}

ASSUME FwTrafficAssumption == FwTraffic \subseteq [from : FwHosts, packet : FwPacket]

\* Mutant: the carry is lost.
UpdatedNoCarry(sum) == (sum + 1) % 65536

\* uip_fw_forward(): the TTL has become one less, so the checksum one more,
\* with the carry brought round.
Updated(sum) == IF sum >= 65534 THEN sum + 2 - 65536 ELSE sum + 1

\* Mutant: the TTL stays.
HopKeepsTtl(p) == p

Hop(p) == [p EXCEPT !.ttl = @ - 1, !.sum = Updated(@)]

\* time_exceeded() turns the packet into an ICMP message to its sender.
TimeExceeded(n, p, rest) ==
    [ipid |-> p.ipid, src |-> n, dst |-> p.src, ttl |-> UIP_TTL, proto |-> "icmp",
     seqno |-> 0, data |-> <<>>, rest |-> rest, sum |-> ChecksumOf(rest, UIP_TTL)]

\* "We don't send out ICMP errors for ICMP messages."
NoError(p) == p.proto = "icmp"

(***************************************************************************)
(* The forwarding cache                                                    *)
(***************************************************************************)
KeyOf(p) == [ipid |-> p.ipid, src |-> p.src, dst |-> p.dst, proto |-> p.proto]

\* Mutant: an off-by-one in the test of the timer.
RemembersEarly(entry, p) == entry.timer > 1 /\ entry.key = KeyOf(p)

Remembers(entry, p) == entry.timer # 0 /\ entry.key = KeyOf(p)

InCache(n, p) == \E i \in 1..FWCACHE_SIZE : Remembers(fwcache[n][i], p)

\* fwcache_register(): the first unused entry, else the last of the oldest.
IsSlot(cache, i) ==
    \/ /\ cache[i].timer = 0
       /\ \A j \in 1..(i - 1) : cache[j].timer # 0
    \/ /\ \A j \in 1..FWCACHE_SIZE : /\ cache[j].timer # 0
                                     /\ cache[i].timer <= cache[j].timer
       /\ \A j \in (i + 1)..FWCACHE_SIZE : cache[i].timer < cache[j].timer

Register(cache, p) ==
    [i \in 1..FWCACHE_SIZE |->
        IF IsSlot(cache, i) THEN [timer |-> FW_TIME, key |-> KeyOf(p)] ELSE cache[i]]

(***************************************************************************)
(* Interfaces and uip_fw_output()                                          *)
(***************************************************************************)
\* uip_fw_register() puts an interface in front of the list.
Netifs(n) == Reverse(FwRegistered[n])

\* ipaddr_maskcmp(), with masks of whole words
MaskCmp(addr, netif) == \A w \in 1..2 : netif.mask[w] = 0 \/ addr[w] = netif.ipaddr[w]

Matching(n, dst) == SelectSeq(Netifs(n), LAMBDA f : MaskCmp(dst, f))

\* find_netif(): the first interface whose network the address is in
FindNetif(n, dst) ==
    IF Matching(n, dst) = <<>> THEN FwDefault[n] ELSE <<Head(Matching(n, dst))>>

\* The interfaces a packet goes out on; a broadcast goes out on all of them.
GoesOutOn(n, p) == IF p.dst = Broadcast THEN FwDefault[n] \o Netifs(n) ELSE FindNetif(n, p.dst)

\* The packet p, sent by n, arrives at the nodes the interfaces lead to.
Send(n, box, p) ==
    LET out == GoesOutOn(n, p)
        copies(m) == Cardinality({i \in DOMAIN out : out[i].to = m})
    IN  [m \in FwHosts |-> box[m] \o [i \in 1..copies(m) |-> p]]

\* uip_fw_output() for each of ps, by node n; box is the inboxes before.
Output(n, box, ps) ==
    /\ inbox' = FoldLeft(LAMBDA b, p : Send(n, b, p), box, ps)
    /\ fwcache' = [fwcache EXCEPT ![n] = FoldLeft(Register, @, ps)]
    /\ last' = IF ps = <<>> THEN last
               ELSE [last EXCEPT ![n] = [key |-> KeyOf(ps[Len(ps)]), age |-> 0]]

(***************************************************************************)
(* uip_split_output(): a full segment becomes two, which share the header  *)
(* but for the length and the sequence number.                             *)
(***************************************************************************)
FirstLen(p) == Len(p.data) \div 2

Half(p, from, to, rest) ==
    [p EXCEPT !.seqno = @ + from - 1, !.data = SubSeq(@, from, to),
              !.rest = rest, !.sum = ChecksumOf(rest, p.ttl)]

Split(p, rest1, rest2) ==
    IF p.proto = "tcp" /\ Len(p.data) = FwFull
    THEN <<Half(p, 1, FirstLen(p), rest1), Half(p, FirstLen(p) + 1, Len(p.data), rest2)>>
    ELSE <<p>>

(***************************************************************************)
(* The actions of node n                                                   *)
(***************************************************************************)
Take(n) == [inbox EXCEPT ![n] = Tail(@)]

\* The stack of n has a packet to send.
FwSend(n) ==
    \E t \in unsent, rest1, rest2 \in FwRests :
        /\ t.from = n
        /\ unsent' = unsent \ {t}
        /\ Output(n, inbox, Split(t.packet, rest1, rest2))
        /\ UNCHANGED got

\* uip_fw_forward(): a packet for this node is left to uip_input().
FwLocal(n) ==
    /\ inbox[n] # <<>>
    /\ LET p == Head(inbox[n]) IN
       /\ \/ p.dst = n
          \/ p.dst = Broadcast /\ ~InCache(n, p) /\ p.ttl <= 1
       /\ got' = [got EXCEPT ![n] = @ \cup {p}]
    /\ inbox' = Take(n)
    /\ UNCHANGED <<fwcache, unsent, last>>

\* uip_fw_forward(): one that went out lately is dropped.
FwDuplicate(n) ==
    /\ inbox[n] # <<>>
    /\ Head(inbox[n]).dst # n
    /\ InCache(n, Head(inbox[n]))
    /\ inbox' = Take(n)
    /\ UNCHANGED <<fwcache, unsent, got, last>>

\* uip_fw_forward(): every other one is sent on; the stack sees a broadcast too.
FwForward(n) ==
    /\ inbox[n] # <<>>
    /\ LET p == Head(inbox[n]) IN
       /\ p.dst # n /\ ~InCache(n, p)
       /\ p.ttl > 1
       /\ Output(n, Take(n), <<Hop(p)>>)
       /\ got' = IF p.dst = Broadcast THEN [got EXCEPT ![n] = @ \cup {Hop(p)}] ELSE got
    /\ UNCHANGED unsent

\* uip_fw_forward() with a TTL at its end: the sender is told, unless the
\* packet was an ICMP message itself.
FwExpire(n) ==
    /\ inbox[n] # <<>>
    /\ LET p == Head(inbox[n]) IN
       /\ p.dst \notin {n, Broadcast} /\ ~InCache(n, p)
       /\ p.ttl <= 1
       /\ \E rest \in FwRests :
             Output(n, Take(n), IF NoError(p) THEN <<>> ELSE <<Hop(TimeExceeded(n, p, rest))>>)
    /\ UNCHANGED <<unsent, got>>

Older(entry) == [entry EXCEPT !.timer = IF @ > 0 THEN @ - 1 ELSE 0]

\* uip_fw_periodic()
FwPeriodic(n) ==
    /\ fwcache' = [fwcache EXCEPT ![n] = [i \in 1..FWCACHE_SIZE |-> Older(@[i])]]
    /\ last' = [last EXCEPT ![n].age = IF @ < FW_TIME THEN @ + 1 ELSE @]
    /\ UNCHANGED <<inbox, unsent, got>>

NoKey == [ipid |-> 0, src |-> <<0, 0>>, dst |-> <<0, 0>>, proto |-> "none"]

FwInit ==
    /\ fwcache = [n \in FwHosts |-> [i \in 1..FWCACHE_SIZE |-> [timer |-> 0, key |-> NoKey]]]
    /\ inbox = [n \in FwHosts |-> <<>>]
    /\ unsent = FwTraffic
    /\ got = [n \in FwHosts |-> {}]
    /\ last = [n \in FwHosts |-> [key |-> NoKey, age |-> FW_TIME]]

Arrival(n) == FwLocal(n) \/ FwDuplicate(n) \/ FwForward(n) \/ FwExpire(n)

FwNext == \E n \in FwHosts : FwSend(n) \/ Arrival(n) \/ FwPeriodic(n)

FwSpec == FwInit /\ [][FwNext]_fwVars

(***************************************************************************)
(* Properties                                                              *)
(***************************************************************************)
Everywhere == UNION {got[n] \cup ToSet(inbox[n]) : n \in FwHosts}

\* Types: the cache and history of each node, and what is sent only once.
FwTypeOK ==
    /\ \A n \in FwHosts : /\ \A i \in 1..FWCACHE_SIZE : fwcache[n][i].timer \in 0..FW_TIME
                          /\ last[n].age \in 0..FW_TIME
    /\ unsent \subseteq FwTraffic
    /\ \A p \in Everywhere : p.ttl \in 1..255

\* The incremental update keeps the header checksum of every packet right,
\* over any number of hops, for any header (uip-fw.c:466).
ChecksumStaysRight == \A p \in Everywhere : p.sum = ChecksumOf(p.rest, p.ttl)

\* A packet that a node cannot tell from the one it sent last goes no further
\* for FW_TIME periods, whatever the cache had to throw away meanwhile: nothing
\* is sent when it is handled, so that one that comes back at once through a
\* loop stops there (uip-fw.c:430).
NotTwiceRunning ==
    [][\A n \in FwHosts :
          Arrival(n) /\ KeyOf(Head(inbox[n])) = last[n].key /\ last[n].age < FW_TIME
          => inbox' = Take(n)]_fwVars

\* However the nodes are wired, and however often their caches forget, every
\* packet and every error message it causes comes to an end (uip-fw.c:227,
\* uip-fw.c:454).
PacketsDie == <>[](\A n \in FwHosts : inbox[n] = <<>>)

=============================================================================
