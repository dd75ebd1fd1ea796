------------------------------- MODULE MCLink -------------------------------
(***************************************************************************)
(* The parts below and beside the stack that share no state: the ARP       *)
(* cache, the Ethernet driver, the nodes that forward packets, and the     *)
(* neighbour table.  Each behaviour is one of one of them.                 *)
(***************************************************************************)
EXTENDS UipArp, Enc28j60, UipFw, UipNeighbor

\* The constants: three frames, the second longer than the buffer it is read
\* into is one shorter, the third with a wrong CRC.
MCFrames == {[id |-> "a", len |-> 1, ok |-> TRUE], [id |-> "b", len |-> 2, ok |-> TRUE],
             [id |-> "c", len |-> 1, ok |-> FALSE]}

\* Nodes: two that are each other's default router, and NodeC, which hangs off
\* NodeA.  Neither of the two knows the way to NodeC, nor <<1, 9>> anybody.
NodeA == <<1, 1>>
NodeB == <<2, 1>>
NodeC == <<3, 1>>
MCHosts == {NodeA, NodeB, NodeC}
Interface(ip, to) == [ipaddr |-> ip, mask |-> <<1, 0>>, to |-> to]
MCRegistered == (NodeA :> <<>>) @@ (NodeB :> <<Interface(NodeA, NodeA)>>)
                                @@ (NodeC :> <<Interface(NodeA, NodeA)>>)
MCDefault == (NodeA :> <<Interface(NodeB, NodeB)>>) @@ (NodeB :> <<Interface(NodeA, NodeA)>>)
                                                    @@ (NodeC :> <<>>)

Packet(src, dst, ipid, ttl, proto, seqno, data) ==
    [src |-> src, dst |-> dst, ipid |-> ipid, ttl |-> ttl, proto |-> proto,
     seqno |-> seqno, data |-> data, rest |-> 65533, sum |-> ChecksumOf(65533, ttl)]

\* A full segment, a packet that loops, a broadcast.
MCTraffic ==
    {[from |-> NodeB, packet |-> Packet(NodeB, NodeA, 1, 3, "tcp", 1, <<1, 2, 3>>)],
     [from |-> NodeC, packet |-> Packet(NodeC, <<1, 9>>, 1, 3, "udp", 0, <<>>)],
     [from |-> NodeC, packet |-> Packet(NodeC, Broadcast, 2, 2, "udp", 0, <<>>)]}

\* Header words whose sum passes 65535 while the TTL runs down.
MCRests == {65533}

\* The first bytes of link address "m" are those of the IP address "i".
MCAsIp == [addr \in NeighborAddrs |-> IF addr = "m" THEN "i" ELSE "no neighbor"]

VARIABLES
    part,
    filled    \* history: since the last reset NotFilled did not hold once

linkVars == <<vars, ethVars, fwVars, neighbors, part, filled>>

LinkInit ==
    /\ Init /\ EthInit /\ FwInit /\ NeighborInit
    /\ filled = FALSE
    /\ part = "eth" \/ (part \in {"arp", "fw", "neighbor"} /\ chip.bank = 0)

Remember == filled' = (drv'.pc # "buffers" /\ (filled \/ ~NotFilled'))

LinkNext ==
    \/ part = "arp" /\ Next /\ UNCHANGED <<ethVars, fwVars, neighbors, part, filled>>
    \/ part = "eth" /\ EthNext /\ Remember /\ UNCHANGED <<vars, fwVars, neighbors, part>>
    \/ part = "fw" /\ FwNext /\ UNCHANGED <<vars, ethVars, neighbors, part, filled>>
    \/ part = "neighbor" /\ NeighborNext /\ UNCHANGED <<vars, ethVars, fwVars, part, filled>>

\* The processor goes on with the driver, and the controller with what it
\* transmits; the main loop of every node takes what arrives.
LinkFairness ==
    /\ WF_ethVars(part = "eth" /\ DriverStep)
    /\ WF_ethVars(part = "eth" /\ ChipTransmits)
    /\ \A n \in MCHosts : WF_fwVars(part = "fw" /\ Arrival(n))

LinkSpec == LinkInit /\ [][LinkNext]_linkVars /\ LinkFairness

-----------------------------------------------------------------------------
\* Types of all the parts.  Until the ring is filled as described at NotFilled, the
\* controller counts no more packets than the ring has room for.
LinkTypeOK ==
    /\ TypeOK /\ EthTypeOK /\ FwTypeOK /\ NeighborTypeOK
    /\ filled \in BOOLEAN
    /\ ~filled => chip.EPKTCNT <= RXSTOP_INIT \div 2 + 1

\* A step of the queue, or none, as long as the ring was not filled.
InOrder == ~filled => [Queue!Next]_<<WaitingFrames, handed>>

\* However frames come in between the driver's operations, whether the ring is
\* full or wraps around, whatever is being sent, and whenever the processor
\* starts again: the driver implements the queue of frames, until the controller
\* has filled the ring in the middle of the driver's two writes of ERXRDPT
\* (enc28j60.cpp:408-417); and again after the next reset.
FramesInOrderUntilFilled == Queue!Init /\ [][InOrder]_linkVars

\* The main loop's progress is a question to the driver's behaviours only.
LinkLoopGoesOn == part = "eth" => LoopGoesOn
=============================================================================
