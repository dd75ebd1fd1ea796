---------------------------- MODULE UipNeighbor ----------------------------
(***************************************************************************)
(* The neighbour table (src/uip/uip-neighbor.c): the link address of each  *)
(* neighbour and the number of periods since it was last heard of.         *)
(***************************************************************************)
EXTENDS Naturals, FiniteSets

CONSTANTS NeighborIps, NeighborAddrs,
          NeighborAsIp,      \* a link address, read as if it were an IP address
          NoIp, NoAddr,      \* all zeroes, in a table that is new
          ENTRIES, MAX_TIME  \* 8 entries and 128 periods in the code

ASSUME NeighborAssumption == ENTRIES \in Nat /\ MAX_TIME \in Nat

VARIABLE neighbors           \* sequence of [ipaddr, addr, time]

Slots == 1..ENTRIES

\* Mutant: oldest_time is not updated, so that the last entry of any age is taken.
OldestLast(i) ==
    /\ neighbors[i].time > 0
    /\ \A j \in (i + 1)..ENTRIES : neighbors[j].time = 0

\* The search of uip_neighbor_add() for the first of the oldest entries
Oldest(i) ==
    /\ \A j \in 1..(i - 1) : neighbors[j].time < neighbors[i].time
    /\ \A j \in (i + 1)..ENTRIES : neighbors[j].time <= neighbors[i].time

\* The search ends early at an unused entry, and at one whose IP address is
\* the same as the first bytes of the LINK address.
EndsSearch(i, addr) ==
    \/ neighbors[i].time = MAX_TIME
    \/ neighbors[i].ipaddr = NeighborAsIp[addr]

Chosen(i, addr) ==
    \/ EndsSearch(i, addr) /\ \A j \in 1..(i - 1) : ~EndsSearch(j, addr)
    \/ (\A j \in Slots : ~EndsSearch(j, addr)) /\ Oldest(i)

uip_neighbor_add(ip, addr) ==
    \E i \in Slots :
        /\ Chosen(i, addr)
        /\ neighbors' = [neighbors EXCEPT ![i] = [ipaddr |-> ip, addr |-> addr, time |-> 0]]

\* find_entry(), which is also what uip_neighbor_lookup() finds: the age of an
\* entry does not matter.
FindEntry(ip) ==
    {i \in Slots : /\ neighbors[i].ipaddr = ip
                   /\ \A j \in 1..(i - 1) : neighbors[j].ipaddr # ip}

uip_neighbor_update(ip) ==
    \E i \in FindEntry(ip) : neighbors' = [neighbors EXCEPT ![i].time = 0]

uip_neighbor_periodic ==
    neighbors' = [i \in Slots |->
                    [neighbors[i] EXCEPT !.time = IF @ < MAX_TIME THEN @ + 1 ELSE @]]

\* uip_neighbor_init() makes every entry unused.
NeighborInit ==
    neighbors = [i \in Slots |-> [ipaddr |-> NoIp, addr |-> NoAddr, time |-> MAX_TIME]]

NeighborNext ==
    \/ \E ip \in NeighborIps, addr \in NeighborAddrs : uip_neighbor_add(ip, addr)
    \/ \E ip \in NeighborIps : uip_neighbor_update(ip)
    \/ uip_neighbor_periodic

NeighborSpec == NeighborInit /\ [][NeighborNext]_neighbors

(***************************************************************************)
(* Properties                                                              *)
(***************************************************************************)
\* Types
NeighborTypeOK ==
    neighbors \in [Slots -> [ipaddr : NeighborIps \cup {NoIp},
                             addr : NeighborAddrs \cup {NoAddr}, time : 0..MAX_TIME]]

\* A new neighbour pushes out only an entry that was heard of no more lately
\* than any other - an unused one counts as the oldest - or one whose IP
\* address reads like the beginning of the new LINK address (uip-neighbor.c:102).
OldestOrLookalikeGoes ==
    [][\A i \in Slots :
          neighbors'[i].ipaddr # neighbors[i].ipaddr =>
              \/ \A j \in Slots : neighbors[j].time <= neighbors[i].time
              \/ neighbors[i].ipaddr = NeighborAsIp[neighbors'[i].addr]]_neighbors
=============================================================================
