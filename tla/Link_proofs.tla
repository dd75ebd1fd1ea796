----------------------------- MODULE Link_proofs -----------------------------
(***************************************************************************)
(* What is proved of the parts below and beside the stack, for any hosts,  *)
(* any width of a clock, any frames, any size of the ring, any nodes and   *)
(* any packets: the ARP cache, the Ethernet driver and its controller, the *)
(* nodes that forward packets, the neighbour table, the driver's receive   *)
(* ring, which is a queue of frames, and at the end the composition of     *)
(* MCLink.  The specification called Spec is the one of UipArp.            *)
(***************************************************************************)
EXTENDS MCLink, SequenceTheorems, FiniteSetTheorems, TLAPS

-----------------------------------------------------------------------------
(* The ARP cache.  What an update may touch is all the proofs need of the  *)
(* way it picks an entry (LEMMA SlotIsSafe): the entry of the address      *)
(* itself, one out of use, or, in a full table, the one that gives way.    *)

\* An entry in use has the hardware address its host gave last.
EntriesCurrent ==
    \A i \in Entries : Used(arp_table[i]) =>
        arp_table[i].ethaddr = learned[arp_table[i].ipaddr]

\* No entry is from the future before the clock has wrapped.
NotAhead == ~wrapped => \A i \in Entries : arp_table[i].time <= arptime

\* The inductive invariant.
ArpInv ==
    /\ TypeOK
    /\ OneEntryPerHost
    /\ EntriesCurrent
    /\ NotAhead
    /\ FramesReachNextHop

-----------------------------------------------------------------------------
LEMMA ClockInRange ==
  ASSUME TypeOK
  PROVE  (arptime + 1) % TimeMod \in 0 .. TimeMod - 1
BY ArpAssumption DEF TypeOK

LEMMA ArpInitInv == Init => ArpInv
<1> SUFFICES ASSUME Init PROVE ArpInv
  OBVIOUS
<1>1. \A i \in Entries : ~Used(arp_table[i]) /\ arp_table[i].time = 0
  BY DEF Init, Used
<1>2. TypeOK
  <2>1. 0 \in 0 .. TimeMod - 1
    BY ArpAssumption
  <2>2. [ipaddr |-> AllZeroes, ethaddr |-> ZeroMac, time |-> 0] \in Entry
    BY <2>1 DEF Entry
  <2> QED
    BY <2>1, <2>2 DEF Init, TypeOK
<1>3. FramesReachNextHop
  BY DEF Init, Nothing, FramesReachNextHop
<1> QED
  BY <1>1, <1>2, <1>3 DEF Init, ArpInv, OneEntryPerHost, EntriesCurrent, NotAhead

\* An address never gets a second entry: when another entry holds it, that is
\* the one updated.
LEMMA SlotIsSafe ==
  ASSUME NEW ip, NEW i \in Entries, SlotFor(i, ip)
  PROVE  /\ \A j \in Entries : Holds(j, ip) => Holds(i, ip)
         /\ Holds(i, ip) \/ ~Used(arp_table[i])
            \/ (GivesWay(i) /\ \A j \in Entries : Used(arp_table[j]))
BY DEF SlotFor

-----------------------------------------------------------------------------
\* uip_arp_update() keeps everything but what was sent last.
LEMMA UpdateKeeps ==
  ASSUME ArpInv, NEW ip \in Hosts \cup {AllZeroes}, NEW mac \in Macs, Update(ip, mac),
         UNCHANGED <<arptime, wrapped>>
  PROVE  TypeOK' /\ OneEntryPerHost' /\ EntriesCurrent' /\ NotAhead'
<1>1. PICK i \in Entries :
          /\ SlotFor(i, ip)
          /\ arp_table' = [arp_table EXCEPT ![i] =
                              [ipaddr |-> ip, ethaddr |-> mac, time |-> arptime]]
  BY DEF Update
<1>2. learned' = IF ip \in Hosts THEN [learned EXCEPT ![ip] = mac] ELSE learned
  BY DEF Update
<1>3. TypeOK
  BY DEF ArpInv
<1>4. /\ arp_table'[i] = [ipaddr |-> ip, ethaddr |-> mac, time |-> arptime]
      /\ \A j \in Entries : j # i => arp_table'[j] = arp_table[j]
  BY <1>1, <1>3 DEF TypeOK
<1>5. TypeOK'
  <2>1. [ipaddr |-> ip, ethaddr |-> mac, time |-> arptime] \in Entry
    BY <1>3 DEF TypeOK, Entry
  <2>2. arp_table' \in [Entries -> Entry]
    BY <2>1, <1>1, <1>3 DEF TypeOK
  <2>3. learned' \in [Hosts -> Macs \cup {ZeroMac}]
    BY <1>2, <1>3 DEF TypeOK
  <2> QED
    BY <2>2, <2>3, <1>3 DEF TypeOK
<1>6. \A j \in Entries : Used(arp_table[j]) => arp_table[j].ipaddr \in Hosts
  BY <1>3 DEF TypeOK, Entry, Used
<1>7. ASSUME NEW j \in Entries, j # i, Used(arp_table[j]) PROVE arp_table[j].ipaddr # ip
  <2> SUFFICES ASSUME arp_table[j].ipaddr = ip PROVE FALSE
    OBVIOUS
  <2>1. Holds(j, ip)
    BY <1>7 DEF Holds
  <2>2. Holds(i, ip)
    BY <2>1, <1>1, SlotIsSafe
  <2> QED
    BY <2>1, <2>2, <1>7 DEF Holds, ArpInv, OneEntryPerHost
<1>8. OneEntryPerHost'
  <2> SUFFICES ASSUME NEW j \in Entries, NEW k \in Entries, Used(arp_table'[j]),
                      arp_table'[j].ipaddr = arp_table'[k].ipaddr
               PROVE  j = k
    BY DEF OneEntryPerHost, Entries
  <2>1. CASE j = i /\ k # i
    BY <2>1, <1>4, <1>7 DEF Used
  <2>2. CASE k = i /\ j # i
    BY <2>2, <1>4, <1>7
  <2>3. CASE j # i /\ k # i
    BY <2>3, <1>4 DEF ArpInv, OneEntryPerHost
  <2> QED
    BY <2>1, <2>2, <2>3
<1>9. EntriesCurrent'
  <2> SUFFICES ASSUME NEW j \in Entries, Used(arp_table'[j])
               PROVE  arp_table'[j].ethaddr = learned'[arp_table'[j].ipaddr]
    BY DEF EntriesCurrent, Entries
  <2>1. CASE j = i
    BY <2>1, <1>2, <1>3, <1>4 DEF TypeOK, Used
  <2>2. CASE j # i
    <3>1. arp_table[j].ipaddr \in Hosts /\ arp_table[j].ipaddr # ip
      BY <2>2, <1>4, <1>6, <1>7
    <3>2. learned'[arp_table[j].ipaddr] = learned[arp_table[j].ipaddr]
      BY <3>1, <1>2, <1>3 DEF TypeOK
    <3> QED
      BY <2>2, <3>2, <1>4 DEF ArpInv, EntriesCurrent
  <2> QED
    BY <2>1, <2>2
<1>10. NotAhead'
  <2> SUFFICES ASSUME ~wrapped, NEW j \in Entries PROVE arp_table'[j].time <= arptime
    BY DEF NotAhead, Entries
  <2>1. CASE j = i
    BY <2>1, <1>3, <1>4 DEF TypeOK
  <2>2. CASE j # i
    BY <2>2, <1>4 DEF ArpInv, NotAhead
  <2> QED
    BY <2>1, <2>2
<1> QED
  BY <1>5, <1>8, <1>9, <1>10

\* The timer changes the address of entries out of use only.
LEMMA TimerKeepsUsed ==
  ASSUME TypeOK, Timer
  PROVE  /\ TypeOK'
         /\ \A i \in Entries : /\ Used(arp_table'[i]) = Used(arp_table[i])
                               /\ arp_table'[i].time = arp_table[i].time
                               /\ Used(arp_table[i]) => arp_table'[i] = arp_table[i]
<1>1. \A i \in Entries : arp_table'[i] = IF Expired(i, arptime')
                                         THEN [arp_table[i] EXCEPT !.ipaddr = AllZeroes]
                                         ELSE arp_table[i]
  BY DEF Timer
<1>2. \A i \in Entries : arp_table[i] \in Entry
  BY DEF TypeOK
<1>3. \A i \in Entries : arp_table'[i] \in Entry
  BY <1>1, <1>2 DEF Entry
<1>4. arptime' \in 0 .. TimeMod - 1
  BY ClockInRange DEF Timer
<1>5. wrapped' \in BOOLEAN /\ learned' = learned
  BY DEF Timer, TypeOK
<1>6. arp_table' \in [Entries -> Entry]
  BY <1>3 DEF Timer
<1>7. TypeOK'
  BY <1>4, <1>5, <1>6 DEF TypeOK
<1> QED
  BY <1>1, <1>2, <1>7 DEF Expired, Used, Entry

LEMMA TimerKeeps ==
  ASSUME ArpInv, Timer
  PROVE  ArpInv'
<1>1. TypeOK
  BY DEF ArpInv
<1>2. TypeOK'
  BY <1>1, TimerKeepsUsed
<1>3. \A i \in Entries : /\ Used(arp_table'[i]) = Used(arp_table[i])
                         /\ arp_table'[i].time = arp_table[i].time
                         /\ Used(arp_table[i]) => arp_table'[i] = arp_table[i]
  BY <1>1, TimerKeepsUsed
<1>4. learned' = learned /\ out' = Nothing
  BY DEF Timer
<1>5. OneEntryPerHost'
  <2> SUFFICES ASSUME NEW i \in Entries, NEW j \in Entries, Used(arp_table'[i]),
                      arp_table'[i].ipaddr = arp_table'[j].ipaddr
               PROVE  i = j
    BY DEF OneEntryPerHost, Entries
  <2>1. Used(arp_table'[j])
    BY DEF Used
  <2> QED
    BY <2>1, <1>3 DEF ArpInv, OneEntryPerHost
<1>6. EntriesCurrent'
  BY <1>3, <1>4 DEF ArpInv, EntriesCurrent, Entries
<1>7. NotAhead'
  <2> SUFFICES ASSUME ~wrapped', NEW i \in Entries PROVE arp_table'[i].time <= arptime'
    BY DEF NotAhead, Entries
  <2>1. ~wrapped /\ ~(arptime' < arptime)
    BY DEF Timer
  <2>2. arp_table[i].time <= arptime
    BY <2>1 DEF ArpInv, NotAhead
  <2>3. arptime \in Int /\ arptime' \in Int /\ arp_table[i].time \in Int
    BY <1>1, <1>2 DEF TypeOK, Entry
  <2> QED
    BY <2>1, <2>2, <2>3, <1>3
<1>8. FramesReachNextHop'
  BY <1>4 DEF FramesReachNextHop, Nothing
<1> QED
  BY <1>2, <1>5, <1>6, <1>7, <1>8 DEF ArpInv

\* The next hop of an IP packet is a host of the local network, so that an
\* entry that matches it is in use.
LEMMA OutputKeeps ==
  ASSUME ArpInv, NEW dest \in Hosts \cup {Remote, BroadcastIp}, ArpOut(dest)
  PROVE  ArpInv'
<1>1. UNCHANGED <<arp_table, arptime, learned, wrapped>>
  BY DEF ArpOut
<1>2. FramesReachNextHop'
  <2>1. CASE dest = BroadcastIp /\ out' = [kind |-> "ip", mac |-> BroadcastMac, hop |-> dest]
    BY <2>1 DEF FramesReachNextHop
  <2>2. ASSUME NEW i \in Entries, Matches(i, NextHop(dest)), dest # BroadcastIp,
               out' = [kind |-> "ip", mac |-> arp_table[i].ethaddr, hop |-> NextHop(dest)]
        PROVE  FramesReachNextHop'
    <3>1. NextHop(dest) \in Hosts
      BY ArpAssumption DEF NextHop
    <3>2. Used(arp_table[i])
      BY <3>1, <2>2, ArpAssumption DEF Matches, Used
    <3>3. arp_table[i].ethaddr = learned[NextHop(dest)]
      BY <3>2, <2>2 DEF ArpInv, EntriesCurrent, Matches
    <3> QED
      BY <3>1, <3>3, <2>2, <1>1 DEF FramesReachNextHop
  <2>3. CASE out' = [kind |-> "request", mac |-> BroadcastMac, hop |-> NextHop(dest)]
    BY <2>3 DEF FramesReachNextHop
  <2> QED
    BY <2>1, <2>2, <2>3 DEF ArpOut
<1>3. TypeOK' /\ OneEntryPerHost' /\ EntriesCurrent' /\ NotAhead'
  BY <1>1 DEF ArpInv, TypeOK, OneEntryPerHost, EntriesCurrent, NotAhead
<1> QED
  BY <1>2, <1>3 DEF ArpInv

LEMMA ArpStepInv == ArpInv /\ [Next]_vars => ArpInv'
<1> SUFFICES ASSUME ArpInv, [Next]_vars PROVE ArpInv'
  OBVIOUS
<1>1. ASSUME NEW ip \in Hosts \cup {AllZeroes}, NEW mac \in Macs,
             Request(ip, mac) \/ Reply(ip, mac)
      PROVE  ArpInv'
  <2>1. Update(ip, mac) /\ UNCHANGED <<arptime, wrapped>>
    BY <1>1 DEF Request, Reply
  <2>2. TypeOK' /\ OneEntryPerHost' /\ EntriesCurrent' /\ NotAhead'
    BY <2>1, UpdateKeeps
  <2>3. FramesReachNextHop'
    BY <1>1 DEF Request, Reply, Nothing, FramesReachNextHop
  <2> QED
    BY <2>2, <2>3 DEF ArpInv
<1>2. CASE Timer
  BY <1>2, TimerKeeps
<1>3. ASSUME NEW dest \in Hosts \cup {Remote, BroadcastIp}, ArpOut(dest) PROVE ArpInv'
  BY <1>3, OutputKeeps
<1>4. CASE UNCHANGED vars
  BY <1>4 DEF vars, ArpInv, TypeOK, OneEntryPerHost, EntriesCurrent, NotAhead,
              FramesReachNextHop
<1> QED
  BY <1>1, <1>2, <1>3, <1>4 DEF Next

-----------------------------------------------------------------------------
\* The invariant holds in every reachable state.
LEMMA ArpInvHolds == Spec => []ArpInv
BY ArpInitInv, ArpStepInv, PTL DEF Spec

\* Addresses and ages of the table have their types: its clock stays in its byte.
THEOREM ArpTypes == Spec => []TypeOK
<1>1. ArpInv => TypeOK
  BY DEF ArpInv
<1> QED
  BY <1>1, ArpInvHolds, PTL

\* No host ever has two entries (uip_arp_update), whatever is thrown away.
THEOREM HostsHaveOneEntry == Spec => []OneEntryPerHost
<1>1. ArpInv => OneEntryPerHost
  BY DEF ArpInv
<1> QED
  BY <1>1, ArpInvHolds, PTL

\* uip_arp_out() addresses a frame to the hardware address its next hop gave
\* last, or broadcasts an ARP request in its place.
THEOREM FramesGoRight == Spec => []FramesReachNextHop
<1>1. ArpInv => FramesReachNextHop
  BY DEF ArpInv
<1> QED
  BY <1>1, ArpInvHolds, PTL

\* An address in use changes only in a full table, where the entry updated
\* longest ago gives way.
LEMMA EvictionIsOldest ==
  ASSUME ArpInv, NEW ip \in Hosts \cup {AllZeroes}, NEW mac, Update(ip, mac), ~wrapped,
         NEW i \in Entries, Used(arp_table[i]), arp_table'[i].ipaddr # arp_table[i].ipaddr
  PROVE  \A j \in Entries : Used(arp_table[j]) /\ arp_table[i].time <= arp_table[j].time
<1>1. PICK k \in Entries :
          /\ SlotFor(k, ip)
          /\ arp_table' = [arp_table EXCEPT ![k] =
                              [ipaddr |-> ip, ethaddr |-> mac, time |-> arptime]]
  BY DEF Update
<1>2. TypeOK
  BY DEF ArpInv
<1>3. k = i /\ arp_table'[i].ipaddr = ip
  BY <1>1, <1>2 DEF TypeOK
<1>4. ~Holds(i, ip)
  BY <1>3 DEF Holds
<1>5. GivesWay(i) /\ \A j \in Entries : Used(arp_table[j])
  BY <1>1, <1>3, <1>4, SlotIsSafe
<1>6. \A j \in Entries : arp_table[j].time \in Int /\ arp_table[j].time <= arptime
  BY <1>2 DEF ArpInv, NotAhead, TypeOK, Entry
<1>7. arptime \in Int
  BY <1>2 DEF TypeOK
<1>8. \A j \in Entries : arp_table[i].time <= arp_table[j].time
  BY <1>5, <1>6, <1>7 DEF GivesWay, Age
<1> QED
  BY <1>5, <1>8

\* Until its clock wraps around the cache forgets an address only when it is
\* full, and then the one it has not heard of for longest.
THEOREM OldestIsForgotten == Spec => ForgetsOldest
<1> DEFINE Act == \A i \in Entries :
        Used(arp_table[i]) /\ arp_table'[i].ipaddr # arp_table[i].ipaddr /\ ~wrapped'
        => \A j \in Entries : Used(arp_table[j]) /\ arp_table[i].time <= arp_table[j].time
<1>1. ArpInv /\ [Next]_vars => [Act]_vars
  <2> SUFFICES ASSUME ArpInv, Next, NEW i \in Entries, Used(arp_table[i]),
                      arp_table'[i].ipaddr # arp_table[i].ipaddr, ~wrapped'
               PROVE  \A j \in Entries :
                          Used(arp_table[j]) /\ arp_table[i].time <= arp_table[j].time
    OBVIOUS
  <2>1. ASSUME NEW ip \in Hosts \cup {AllZeroes}, NEW mac \in Macs,
               Request(ip, mac) \/ Reply(ip, mac)
        PROVE  \A j \in Entries :
                   Used(arp_table[j]) /\ arp_table[i].time <= arp_table[j].time
    <3>1. Update(ip, mac) /\ ~wrapped
      BY <2>1 DEF Request, Reply
    <3> QED
      BY <3>1, EvictionIsOldest
  <2>2. ~Timer
    <3>1. TypeOK
      BY DEF ArpInv
    <3> QED
      BY <3>1, TimerKeepsUsed
  <2>3. \A dest : ~ArpOut(dest)
    BY DEF ArpOut
  <2> QED
    BY <2>1, <2>2, <2>3 DEF Next
<1> QED
  BY <1>1, ArpInvHolds, PTL DEF Spec, ForgetsOldest

-----------------------------------------------------------------------------
(* The Ethernet driver: the bank it believes to be selected is selected,   *)
(* and the transmit buffer is left alone while the controller sends it.    *)

DrvFields == {"pc", "bank", "next", "start", "head", "data", "out", "restarts"}
ChipFields == {"bank", "RXEN", "EPKTCNT", "ERXWRPT", "ERXRDPT", "mem",
               "TXRTS", "TXERIF", "stuck", "buffer", "sending"}

Records ==
    /\ drv = [f \in DrvFields |-> drv[f]]
    /\ chip = [f \in ChipFields |-> chip[f]]
    /\ chip.TXRTS \in BOOLEAN

\* The driver keeps the selected bank in a variable of its own.
BankKnown ==
    /\ drv.pc = "reset" => drv.bank = 0
    /\ drv.pc # "reset" => drv.bank = chip.bank

\* Between waiting for the transmitter and starting it nothing is being sent,
\* and what will be sent is the driver's frame.
SendingPrepared ==
    /\ drv.pc \in {"write", "start"} => ~chip.TXRTS
    /\ drv.pc = "start" => chip.buffer = drv.out

IInv == Records /\ BankKnown /\ SendingPrepared /\ TransmitUndisturbed

-----------------------------------------------------------------------------
\* enc28j60SetBank() selects the bank, and nothing else.
LEMMA BankSelected ==
    ASSUME IInv, drv.pc # "reset", NEW pc, NEW bank \in 0 .. 3
    PROVE  /\ GoTo(pc, bank) = [f \in DrvFields |-> GoTo(pc, bank)[f]]
           /\ GoTo(pc, bank).pc = pc /\ GoTo(pc, bank).bank = bank
           /\ GoTo(pc, bank).out = drv.out
           /\ InBank(chip, bank) = [f \in ChipFields |-> InBank(chip, bank)[f]]
           /\ InBank(chip, bank).bank = bank
           /\ \A f \in ChipFields \ {"bank"} : InBank(chip, bank)[f] = chip[f]
<1>1. /\ drv = [f \in DrvFields |-> drv[f]] /\ chip = [f \in ChipFields |-> chip[f]]
      /\ drv.bank = chip.bank
  BY DEF IInv, Records, BankKnown
<1>2. /\ GoTo(pc, bank) = [f \in DrvFields |-> GoTo(pc, bank)[f]]
      /\ GoTo(pc, bank).pc = pc /\ GoTo(pc, bank).bank = bank
      /\ GoTo(pc, bank).out = drv.out
  BY <1>1 DEF GoTo, DrvFields
<1>3. /\ InBank(chip, bank) = [f \in ChipFields |-> InBank(chip, bank)[f]]
      /\ InBank(chip, bank).bank = bank
      /\ \A f \in ChipFields \ {"bank"} : InBank(chip, bank)[f] = chip[f]
  BY <1>1 DEF InBank, ChipFields
<1> QED
  BY <1>2, <1>3

\* A step of the driver that neither writes the transmit buffer nor starts a
\* transmission.
LEMMA OtherStepsKeep ==
    ASSUME IInv, Records', BankKnown',
           drv'.pc \notin {"write", "start"},
           chip'.buffer = chip.buffer, chip'.sending = chip.sending,
           chip'.TXRTS => chip.TXRTS
    PROVE  IInv'
BY DEF IInv, SendingPrepared, TransmitUndisturbed

LEMMA StepGood ==
    ASSUME IInv, EthNext
    PROVE  IInv'
<1>1. /\ drv = [f \in DrvFields |-> drv[f]] /\ chip = [f \in ChipFields |-> chip[f]]
      /\ chip.TXRTS \in BOOLEAN
  BY DEF IInv, Records
<1>2. 0 \in 0 .. 3 /\ 1 \in 0 .. 3 /\ 3 \in 0 .. 3
  OBVIOUS
<1>3. CASE SoftReset
  BY <1>1, <1>3, OtherStepsKeep DEF SoftReset, DrvFields, ChipFields, Records, BankKnown, IInv
<1>4. CASE SetBuffers
  <2>1. drv.pc # "reset"
    BY <1>4 DEF SetBuffers
  <2> DEFINE D == GoTo("mac", 0)
             C == InBank(chip, 0)
  <2>2. /\ D = [f \in DrvFields |-> D[f]] /\ D.pc = "mac" /\ D.bank = 0
        /\ C = [f \in ChipFields |-> C[f]] /\ C.bank = 0
        /\ \A f \in ChipFields \ {"bank"} : C[f] = chip[f]
    BY <1>2, <2>1, BankSelected
  <2>3. /\ drv' = [D EXCEPT !.next = RXSTART_INIT]
        /\ chip' = [C EXCEPT !.ERXWRPT = RXSTART_INIT, !.ERXRDPT = RXSTART_INIT]
    BY <1>4 DEF SetBuffers
  <2> HIDE DEF D, C
  <2> QED
    BY <1>1, <2>2, <2>3, OtherStepsKeep DEF DrvFields, ChipFields, Records, BankKnown
<1>5. CASE SetMac
  <2>1. drv.pc # "reset"
    BY <1>5 DEF SetMac
  <2> DEFINE D == GoTo("enable", 3)
             C == InBank(chip, 3)
  <2>2. /\ D = [f \in DrvFields |-> D[f]] /\ D.pc = "enable" /\ D.bank = 3
        /\ C = [f \in ChipFields |-> C[f]] /\ C.bank = 3
        /\ \A f \in ChipFields \ {"bank"} : C[f] = chip[f]
    BY <1>2, <2>1, BankSelected
  <2>3. /\ drv' = D
        /\ chip' = C
    BY <1>5 DEF SetMac
  <2> HIDE DEF D, C
  <2> QED
    BY <1>1, <2>2, <2>3, OtherStepsKeep DEF DrvFields, ChipFields, Records, BankKnown
<1>6. CASE EnableReception
  <2>1. drv.pc # "reset"
    BY <1>6 DEF EnableReception
  <2> DEFINE D == GoTo("receive", 0)
             C == InBank(chip, 0)
  <2>2. /\ D = [f \in DrvFields |-> D[f]] /\ D.pc = "receive" /\ D.bank = 0
        /\ C = [f \in ChipFields |-> C[f]] /\ C.bank = 0
        /\ \A f \in ChipFields \ {"bank"} : C[f] = chip[f]
    BY <1>2, <2>1, BankSelected
  <2>3. /\ drv' = D
        /\ chip' = [C EXCEPT !.RXEN = TRUE]
    BY <1>6 DEF EnableReception
  <2> HIDE DEF D, C
  <2> QED
    BY <1>1, <2>2, <2>3, OtherStepsKeep DEF DrvFields, ChipFields, Records, BankKnown
<1>7. CASE ReadCount
  <2>1. drv.pc # "reset"
    BY <1>7 DEF ReadCount
  <2> DEFINE D == GoTo((IF chip.EPKTCNT = 0 THEN "main" ELSE "header"), 1)
             C == InBank(chip, 1)
  <2>2. /\ D = [f \in DrvFields |-> D[f]] /\ D.pc = (IF chip.EPKTCNT = 0 THEN "main" ELSE "header") /\ D.bank = 1
        /\ C = [f \in ChipFields |-> C[f]] /\ C.bank = 1
        /\ \A f \in ChipFields \ {"bank"} : C[f] = chip[f]
    BY <1>2, <2>1, BankSelected
  <2>3. /\ drv' = D
        /\ chip' = C
    BY <1>7 DEF ReadCount
  <2> HIDE DEF D, C
  <2> QED
    BY <1>1, <2>2, <2>3, OtherStepsKeep DEF DrvFields, ChipFields, Records, BankKnown
<1>8. CASE ReadHeader
  <2>1. drv.pc # "reset"
    BY <1>8 DEF ReadHeader
  <2> DEFINE D == GoTo("copy", 0)
             C == InBank(chip, 0)
  <2>2. /\ D = [f \in DrvFields |-> D[f]] /\ D.pc = "copy" /\ D.bank = 0
        /\ C = [f \in ChipFields |-> C[f]] /\ C.bank = 0
        /\ \A f \in ChipFields \ {"bank"} : C[f] = chip[f]
    BY <1>2, <2>1, BankSelected
  <2>3. /\ drv' = [D EXCEPT !.start = drv.next, !.head = chip.mem[drv.next],
                          !.next = chip.mem[drv.next].next]
        /\ chip' = C
    BY <1>8 DEF ReadHeader
  <2> HIDE DEF D, C
  <2> QED
    BY <1>1, <2>2, <2>3, OtherStepsKeep DEF DrvFields, ChipFields, Records, BankKnown
<1>9. CASE CopyPacket
  <2>1. /\ drv' = [drv EXCEPT !.pc = "free", !.data = drv'.data]
        /\ chip' = chip /\ drv.pc = "copy"
    BY <1>1, <1>9 DEF CopyPacket, DrvFields
  <2> QED
    BY <1>1, <2>1, OtherStepsKeep DEF DrvFields, Records, BankKnown, IInv
<1>10. CASE FreePacket
  <2>1. drv.pc # "reset"
    BY <1>10 DEF FreePacket
  <2> DEFINE D == GoTo("back", 0)
             C == InBank(chip, 0)
  <2>2. /\ D = [f \in DrvFields |-> D[f]] /\ D.pc = "back" /\ D.bank = 0
        /\ C = [f \in ChipFields |-> C[f]] /\ C.bank = 0
        /\ \A f \in ChipFields \ {"bank"} : C[f] = chip[f]
    BY <1>2, <2>1, BankSelected
  <2>3. /\ drv' = [D EXCEPT !.start = 0]
        /\ chip' = [C EXCEPT !.ERXRDPT = drv.next,
                             !.mem = [a \in Ring |->
                                IF Distance(drv.start, a) < Distance(drv.start, drv.next)
                                THEN Cell(Nobody, 0, 0) ELSE @[a]]]
    BY <1>10 DEF FreePacket
  <2> HIDE DEF D, C
  <2> QED
    BY <1>1, <2>2, <2>3, OtherStepsKeep DEF DrvFields, ChipFields, Records, BankKnown
<1>11. CASE MoveBack
  <2>1. drv.pc # "reset"
    BY <1>11 DEF MoveBack
  <2> DEFINE D == GoTo("count", 0)
             C == InBank(chip, 0)
  <2>2. /\ D = [f \in DrvFields |-> D[f]] /\ D.pc = "count" /\ D.bank = 0
        /\ C = [f \in ChipFields |-> C[f]] /\ C.bank = 0
        /\ \A f \in ChipFields \ {"bank"} : C[f] = chip[f]
    BY <1>2, <2>1, BankSelected
  <2>3. /\ drv' = D
        /\ chip' = [C EXCEPT !.ERXRDPT = OneBack(drv.next)]
    BY <1>11 DEF MoveBack
  <2> HIDE DEF D, C
  <2> QED
    BY <1>1, <2>2, <2>3, OtherStepsKeep DEF DrvFields, ChipFields, Records, BankKnown
<1>12. CASE CountPacket
  <2>1. /\ drv' = [drv EXCEPT !.pc = "main", !.head = Cell(Nobody, 0, 0), !.data = <<>>]
        /\ chip' = [chip EXCEPT !.EPKTCNT = @ - 1] /\ drv.pc = "count"
    BY <1>12 DEF CountPacket
  <2> QED
    BY <1>1, <2>1, OtherStepsKeep DEF DrvFields, ChipFields, Records, BankKnown, IInv
<1>13. CASE MainLoop
  BY <1>1, <1>13, OtherStepsKeep DEF MainLoop, DrvFields, Records, BankKnown, IInv
<1>14. CASE SendReady
  <2>1. drv.pc = "ready?" /\ ~chip.TXRTS /\ drv' = [drv EXCEPT !.pc = "write"] /\ chip' = chip
    BY <1>14 DEF SendReady, Busy
  <2> QED
    BY <1>1, <2>1
    DEF DrvFields, Records, BankKnown, SendingPrepared, TransmitUndisturbed, IInv
<1>15. CASE SendBusy
  <2>1. drv.pc # "reset"
    BY <1>15 DEF SendBusy
  <2> DEFINE D == GoTo("ready?", 0)
             C == InBank(chip, 0)
             rts == chip.TXRTS /\ ~MustReset(chip)
  <2>2. /\ D = [f \in DrvFields |-> D[f]] /\ D.pc = "ready?" /\ D.bank = 0
        /\ C = [f \in ChipFields |-> C[f]] /\ C.bank = 0
        /\ \A f \in ChipFields \ {"bank"} : C[f] = chip[f]
    BY <1>2, <2>1, BankSelected
  <2>3. /\ drv' = D
        /\ chip' = [C EXCEPT !.TXRTS = @ /\ ~MustReset(chip), !.stuck = @ /\ ~MustReset(chip)]
    BY <1>15 DEF SendBusy
  <2> HIDE DEF D, C
  <2>4. /\ chip' = [f \in ChipFields |-> chip'[f]] /\ chip'.bank = 0
        /\ chip'.buffer = chip.buffer /\ chip'.sending = chip.sending
    BY <2>2, <2>3 DEF ChipFields
  <2>5. chip'.TXRTS = (C.TXRTS /\ ~MustReset(chip))
    BY <2>2, <2>3, Zenon DEF ChipFields
  <2>6. C.TXRTS = chip.TXRTS
    BY <2>2 DEF ChipFields
  <2>7. chip'.TXRTS \in BOOLEAN /\ (chip'.TXRTS => chip.TXRTS)
    BY <2>5, <2>6
  <2> QED
    BY <1>1, <2>2, <2>3, <2>4, <2>7, OtherStepsKeep DEF Records, BankKnown
<1>16. CASE WriteFrame
  <2>1. drv.pc # "reset"
    BY <1>16 DEF WriteFrame
  <2> DEFINE D == GoTo("start", 0)
             C == InBank(chip, 0)
  <2>2. /\ D = [f \in DrvFields |-> D[f]] /\ D.pc = "start" /\ D.bank = 0
        /\ C = [f \in ChipFields |-> C[f]] /\ C.bank = 0
        /\ \A f \in ChipFields \ {"bank"} : C[f] = chip[f]
    BY <1>2, <2>1, BankSelected
  <2>3. /\ drv' = D
        /\ chip' = [C EXCEPT !.buffer = drv.out]
    BY <1>16 DEF WriteFrame
  <2>4. D.out = drv.out /\ drv.pc = "write"
    BY <1>2, <1>16, <2>1, BankSelected DEF WriteFrame
  <2> HIDE DEF D, C
  <2> QED
    BY <1>1, <2>2, <2>3, <2>4
    DEF ChipFields, Records, BankKnown, SendingPrepared, TransmitUndisturbed, IInv
<1>17. CASE StartSend
  <2>1. /\ drv.pc = "start" /\ drv' = [drv EXCEPT !.pc = "receive", !.out = "none"]
        /\ chip' = [chip EXCEPT !.TXRTS = TRUE, !.sending = drv.out]
    BY <1>17 DEF StartSend
  <2>2. chip.buffer = drv.out /\ drv.bank = chip.bank
    BY <2>1 DEF IInv, SendingPrepared, BankKnown
  <2>3. /\ Records' /\ drv'.pc = "receive" /\ drv'.bank = drv.bank /\ chip'.bank = chip.bank
        /\ chip'.buffer = chip.buffer /\ chip'.sending = drv.out
    BY <1>1, <2>1 DEF DrvFields, ChipFields, Records
  <2> QED
    BY <2>2, <2>3 DEF IInv, SendingPrepared, BankKnown, TransmitUndisturbed
<1>18. CASE ChipTransmits
  <2>1. /\ drv' = drv /\ chip' = [f \in ChipFields |-> chip'[f]]
        /\ chip'.bank = chip.bank /\ chip'.buffer = chip.buffer /\ chip'.sending = chip.sending
        /\ chip.TXRTS /\ chip'.TXRTS \in BOOLEAN
    BY <1>1, <1>18 DEF ChipTransmits, ChipFields
  <2> QED
    BY <1>1, <2>1 DEF IInv, Records, SendingPrepared, BankKnown, TransmitUndisturbed
<1>19. ASSUME NEW f \in EthFrames, ChipReceives(f)
       PROVE  IInv'
  <2>1. /\ drv' = drv
        /\ chip' = [chip EXCEPT !.mem = chip'.mem, !.ERXWRPT = NextFrame(chip, f), !.EPKTCNT = @ + 1]
    BY <1>1, <1>19 DEF ChipReceives, Stored, ChipFields
  <2>2. /\ chip' = [g \in ChipFields |-> chip'[g]]
        /\ chip'.bank = chip.bank /\ chip'.buffer = chip.buffer /\ chip'.sending = chip.sending
        /\ chip'.TXRTS = chip.TXRTS
    BY <1>1, <2>1 DEF ChipFields
  <2> QED
    BY <1>1, <2>1, <2>2 DEF IInv, Records, SendingPrepared, BankKnown, TransmitUndisturbed
<1>20. CASE Restart
  <2>1. /\ drv' = [f \in DrvFields |-> drv'[f]] /\ drv'.pc = "reset" /\ drv'.bank = 0 /\ chip' = chip
    BY <1>1, <1>20 DEF Restart, DrvFields
  <2> QED
    BY <1>1, <2>1, OtherStepsKeep DEF Records, BankKnown
<1> QED
  BY <1>3, <1>4, <1>5, <1>6, <1>7, <1>8, <1>9, <1>10, <1>11, <1>12, <1>13, <1>14, <1>15, <1>16,
     <1>17, <1>18, <1>19, <1>20
  DEF EthNext, DriverStep

LEMMA InitGood == EthInit => IInv
<1> SUFFICES ASSUME EthInit PROVE IInv
  OBVIOUS
<1>1. /\ drv = [f \in DrvFields |-> drv[f]] /\ drv.pc = "reset" /\ drv.bank = 0
      /\ chip = [f \in ChipFields |-> chip[f]] /\ chip.TXRTS = FALSE
  BY DEF EthInit, DrvFields, ChipFields
<1> QED
  BY <1>1 DEF IInv, Records, BankKnown, SendingPrepared, TransmitUndisturbed

\* The invariant holds in every state of every behaviour.
THEOREM InvariantHolds == EthSpec => []IInv
<1>1. IInv /\ UNCHANGED ethVars => IInv'
  BY DEF IInv, Records, BankKnown, SendingPrepared, TransmitUndisturbed, ethVars
<1> QED
  BY InitGood, StepGood, <1>1, PTL DEF EthSpec

-----------------------------------------------------------------------------
\* enc28j60PacketSend() never writes the transmit buffer while a frame is being
\* sent from it, whatever errors and restarts there are.
THEOREM BufferIsLeftAlone == EthSpec => []TransmitUndisturbed
BY InvariantHolds, PTL DEF IInv

\* After its first reset the driver accesses registers of the bank it means to:
\* the copy it keeps of the controller's bank selection is right, also when the
\* processor has started again without the controller.
THEOREM BankIsRight == EthSpec => [](drv.pc # "reset" => drv.bank = chip.bank)
<1>1. IInv => (drv.pc # "reset" => drv.bank = chip.bank)
  BY DEF IInv, BankKnown
<1> QED
  BY <1>1, InvariantHolds, PTL

-----------------------------------------------------------------------------
(* Forwarding: the incremental update of the header checksum is right, for *)
(* every header and every TTL; what a node sent is not sent again soon.    *)

\* The sum of the header words but the TTL's, which is never zero: the version
\* is one of them.
IsRest(rest) == rest \in Int /\ 1 <= rest /\ rest <= 65535

\* A packet whose header checksum is right.
Good(p) == p.sum = ChecksumOf(p.rest, p.ttl)

\* The checksum of a header is a word, and never all ones.
LEMMA ChecksumIsWord ==
    ASSUME NEW rest, IsRest(rest), NEW ttl \in 0 .. 255
    PROVE  /\ ChecksumOf(rest, ttl) \in Int
           /\ 0 <= ChecksumOf(rest, ttl) /\ ChecksumOf(rest, ttl) <= 65534
BY SMT DEF IsRest, ChecksumOf, OnesAdd

\* One less in the TTL is one more in the checksum, with the carry brought round
\* to the low end: for every header, and for the whole range of the TTL.
THEOREM UpdateIsRight ==
    ASSUME NEW rest, IsRest(rest), NEW ttl \in 1 .. 255
    PROVE  Updated(ChecksumOf(rest, ttl)) = ChecksumOf(rest, ttl - 1)
<1>1. CASE rest + ttl > 65535
  BY <1>1, SMT DEF IsRest, Updated, ChecksumOf, OnesAdd
<1>2. CASE rest + ttl <= 65535
  BY <1>2, SMT DEF IsRest, Updated, ChecksumOf, OnesAdd
<1> QED
  BY <1>1, <1>2, SMT DEF IsRest

\* A packet that is sent on has the right checksum if it came with it, and so
\* has it at every node it reaches.
THEOREM HopStaysGood ==
    ASSUME NEW fields, {"rest", "ttl", "sum"} \subseteq fields,
           NEW p, p = [f \in fields |-> p[f]],
           IsRest(p.rest), p.ttl \in 1 .. 255, Good(p)
    PROVE  Good(Hop(p))
<1>1. /\ Hop(p).rest = p.rest /\ Hop(p).ttl = p.ttl - 1
      /\ Hop(p).sum = Updated(p.sum)
  BY DEF Hop
<1>2. Updated(p.sum) = Updated(ChecksumOf(p.rest, p.ttl))
  BY Zenon DEF Good
<1>3. Updated(ChecksumOf(p.rest, p.ttl)) = ChecksumOf(p.rest, p.ttl - 1)
  BY UpdateIsRight
<1> QED
  BY <1>1, <1>2, <1>3, Zenon DEF Good

Key == [ipid : Word, src : Address, dst : Address, proto : Protos \cup {"none"}]
FwEntry == [timer : 0..FW_TIME, key : Key]
Cache == [1..FWCACHE_SIZE -> FwEntry]
Inboxes == [FwHosts -> Seq(FwPacket)]

FwTyped ==
    /\ fwcache \in [FwHosts -> Cache]
    /\ inbox \in Inboxes
    /\ unsent \subseteq FwTraffic
    /\ got \in [FwHosts -> SUBSET FwPacket]
    /\ last \in [FwHosts -> [key : Key, age : 0..FW_TIME]]

\* What a node sent last is in its cache until it is too old, with the time that is left.
LastIsCached ==
    \A n \in FwHosts : last[n].age < FW_TIME =>
        \E i \in 1..FWCACHE_SIZE : /\ fwcache[n][i].key = last[n].key
                                   /\ fwcache[n][i].timer = FW_TIME - last[n].age

FwInv == FwTyped /\ LastIsCached

Sent == INSTANCE FoldTheorems WITH Op <- Send
Registered == INSTANCE FoldTheorems WITH Op <- LAMBDA n, cache, p : Register(cache, p)

-----------------------------------------------------------------------------
PacketFields == {"ipid", "src", "dst", "ttl", "proto", "seqno", "data", "rest", "sum"}

LEMMA PacketHas ==
    ASSUME NEW p \in FwPacket
    PROVE  /\ p = [f \in PacketFields |-> p[f]]
           /\ p.ipid \in Word /\ p.src \in Address /\ p.dst \in Address
           /\ p.ttl \in 1..255 /\ p.proto \in Protos /\ p.seqno \in Nat
           /\ p.data \in Seq(Nat) /\ p.rest \in Word \ {0}
           /\ p.sum = ChecksumOf(p.rest, p.ttl)
<1>1. p = [f \in PacketFields |-> p[f]]
  BY DEF FwPacket, PacketFields
<1> QED
  BY <1>1 DEF FwPacket

LEMMA KeyIsKey ==
    ASSUME NEW p \in FwPacket
    PROVE  KeyOf(p) \in Key
BY PacketHas DEF KeyOf, Key

LEMMA SumIsWord ==
    ASSUME NEW rest, IsRest(rest), NEW ttl \in 0..255
    PROVE  ChecksumOf(rest, ttl) \in Word
BY ChecksumIsWord, SMT DEF Word

\* Small facts of arithmetic, for a prover that sees nothing else.
LEMMA TtlRange ==
    ASSUME NEW t \in Int, 1 <= t, t <= 255
    PROVE  t \in 1..255 /\ t \in 0..255
OBVIOUS

LEMMA TtlBounds ==
    ASSUME NEW t \in 1..255
    PROVE  t \in Int /\ 1 <= t /\ t <= 255
OBVIOUS

LEMMA HalfLength ==
    ASSUME NEW n \in Nat
    PROVE  n \div 2 \in 0..n /\ (n \div 2) + 1 \in 1..(n + 1)
<1>1. n \div 2 \in Int /\ 0 <= n \div 2 /\ n \div 2 <= n
  OBVIOUS
<1> QED
  BY <1>1

\* Any fields of the right types and a right checksum make a packet.
LEMMA MakesPacket ==
    ASSUME NEW p, p = [f \in PacketFields |-> p[f]],
           p.ipid \in Word, p.src \in Address, p.dst \in Address,
           p.ttl \in 1..255, p.proto \in Protos, p.seqno \in Nat,
           p.data \in Seq(Nat), p.rest \in Word \ {0},
           p.sum = ChecksumOf(p.rest, p.ttl)
    PROVE  p \in FwPacket
<1>1. p.sum \in Word
  <2>1. IsRest(p.rest)
    BY SMT DEF IsRest, Word
  <2>2. p.ttl \in 0..255
    BY TtlBounds, TtlRange
  <2> QED
    BY <2>1, <2>2, SumIsWord, Zenon
<1> QED
  BY <1>1 DEF FwPacket, PacketFields

LEMMA HopIsPacket ==
    ASSUME NEW p \in FwPacket, p.ttl > 1
    PROVE  Hop(p) \in FwPacket
<1>1. /\ p = [f \in PacketFields |-> p[f]]
      /\ p.ipid \in Word /\ p.src \in Address /\ p.dst \in Address
      /\ p.ttl \in 1..255 /\ p.proto \in Protos /\ p.seqno \in Nat
      /\ p.data \in Seq(Nat) /\ p.rest \in Word \ {0}
      /\ p.sum = ChecksumOf(p.rest, p.ttl)
  BY PacketHas
<1>2. /\ Hop(p) = [f \in PacketFields |-> Hop(p)[f]]
      /\ Hop(p).ipid = p.ipid /\ Hop(p).src = p.src /\ Hop(p).dst = p.dst
      /\ Hop(p).ttl = p.ttl - 1 /\ Hop(p).proto = p.proto /\ Hop(p).seqno = p.seqno
      /\ Hop(p).data = p.data /\ Hop(p).rest = p.rest
  BY <1>1 DEF Hop, PacketFields
<1>3. Hop(p).sum = ChecksumOf(Hop(p).rest, Hop(p).ttl)
  <2>1. IsRest(p.rest)
    BY <1>1, SMT DEF IsRest, Word
  <2>2. Good(p)
    BY <1>1 DEF Good
  <2>3. Good(Hop(p))
    BY <1>1, <2>1, <2>2, HopStaysGood DEF PacketFields
  <2> QED
    BY <2>3 DEF Good
<1>4. Hop(p).ttl \in 1..255
  <2> DEFINE t == p.ttl
  <2>1. t \in Int /\ 1 <= t /\ t <= 255 /\ t > 1
    BY <1>1, TtlBounds
  <2> HIDE DEF t
  <2>2. t - 1 \in Int /\ 1 <= t - 1 /\ t - 1 <= 255
    BY <2>1
  <2>3. Hop(p).ttl = t - 1
    BY <1>2 DEF t
  <2> QED
    BY <2>2, <2>3, TtlRange
<1> QED
  BY <1>1, <1>2, <1>3, <1>4, MakesPacket

LEMMA ErrorIsPacket ==
    ASSUME NEW p \in FwPacket, NEW n \in FwHosts, NEW rest \in FwRests
    PROVE  TimeExceeded(n, p, rest) \in FwPacket /\ TimeExceeded(n, p, rest).ttl > 1
<1> DEFINE q == TimeExceeded(n, p, rest)
<1>1. /\ p = [f \in PacketFields |-> p[f]]
      /\ p.ipid \in Word /\ p.src \in Address
  BY PacketHas
<1>2. /\ q = [f \in PacketFields |-> q[f]]
      /\ q.ipid = p.ipid /\ q.src = n /\ q.dst = p.src
      /\ q.ttl = UIP_TTL /\ q.proto = "icmp" /\ q.seqno = 0
      /\ q.data = <<>> /\ q.rest = rest
      /\ q.sum = ChecksumOf(q.rest, q.ttl)
  BY <1>1 DEF TimeExceeded, PacketFields
<1> HIDE DEF q
<1>3. UIP_TTL \in 1..255 /\ UIP_TTL > 1
  <2>1. UIP_TTL \in Int /\ 1 < UIP_TTL /\ UIP_TTL <= 255
    BY FwAssumption
  <2> QED
    BY <2>1, TtlRange
<1>4. "icmp" \in Protos /\ 0 \in Nat /\ <<>> \in Seq(Nat)
  BY DEF Protos
<1>5. n \in Address /\ rest \in Word \ {0}
  BY FwAssumption, FwWiring
<1>6. q \in FwPacket
  BY <1>1, <1>2, <1>3, <1>4, <1>5, MakesPacket
<1> QED
  BY <1>2, <1>3, <1>6 DEF q

LEMMA HalfIsPacket ==
    ASSUME NEW p \in FwPacket, NEW rest \in FwRests,
           NEW from \in 1..(Len(p.data) + 1), NEW to \in 0..Len(p.data)
    PROVE  Half(p, from, to, rest) \in FwPacket
<1> DEFINE q == Half(p, from, to, rest)
<1>1. /\ p = [f \in PacketFields |-> p[f]]
      /\ p.ipid \in Word /\ p.src \in Address /\ p.dst \in Address
      /\ p.ttl \in 1..255 /\ p.proto \in Protos /\ p.seqno \in Nat
      /\ p.data \in Seq(Nat)
  BY PacketHas
<1>2. /\ q = [f \in PacketFields |-> q[f]]
      /\ q.ipid = p.ipid /\ q.src = p.src /\ q.dst = p.dst
      /\ q.ttl = p.ttl /\ q.proto = p.proto /\ q.seqno = p.seqno + from - 1
      /\ q.data = SubSeq(p.data, from, to) /\ q.rest = rest
      /\ q.sum = ChecksumOf(q.rest, q.ttl)
  BY <1>1 DEF Half, PacketFields
<1>3. SubSeq(p.data, from, to) \in Seq(Nat)
  <2>1. from \in Int /\ to \in Int
    BY <1>1
  <2>2. \A i \in from .. to : p.data[i] \in Nat
    BY <1>1
  <2> QED
    BY <2>1, <2>2, SubSeqProperties
<1>4. p.seqno + from - 1 \in Nat
  BY <1>1
<1>5. rest \in Word \ {0}
  BY FwAssumption
<1> HIDE DEF q
<1> QED
  BY <1>1, <1>2, <1>3, <1>4, <1>5, MakesPacket DEF q

LEMMA SplitIsPackets ==
    ASSUME NEW p \in FwPacket, NEW rest1 \in FwRests, NEW rest2 \in FwRests
    PROVE  Split(p, rest1, rest2) \in Seq(FwPacket) /\ Split(p, rest1, rest2) # <<>>
<1>1. CASE Split(p, rest1, rest2) = <<p>>
  BY <1>1
<1>2. CASE Split(p, rest1, rest2) = <<Half(p, 1, FirstLen(p), rest1),
                                      Half(p, FirstLen(p) + 1, Len(p.data), rest2)>>
  <2>1. Len(p.data) \in Nat
    BY PacketHas
  <2>2. FirstLen(p) \in 0..Len(p.data) /\ FirstLen(p) + 1 \in 1..(Len(p.data) + 1)
    BY <2>1, HalfLength, Zenon DEF FirstLen
  <2>3. /\ Half(p, 1, FirstLen(p), rest1) \in FwPacket
        /\ Half(p, FirstLen(p) + 1, Len(p.data), rest2) \in FwPacket
    BY <2>1, <2>2, HalfIsPacket
  <2> QED
    BY <1>2, <2>3
<1> QED
  BY <1>1, <1>2 DEF Split

-----------------------------------------------------------------------------
LEMMA OutputIsSeq ==
    ASSUME NEW n \in FwHosts, NEW p
    PROVE  \E k \in Nat : DOMAIN GoesOutOn(n, p) = 1..k
<1>1. FwDefault[n] \in Seq(Netif) /\ FwRegistered[n] \in Seq(Netif)
  BY FwWiring
<1>2. CASE p.dst = Broadcast
  <2> DEFINE r == FwRegistered[n]
  <2>1. Len(r) \in Nat /\ \A i \in 1..Len(r) : r[Len(r) - i + 1] \in Netif
    <3>1. Len(r) \in Nat
      BY <1>1
    <3>2. \A i \in 1..Len(r) : Len(r) - i + 1 \in 1..Len(r)
      BY <3>1
    <3> QED
      BY <1>1, <3>1, <3>2, ElementOfSeq
  <2>2. Netifs(n) \in Seq(Netif)
    BY <2>1, SeqDef DEF Netifs, Reverse
  <2>3. FwDefault[n] \o Netifs(n) \in Seq(Netif)
    BY <1>1, <2>2, ConcatProperties
  <2>4. GoesOutOn(n, p) \in Seq(Netif)
    BY <1>2, <2>3, Zenon DEF GoesOutOn
  <2> HIDE DEF r
  <2> QED
    BY <2>4, LenProperties
<1>3. CASE p.dst # Broadcast
  <2>1. GoesOutOn(n, p) = FindNetif(n, p.dst)
    BY <1>3, Zenon DEF GoesOutOn
  <2>2. CASE FindNetif(n, p.dst) = FwDefault[n]
    BY <1>1, <2>1, <2>2, LenProperties
  <2>3. CASE FindNetif(n, p.dst) = <<Head(Matching(n, p.dst))>>
    BY <2>1, <2>3
  <2> QED
    BY <2>2, <2>3, Zenon DEF FindNetif
<1> QED
  BY <1>2, <1>3

\* How many of the interfaces lead to node m.
Copies(n, p, m) ==
    LET ways == GoesOutOn(n, p) IN Cardinality({i \in DOMAIN ways : ways[i].to = m})

LEMMA CopiesAreCounted ==
    ASSUME NEW n \in FwHosts, NEW p, NEW m
    PROVE  Copies(n, p, m) \in Nat
<1> DEFINE ways == GoesOutOn(n, p)
           S == {i \in DOMAIN ways : ways[i].to = m}
<1>1. PICK k \in Nat : DOMAIN ways = 1..k
  BY OutputIsSeq, Zenon
<1>2. S \subseteq 1..k
  BY <1>1
<1>3. IsFiniteSet(1..k)
  BY FS_Interval
<1> HIDE DEF S
<1>4. IsFiniteSet(S)
  BY <1>2, <1>3, FS_Subset
<1>5. Cardinality(S) \in Nat
  BY <1>4, FS_CardinalityType
<1> QED
  BY <1>5, Zenon DEF S, Copies

\* What is sent comes behind what is there.
LEMMA SendGrows ==
    ASSUME NEW n \in FwHosts, NEW box \in Inboxes, NEW p \in FwPacket
    PROVE  /\ Send(n, box, p) \in Inboxes
           /\ \A m \in FwHosts : Len(Send(n, box, p)[m]) >= Len(box[m])
<1> DEFINE new(m) == [i \in 1..Copies(n, p, m) |-> p]
<1>1. Send(n, box, p) = [m \in FwHosts |-> box[m] \o new(m)]
  BY DEF Send, Copies
<1>2. ASSUME NEW m \in FwHosts
      PROVE  box[m] \o new(m) \in Seq(FwPacket) /\ Len(box[m] \o new(m)) >= Len(box[m])
  <2>1. Copies(n, p, m) \in Nat
    BY CopiesAreCounted, Zenon
  <2>2. new(m) \in Seq(FwPacket)
    BY <2>1, SeqDef
  <2>3. box[m] \in Seq(FwPacket)
    BY DEF Inboxes
  <2> HIDE DEF new
  <2>4. /\ box[m] \o new(m) \in Seq(FwPacket)
        /\ Len(box[m] \o new(m)) = Len(box[m]) + Len(new(m))
        /\ Len(box[m]) \in Nat /\ Len(new(m)) \in Nat
    BY <2>2, <2>3, ConcatProperties, LenProperties
  <2> QED
    BY <2>4
<1> HIDE DEF new
<1> QED
  BY <1>1, <1>2, Zenon DEF Inboxes

-----------------------------------------------------------------------------
LEMMA RegisterKeepsCache ==
    ASSUME NEW cache \in Cache, NEW p \in FwPacket
    PROVE  Register(cache, p) \in Cache
<1>1. KeyOf(p) \in Key
  BY KeyIsKey
<1>2. FW_TIME \in 0..FW_TIME
  BY FwAssumption
<1>3. [timer |-> FW_TIME, key |-> KeyOf(p)] \in FwEntry
  BY <1>1, <1>2 DEF FwEntry
<1>4. ASSUME NEW i \in 1..FWCACHE_SIZE
      PROVE  cache[i] \in FwEntry
  BY DEF Cache
<1> QED
  BY <1>3, <1>4, Zenon DEF Register, Cache

\* There is always an entry to use.
LEMMA SlotIsThere ==
    ASSUME NEW cache \in Cache
    PROVE  \E i \in 1..FWCACHE_SIZE : IsSlot(cache, i)
<1> DEFINE TimerAt(i) == cache[i].timer
           Unused == {i \in 1..FWCACHE_SIZE : TimerAt(i) = 0}
           Ages == {TimerAt(i) : i \in 1..FWCACHE_SIZE}
<1>0. FWCACHE_SIZE \in Nat /\ 1 \in 1..FWCACHE_SIZE
  BY FwAssumption
<1>1. ASSUME NEW i \in 1..FWCACHE_SIZE
      PROVE  TimerAt(i) \in Nat
  BY FwAssumption DEF Cache, FwEntry
<1>2. CASE Unused # {}
  <2>0. Unused \subseteq Nat
    BY <1>0
  <2>1. PICK i \in Unused : \A j \in Unused : i <= j
    <3> HIDE DEF Unused
    <3> QED
      BY <1>2, <2>0, Sent!LeastIsThere
  <2>2. ASSUME NEW j \in 1..(i - 1)
        PROVE  TimerAt(j) # 0
    BY <2>1, <1>0
  <2> QED
    BY <2>1, <2>2 DEF IsSlot
<1>3. CASE Unused = {}
  <2>1. Ages \subseteq Nat /\ Ages # {}
    BY <1>0, <1>1
  <2>2. PICK t \in Ages : \A u \in Ages : t <= u
    BY <2>1, Sent!LeastIsThere
  <2> DEFINE Longest == {i \in 1..FWCACHE_SIZE : TimerAt(i) = t}
  <2>3. Longest \in SUBSET (1..FWCACHE_SIZE) /\ Longest # {}
    BY <2>2
  <2>4. PICK i \in Longest : \A j \in Longest : i >= j
    BY <2>3, <1>0, Sent!MaxIsThere
  <2>5. ASSUME NEW j \in 1..FWCACHE_SIZE
        PROVE  TimerAt(j) # 0 /\ TimerAt(i) <= TimerAt(j)
    BY <1>3, <2>2, <2>4
  <2>6. ASSUME NEW j \in (i + 1)..FWCACHE_SIZE
        PROVE  TimerAt(i) < TimerAt(j)
    <3>1. j \in 1..FWCACHE_SIZE /\ j > i /\ i \in Nat
      BY <2>4, <1>0
    <3>2. TimerAt(j) # t
      BY <3>1, <2>4
    <3>3. TimerAt(i) = t /\ TimerAt(i) <= TimerAt(j) /\ TimerAt(i) \in Nat /\ TimerAt(j) \in Nat
      BY <3>1, <2>4, <2>5, <1>1
    <3> HIDE DEF Timer
    <3> QED
      BY <3>2, <3>3
  <2> QED
    BY <2>4, <2>5, <2>6 DEF IsSlot
<1> QED
  BY <1>2, <1>3

-----------------------------------------------------------------------------
\* uip_fw_output() as the folds FoldTheorems speaks of.
LEMMA OutputFolds ==
    ASSUME NEW n, NEW box, NEW ps, Output(n, box, ps)
    PROVE  /\ inbox' = Sent!Folded(n, box, ps)
           /\ fwcache' = [fwcache EXCEPT ![n] = Registered!Folded(n, @, ps)]
<1>1. inbox' = Sent!Folded(n, box, ps)
  BY DEF Output, Sent!Folded, Sent!FoldLeft, FoldLeft, Sent!MapThenFoldSet, MapThenFoldSet,
         Sent!Max, Max
<1>2. fwcache' = [fwcache EXCEPT ![n] = Registered!Folded(n, @, ps)]
  BY DEF Output, Registered!Folded, Registered!FoldLeft, FoldLeft,
         Registered!MapThenFoldSet, MapThenFoldSet, Registered!Max, Max
<1> QED
  BY <1>1, <1>2

LEMMA OutputGrows ==
    ASSUME NEW n \in FwHosts, NEW box \in Inboxes, NEW ps \in Seq(FwPacket),
           Output(n, box, ps)
    PROVE  inbox' \in Inboxes /\ \A m \in FwHosts : Len(inbox'[m]) >= Len(box[m])
<1> DEFINE Grown == {b \in Inboxes : \A m \in FwHosts : Len(b[m]) >= Len(box[m])}
<1>1. box \in Grown
  <2>1. \A m \in FwHosts : Len(box[m]) \in Nat
    BY LenProperties DEF Inboxes
  <2> QED
    BY <2>1
<1>2. ASSUME NEW b \in Grown, NEW p \in FwPacket
      PROVE  Send(n, b, p) \in Grown
  <2>1. /\ Send(n, b, p) \in Inboxes
        /\ \A m \in FwHosts : Len(Send(n, b, p)[m]) >= Len(b[m])
    BY SendGrows
  <2>2. \A m \in FwHosts : /\ Len(box[m]) \in Nat /\ Len(b[m]) \in Nat
                           /\ Len(Send(n, b, p)[m]) \in Nat
    BY <2>1, LenProperties DEF Inboxes
  <2> QED
    BY <2>1, <2>2
<1> HIDE DEF Grown
<1>3. Sent!Folded(n, box, ps) \in Grown
  BY <1>1, <1>2, Sent!FoldLeftStays, Zenon
<1> QED
  BY <1>3, OutputFolds, Zenon DEF Grown

\* The cache knows what the node sent last.
LEMMA OutputIsCached ==
    ASSUME FwInv, NEW n \in FwHosts, NEW box, NEW ps \in Seq(FwPacket),
           Output(n, box, ps)
    PROVE  /\ fwcache' \in [FwHosts -> Cache]
           /\ last' \in [FwHosts -> [key : Key, age : 0..FW_TIME]]
           /\ LastIsCached'
           /\ \A m \in FwHosts : m # n => last'[m] = last[m]
<1> DEFINE new == Registered!Folded(n, fwcache[n], ps)
<1>0. /\ fwcache \in [FwHosts -> Cache] /\ LastIsCached
      /\ last \in [FwHosts -> [key : Key, age : 0..FW_TIME]]
  BY DEF FwInv, FwTyped
<1>1. fwcache' = [fwcache EXCEPT ![n] = new]
  BY <1>0, OutputFolds, Zenon
<1>2. \A x \in Cache, e \in FwPacket : Register(x, e) \in Cache
  BY RegisterKeepsCache
<1>3. new \in Cache
  BY <1>0, <1>2, Registered!FoldLeftStays
<1>4. fwcache' \in [FwHosts -> Cache]
  BY <1>0, <1>1, <1>3, Zenon
<1>5. FW_TIME \in Nat /\ 0 \in 0..FW_TIME
  BY FwAssumption
<1>6. CASE ps = <<>>
  <2>1. last' = last
    BY <1>6 DEF Output
  <2>2. new = fwcache[n]
    <3>1. PICK f : Registered!IsHistory(n, f, fwcache[n], ps)
      BY Registered!FoldLeftSteps, Zenon
    <3>2. Len(ps) = 0
      BY <1>6
    <3> QED
      BY <3>1, <3>2, Zenon DEF Registered!IsHistory
  <2>3. fwcache' = fwcache
    BY <1>0, <1>1, <2>2, Zenon
  <2> QED
    BY <1>0, <2>1, <2>3, Zenon DEF LastIsCached
<1>7. CASE ps # <<>>
  <2> DEFINE p == ps[Len(ps)]
             now == [key |-> KeyOf(p), age |-> 0]
  <2>1. last' = [last EXCEPT ![n] = now]
    BY <1>7 DEF Output
  <2>2. p \in FwPacket
    BY <1>7
  <2>3. now \in [key : Key, age : 0..FW_TIME]
    BY <1>5, <2>2, KeyIsKey
  <2>4. last' \in [FwHosts -> [key : Key, age : 0..FW_TIME]]
    BY <1>0, <2>1, <2>3, Zenon
  <2>5. PICK x \in Cache : new = Register(x, p)
    <3>1. fwcache[n] \in Cache
      BY <1>0
    <3> HIDE <1>0
    <3> QED
      BY <3>1, <1>2, <1>7, Registered!FoldLeftEnds
  <2>6. PICK i \in 1..FWCACHE_SIZE : IsSlot(x, i)
    BY SlotIsThere
  <2>7. new[i] = [timer |-> FW_TIME, key |-> KeyOf(p)]
    BY <2>5, <2>6, Zenon DEF Register
  <2> HIDE DEF new, p
  <2>8. fwcache'[n][i].key = last'[n].key /\ fwcache'[n][i].timer = FW_TIME - last'[n].age
    <3>1. fwcache'[n] = new
      BY <1>0, <1>1, Zenon
    <3>2. last'[n] = now
      BY <1>0, <2>1, Zenon
    <3> QED
      BY <3>1, <3>2, <2>7, <1>5
  <2>9. \A m \in FwHosts : m # n => last'[m] = last[m] /\ fwcache'[m] = fwcache[m]
    BY <1>0, <1>1, <2>1, Zenon
  <2>10. LastIsCached'
    <3> SUFFICES ASSUME NEW m \in FwHosts, last'[m].age < FW_TIME
                 PROVE  \E j \in 1..FWCACHE_SIZE :
                            /\ fwcache'[m][j].key = last'[m].key
                            /\ fwcache'[m][j].timer = FW_TIME - last'[m].age
      BY Zenon DEF LastIsCached
    <3>1. CASE m = n
      BY <3>1, <2>8, Zenon
    <3>2. CASE m # n
      BY <3>2, <2>9, <1>0, Zenon DEF LastIsCached
    <3> QED
      BY <3>1, <3>2
  <2> QED
    BY <1>4, <2>4, <2>9, <2>10, Zenon
<1> QED
  BY <1>6, <1>7

-----------------------------------------------------------------------------
\* The steps.
LEMMA HeadIsPacket ==
    ASSUME FwTyped, NEW n \in FwHosts, inbox[n] # <<>>
    PROVE  /\ Head(inbox[n]) \in FwPacket
           /\ Take(n) \in Inboxes
           /\ Len(inbox[n]) \in Nat \ {0} /\ Len(Tail(inbox[n])) = Len(inbox[n]) - 1
<1>1. inbox \in Inboxes /\ inbox[n] \in Seq(FwPacket)
  BY DEF FwTyped, Inboxes
<1>2. /\ Head(inbox[n]) \in FwPacket /\ Tail(inbox[n]) \in Seq(FwPacket)
      /\ Len(inbox[n]) \in Nat \ {0} /\ Len(Tail(inbox[n])) = Len(inbox[n]) - 1
  BY <1>1, HeadTailProperties, EmptySeq
<1>3. Take(n) \in Inboxes
  BY <1>1, <1>2, Zenon DEF Take, Inboxes
<1> QED
  BY <1>2, <1>3

LEMMA SendStep ==
    ASSUME FwInv, NEW n \in FwHosts, FwSend(n)
    PROVE  FwInv'
<1>1. PICK t \in unsent, rest1 \in FwRests, rest2 \in FwRests :
        /\ unsent' = unsent \ {t}
        /\ Output(n, inbox, Split(t.packet, rest1, rest2))
        /\ got' = got
  BY Zenon DEF FwSend
<1>2. t.packet \in FwPacket
  BY FwTrafficAssumption DEF FwInv, FwTyped
<1>3. Split(t.packet, rest1, rest2) \in Seq(FwPacket)
  BY <1>2, SplitIsPackets
<1>4. inbox \in Inboxes
  BY DEF FwInv, FwTyped
<1>5. inbox' \in Inboxes
  BY <1>1, <1>3, <1>4, OutputGrows
<1>6. /\ fwcache' \in [FwHosts -> Cache] /\ LastIsCached'
      /\ last' \in [FwHosts -> [key : Key, age : 0..FW_TIME]]
  BY <1>1, <1>3, OutputIsCached
<1>7. unsent' \subseteq FwTraffic /\ got' \in [FwHosts -> SUBSET FwPacket]
  BY <1>1, Zenon DEF FwInv, FwTyped
<1> QED
  BY <1>5, <1>6, <1>7 DEF FwInv, FwTyped

LEMMA LocalStep ==
    ASSUME FwInv, NEW n \in FwHosts, FwLocal(n)
    PROVE  FwInv'
<1>1. Head(inbox[n]) \in FwPacket /\ inbox' \in Inboxes
  BY HeadIsPacket DEF FwInv, FwLocal
<1>2. got' = [got EXCEPT ![n] = @ \cup {Head(inbox[n])}]
  BY Zenon DEF FwLocal
<1>3. got \in [FwHosts -> SUBSET FwPacket]
  BY DEF FwInv, FwTyped
<1>4. got' \in [FwHosts -> SUBSET FwPacket]
  BY <1>1, <1>2, <1>3
<1>5. UNCHANGED <<fwcache, unsent, last>>
  BY DEF FwLocal
<1> QED
  BY <1>1, <1>4, <1>5 DEF FwInv, FwTyped, LastIsCached

LEMMA DuplicateStep ==
    ASSUME FwInv, NEW n \in FwHosts, FwDuplicate(n)
    PROVE  FwInv'
<1>1. inbox' \in Inboxes
  BY HeadIsPacket DEF FwInv, FwDuplicate
<1>2. UNCHANGED <<fwcache, unsent, got, last>>
  BY DEF FwDuplicate
<1> QED
  BY <1>1, <1>2 DEF FwInv, FwTyped, LastIsCached

LEMMA ForwardStep ==
    ASSUME FwInv, NEW n \in FwHosts, FwForward(n)
    PROVE  FwInv'
<1> DEFINE p == Head(inbox[n])
<1>1. p \in FwPacket /\ Take(n) \in Inboxes
  BY HeadIsPacket DEF FwInv, FwForward
<1>2. /\ p.ttl > 1
      /\ Output(n, Take(n), <<Hop(p)>>)
      /\ got' = IF p.dst = Broadcast THEN [got EXCEPT ![n] = @ \cup {Hop(p)}] ELSE got
      /\ unsent' = unsent
  BY Zenon DEF FwForward
<1> HIDE DEF p
<1>3. Hop(p) \in FwPacket
  BY <1>1, <1>2, HopIsPacket
<1>4. <<Hop(p)>> \in Seq(FwPacket)
  BY <1>3
<1>5. inbox' \in Inboxes
  BY <1>1, <1>2, <1>4, OutputGrows
<1>6. /\ fwcache' \in [FwHosts -> Cache] /\ LastIsCached'
      /\ last' \in [FwHosts -> [key : Key, age : 0..FW_TIME]]
  BY <1>2, <1>4, OutputIsCached
<1>7. got' \in [FwHosts -> SUBSET FwPacket]
  <2>1. got \in [FwHosts -> SUBSET FwPacket]
    BY DEF FwInv, FwTyped
  <2> QED
    BY <1>2, <1>3, <2>1
<1>8. unsent' \subseteq FwTraffic
  BY <1>2 DEF FwInv, FwTyped
<1> QED
  BY <1>5, <1>6, <1>7, <1>8 DEF FwInv, FwTyped

LEMMA ExpireStep ==
    ASSUME FwInv, NEW n \in FwHosts, FwExpire(n)
    PROVE  FwInv'
<1> DEFINE p == Head(inbox[n])
<1>1. p \in FwPacket /\ Take(n) \in Inboxes
  BY HeadIsPacket DEF FwInv, FwExpire
<1>2. PICK rest \in FwRests :
        Output(n, Take(n), IF NoError(p) THEN <<>> ELSE <<Hop(TimeExceeded(n, p, rest))>>)
  BY Zenon DEF FwExpire
<1>3. UNCHANGED <<unsent, got>>
  BY DEF FwExpire
<1> HIDE DEF p
<1> DEFINE ps == IF NoError(p) THEN <<>> ELSE <<Hop(TimeExceeded(n, p, rest))>>
<1>4. ps \in Seq(FwPacket)
  <2>1. Hop(TimeExceeded(n, p, rest)) \in FwPacket
    BY <1>1, ErrorIsPacket, HopIsPacket
  <2> QED
    BY <2>1
<1> HIDE DEF ps
<1>5. Output(n, Take(n), ps)
  BY <1>2, Zenon DEF ps
<1>6. inbox' \in Inboxes
  BY <1>1, <1>4, <1>5, OutputGrows
<1>7. /\ fwcache' \in [FwHosts -> Cache] /\ LastIsCached'
      /\ last' \in [FwHosts -> [key : Key, age : 0..FW_TIME]]
  BY <1>4, <1>5, OutputIsCached
<1> QED
  BY <1>3, <1>6, <1>7 DEF FwInv, FwTyped

\* The timer of an entry after uip_fw_periodic(), and the age of what was sent last.
LessTimer(t) == IF t > 0 THEN t - 1 ELSE 0
MoreAge(a) == IF a < FW_TIME THEN a + 1 ELSE a

LEMMA OlderIsEntry ==
    ASSUME NEW e \in FwEntry
    PROVE  Older(e) \in FwEntry /\ Older(e).key = e.key /\ Older(e).timer = LessTimer(e.timer)
<1>1. LessTimer(e.timer) \in 0..FW_TIME
  BY FwAssumption DEF FwEntry, LessTimer
<1> QED
  BY <1>1 DEF FwEntry, Older, LessTimer

LEMMA PeriodicStep ==
    ASSUME FwInv, NEW n \in FwHosts, FwPeriodic(n)
    PROVE  FwInv'
<1> DEFINE Memory == [key : Key, age : 0..FW_TIME]
           new == [i \in 1..FWCACHE_SIZE |-> Older(fwcache[n][i])]
           now == [last[n] EXCEPT !.age = MoreAge(@)]
<1>0. /\ fwcache \in [FwHosts -> Cache] /\ LastIsCached /\ last \in [FwHosts -> Memory]
  BY DEF FwInv, FwTyped
<1>1. fwcache' = [fwcache EXCEPT ![n] = new]
  BY Zenon DEF FwPeriodic
<1>2. last' = [last EXCEPT ![n] = now]
  BY <1>0 DEF FwPeriodic, MoreAge
<1>3. \A i \in 1..FWCACHE_SIZE : fwcache[n][i] \in FwEntry
  BY <1>0 DEF Cache
<1>4. new \in Cache
  BY <1>3, OlderIsEntry, Zenon DEF Cache
<1>5. last[n] \in Memory
  BY <1>0
<1>6. MoreAge(last[n].age) \in 0..FW_TIME
  <2>1. last[n].age \in 0..FW_TIME
    BY <1>5
  <2> QED
    BY <2>1, FwAssumption DEF MoreAge
<1>7. now \in Memory /\ now.key = last[n].key /\ now.age = MoreAge(last[n].age)
  BY <1>5, <1>6
<1> HIDE DEF new, now, Memory
<1>8. fwcache' \in [FwHosts -> Cache] /\ last' \in [FwHosts -> Memory]
  BY <1>0, <1>1, <1>2, <1>4, <1>7, Zenon
<1>9. LastIsCached'
  <2> SUFFICES ASSUME NEW m \in FwHosts, last'[m].age < FW_TIME
               PROVE  \E j \in 1..FWCACHE_SIZE :
                          /\ fwcache'[m][j].key = last'[m].key
                          /\ fwcache'[m][j].timer = FW_TIME - last'[m].age
    BY Zenon DEF LastIsCached
  <2>1. CASE m # n
    <3>1. last'[m] = last[m] /\ fwcache'[m] = fwcache[m]
      BY <2>1, <1>0, <1>1, <1>2, Zenon
    <3> QED
      BY <3>1, <1>0, Zenon DEF LastIsCached
  <2>2. CASE m = n
    <3>1. last'[m] = now /\ fwcache'[m] = new
      BY <2>2, <1>0, <1>1, <1>2, Zenon
    <3> DEFINE a == last[n].age
    <3>2. a \in Int /\ 0 <= a
      BY <1>5 DEF Memory
    <3>3. FW_TIME \in Int
      BY FwAssumption
    <3>4. MoreAge(a) < FW_TIME
      BY <3>1, <1>7, Zenon
    <3> HIDE DEF a
    <3>5. a < FW_TIME /\ MoreAge(a) = a + 1
      BY <3>2, <3>3, <3>4 DEF MoreAge
    <3>6. PICK j \in 1..FWCACHE_SIZE : /\ fwcache[n][j].key = last[n].key
                                      /\ fwcache[n][j].timer = FW_TIME - a
      BY <3>5, <1>0, Zenon DEF LastIsCached, a
    <3>7. new[j] = Older(fwcache[n][j]) /\ fwcache[n][j] \in FwEntry
      BY <1>3, Zenon DEF new
    <3>8. new[j].key = last[n].key /\ new[j].timer = LessTimer(FW_TIME - a)
      BY <3>6, <3>7, OlderIsEntry, Zenon
    <3>9. LessTimer(FW_TIME - a) = FW_TIME - MoreAge(a)
      BY <3>2, <3>3, <3>5 DEF LessTimer
    <3> QED
      BY <3>1, <3>8, <3>9, <1>7, Zenon DEF a
  <2> QED
    BY <2>1, <2>2
<1>10. UNCHANGED <<inbox, unsent, got>>
  BY DEF FwPeriodic
<1> QED
  BY <1>8, <1>9, <1>10 DEF FwInv, FwTyped, Memory

LEMMA FwInitGood == FwInit => FwInv
<1> SUFFICES ASSUME FwInit
             PROVE  FwInv
  OBVIOUS
<1>1. NoKey \in Key
  BY SMT DEF NoKey, Key, Address, Word
<1>2. FW_TIME \in Nat /\ 0 \in 0..FW_TIME /\ FW_TIME \in 0..FW_TIME
  BY FwAssumption
<1>3. [timer |-> 0, key |-> NoKey] \in FwEntry
  BY <1>1, <1>2 DEF FwEntry
<1>4. fwcache \in [FwHosts -> Cache]
  BY <1>3, Zenon DEF FwInit, Cache
<1>5. inbox \in Inboxes /\ got \in [FwHosts -> SUBSET FwPacket] /\ unsent \subseteq FwTraffic
  BY DEF FwInit, Inboxes
<1>6. [key |-> NoKey, age |-> FW_TIME] \in [key : Key, age : 0..FW_TIME]
  BY <1>1, <1>2
<1>7. last \in [FwHosts -> [key : Key, age : 0..FW_TIME]]
  BY <1>6, Zenon DEF FwInit
<1>8. \A n \in FwHosts : last[n].age = FW_TIME
  BY DEF FwInit
<1>9. LastIsCached
  BY <1>2, <1>8 DEF LastIsCached
<1> QED
  BY <1>4, <1>5, <1>7, <1>9 DEF FwInv, FwTyped

LEMMA FwStepGood == FwInv /\ [FwNext]_fwVars => FwInv'
<1> SUFFICES ASSUME FwInv, [FwNext]_fwVars
             PROVE  FwInv'
  OBVIOUS
<1>1. CASE UNCHANGED fwVars
  BY <1>1 DEF fwVars, FwInv, FwTyped, LastIsCached
<1>2. CASE FwNext
  <2>1. PICK n \in FwHosts : FwSend(n) \/ Arrival(n) \/ FwPeriodic(n)
    BY <1>2 DEF FwNext
  <2> QED
    BY <2>1, SendStep, LocalStep, DuplicateStep, ForwardStep, ExpireStep, PeriodicStep, Zenon
    DEF Arrival
<1> QED
  BY <1>1, <1>2

THEOREM FwInvariantHolds == FwSpec => []FwInv
<1>1. FwInit => FwInv
  BY FwInitGood
<1>2. FwInv /\ [FwNext]_fwVars => FwInv'
  BY FwStepGood
<1> QED
  BY <1>1, <1>2, PTL DEF FwSpec

LEMMA AllArePackets == FwTyped => Everywhere \subseteq FwPacket
<1> SUFFICES ASSUME FwTyped, NEW p \in Everywhere
             PROVE  p \in FwPacket
  OBVIOUS
<1>1. PICK n \in FwHosts : p \in got[n] \cup ToSet(inbox[n])
  BY DEF Everywhere
<1>2. got[n] \subseteq FwPacket /\ inbox[n] \in Seq(FwPacket)
  BY DEF FwTyped, Inboxes
<1>3. ToSet(inbox[n]) \subseteq FwPacket
  BY <1>2 DEF ToSet
<1> QED
  BY <1>1, <1>2, <1>3

\* The header checksum of every packet stays right, over any number of hops,
\* through any wiring and whatever is sent.
THEOREM ChecksumsAreRight == FwSpec => []ChecksumStaysRight
<1>1. FwInv => ChecksumStaysRight
  BY AllArePackets, PacketHas DEF FwInv, ChecksumStaysRight
<1> QED
  BY <1>1, FwInvariantHolds, PTL

LEMMA FwTypesHold == FwInv => FwTypeOK
<1> SUFFICES ASSUME FwInv
             PROVE  FwTypeOK
  OBVIOUS
<1>1. ASSUME NEW n \in FwHosts, NEW i \in 1..FWCACHE_SIZE
      PROVE  fwcache[n][i].timer \in 0..FW_TIME
  <2>1. fwcache[n] \in Cache
    BY DEF FwInv, FwTyped
  <2>2. fwcache[n][i] \in FwEntry
    BY <2>1 DEF Cache
  <2> QED
    BY <2>2 DEF FwEntry
<1>2. ASSUME NEW n \in FwHosts
      PROVE  last[n].age \in 0..FW_TIME
  BY DEF FwInv, FwTyped
<1>3. unsent \subseteq FwTraffic
  BY DEF FwInv, FwTyped
<1>4. \A p \in Everywhere : p.ttl \in 1..255
  BY AllArePackets, PacketHas DEF FwInv
<1> QED
  BY <1>1, <1>2, <1>3, <1>4 DEF FwTypeOK

\* A packet that comes back is not sent on, as long as it is the one the node
\* sent last and the cache is to remember it.
LEMMA ArrivalIsKnown ==
    ASSUME FwInv, NEW n \in FwHosts, inbox[n] # <<>>,
           KeyOf(Head(inbox[n])) = last[n].key, last[n].age < FW_TIME
    PROVE  InCache(n, Head(inbox[n]))
<1>1. PICK i \in 1..FWCACHE_SIZE : /\ fwcache[n][i].key = last[n].key
                                  /\ fwcache[n][i].timer = FW_TIME - last[n].age
  BY Zenon DEF FwInv, LastIsCached
<1>2. last[n].age \in Int /\ FW_TIME \in Int
  BY FwAssumption DEF FwInv, FwTyped
<1>3. FW_TIME - last[n].age # 0
  BY <1>2
<1> QED
  BY <1>1, <1>3, Zenon DEF InCache, Remembers

\* Whatever the wiring, and whatever the cache had to throw away, a packet that
\* a node cannot tell from the one it sent last within FW_TIME periods, also at
\* once, makes it send nothing.
THEOREM NoLoopAtOnce == FwSpec => NotTwiceRunning
<1> DEFINE A == \A n \in FwHosts :
          Arrival(n) /\ KeyOf(Head(inbox[n])) = last[n].key /\ last[n].age < FW_TIME
          => inbox' = Take(n)
<1>1. FwInv => A
  <2> SUFFICES ASSUME FwInv, NEW n \in FwHosts, Arrival(n),
                      KeyOf(Head(inbox[n])) = last[n].key, last[n].age < FW_TIME
               PROVE  inbox' = Take(n)
    BY Zenon
  <2>1. inbox[n] # <<>>
    BY DEF Arrival, FwLocal, FwDuplicate, FwForward, FwExpire
  <2>2. InCache(n, Head(inbox[n]))
    BY <2>1, ArrivalIsKnown
  <2>3. FwLocal(n) \/ FwDuplicate(n)
    BY <2>2, Zenon DEF Arrival, FwForward, FwExpire
  <2> QED
    BY <2>3, Zenon DEF FwLocal, FwDuplicate
<1>2. FwInv /\ [FwNext]_fwVars => [A]_fwVars
  BY <1>1, Zenon
<1> QED
  BY <1>2, FwInvariantHolds, PTL DEF FwSpec, NotTwiceRunning

-----------------------------------------------------------------------------
(* The neighbour table: which entry a new neighbour gets.                  *)

Neighbor == [ipaddr : NeighborIps \cup {NoIp}, addr : NeighborAddrs \cup {NoAddr},
             time : 0..MAX_TIME]

LEMMA NeighborInitGood == NeighborInit => NeighborTypeOK
<1> SUFFICES ASSUME NeighborInit PROVE NeighborTypeOK
  OBVIOUS
<1>1. MAX_TIME \in 0..MAX_TIME
  BY NeighborAssumption
<1>2. [ipaddr |-> NoIp, addr |-> NoAddr, time |-> MAX_TIME] \in Neighbor
  BY <1>1 DEF Neighbor
<1> QED
  BY <1>2 DEF NeighborInit, NeighborTypeOK, Neighbor

LEMMA NeighborStepGood == NeighborTypeOK /\ [NeighborNext]_neighbors => NeighborTypeOK'
<1> SUFFICES ASSUME NeighborTypeOK, [NeighborNext]_neighbors PROVE NeighborTypeOK'
  OBVIOUS
<1>1. neighbors \in [Slots -> Neighbor] /\ 0 \in 0..MAX_TIME
  BY NeighborAssumption DEF NeighborTypeOK, Neighbor
<1>2. ASSUME NEW ip \in NeighborIps, NEW addr \in NeighborAddrs, uip_neighbor_add(ip, addr)
      PROVE  neighbors' \in [Slots -> Neighbor]
  <2>1. PICK i \in Slots :
            neighbors' = [neighbors EXCEPT ![i] = [ipaddr |-> ip, addr |-> addr, time |-> 0]]
    BY <1>2 DEF uip_neighbor_add
  <2>2. [ipaddr |-> ip, addr |-> addr, time |-> 0] \in Neighbor
    BY <1>1 DEF Neighbor
  <2> QED
    BY <1>1, <2>1, <2>2
<1>3. ASSUME NEW ip \in NeighborIps, uip_neighbor_update(ip)
      PROVE  neighbors' \in [Slots -> Neighbor]
  <2>1. PICK i \in Slots : neighbors' = [neighbors EXCEPT ![i].time = 0]
    BY <1>3 DEF uip_neighbor_update, FindEntry
  <2>2. [neighbors[i] EXCEPT !.time = 0] \in Neighbor
    BY <1>1 DEF Neighbor
  <2> QED
    BY <1>1, <2>1, <2>2
<1>4. ASSUME uip_neighbor_periodic
      PROVE  neighbors' \in [Slots -> Neighbor]
  <2>1. ASSUME NEW entry \in Neighbor
        PROVE  [entry EXCEPT !.time = IF @ < MAX_TIME THEN @ + 1 ELSE @] \in Neighbor
    <3>1. /\ entry.time \in 0..MAX_TIME
          /\ (IF entry.time < MAX_TIME THEN entry.time + 1 ELSE entry.time) \in 0..MAX_TIME
      BY NeighborAssumption DEF Neighbor
    <3> QED
      BY <3>1 DEF Neighbor
  <2> QED
    BY <1>1, <1>4, <2>1 DEF uip_neighbor_periodic
<1>5. ASSUME UNCHANGED neighbors
      PROVE  neighbors' \in [Slots -> Neighbor]
  BY <1>1, <1>5
<1>6. neighbors' \in [Slots -> Neighbor]
  BY <1>2, <1>3, <1>4, <1>5 DEF NeighborNext
<1> QED
  BY <1>6 DEF NeighborTypeOK, Neighbor

\* The entries of the neighbour table and their ages have their types.
THEOREM NeighborTypes == NeighborSpec => []NeighborTypeOK
BY NeighborInitGood, NeighborStepGood, PTL DEF NeighborSpec

\* The first of the oldest entries is at least as old as any other; an unused
\* one is as old as can be; the third that may be taken reads like the new
\* link address.
LEMMA ChosenIsOldest ==
    ASSUME NeighborTypeOK, NEW addr \in NeighborAddrs, NEW i \in Slots,
           neighbors[i].ipaddr # NeighborAsIp[addr],
           Chosen(i, addr), NEW j \in Slots
    PROVE  neighbors[j].time <= neighbors[i].time
<1>1. \A k \in Slots : neighbors[k].time \in Int /\ neighbors[k].time <= MAX_TIME
  BY NeighborAssumption DEF NeighborTypeOK
<1>2. CASE EndsSearch(i, addr)
  BY <1>1, <1>2 DEF EndsSearch
<1>3. CASE Oldest(i)
  <2>1. j \in 1..(i - 1) \/ j = i \/ j \in (i + 1)..ENTRIES
    BY NeighborAssumption DEF Slots
  <2> QED
    BY <1>1, <1>3, <2>1 DEF Oldest
<1> QED
  BY <1>2, <1>3 DEF Chosen

\* Which entry uip_neighbor_add() replaces: an unused one if there is one, else
\* the oldest - unless the new neighbour's LINK address reads like an IP address
\* of the table, with which the code compares it.
THEOREM OldestNeighborIsReplaced == NeighborSpec => OldestOrLookalikeGoes
<1> DEFINE Goes == \A i \in Slots : neighbors'[i].ipaddr # neighbors[i].ipaddr =>
                       \/ \A j \in Slots : neighbors[j].time <= neighbors[i].time
                       \/ neighbors[i].ipaddr = NeighborAsIp[neighbors'[i].addr]
<1>1. ASSUME NeighborTypeOK, NeighborNext
      PROVE  Goes
  <2>1. neighbors \in [Slots -> Neighbor]
    BY <1>1 DEF NeighborTypeOK, Neighbor
  <2>2. ASSUME NEW ip \in NeighborIps, NEW addr \in NeighborAddrs, uip_neighbor_add(ip, addr)
        PROVE  Goes
    <3>1. PICK i \in Slots :
              /\ Chosen(i, addr)
              /\ neighbors' = [neighbors EXCEPT ![i] = [ipaddr |-> ip, addr |-> addr, time |-> 0]]
      BY <2>2 DEF uip_neighbor_add
    <3>2. ASSUME NEW k \in Slots, k # i PROVE neighbors'[k] = neighbors[k]
      BY <2>1, <3>1, <3>2
    <3>3. neighbors'[i].addr = addr
      BY <2>1, <3>1
    <3>4. ASSUME neighbors[i].ipaddr # NeighborAsIp[addr]
          PROVE  \A j \in Slots : neighbors[j].time <= neighbors[i].time
      BY <1>1, <3>1, <3>4, ChosenIsOldest
    <3> QED
      BY <3>2, <3>3, <3>4
  <2>3. ASSUME NEW ip \in NeighborIps, uip_neighbor_update(ip)
        PROVE  Goes
    <3>1. PICK i \in Slots : neighbors' = [neighbors EXCEPT ![i].time = 0]
      BY <2>3 DEF uip_neighbor_update, FindEntry
    <3>2. ASSUME NEW k \in Slots PROVE neighbors'[k].ipaddr = neighbors[k].ipaddr
      BY <2>1, <3>1 DEF Neighbor
    <3> QED
      BY <3>2
  <2>4. ASSUME uip_neighbor_periodic
        PROVE  Goes
    <3>1. ASSUME NEW k \in Slots PROVE neighbors'[k].ipaddr = neighbors[k].ipaddr
      <4>1. neighbors[k] \in Neighbor
        BY <2>1
      <4>2. neighbors'[k] = [neighbors[k] EXCEPT !.time = IF @ < MAX_TIME THEN @ + 1 ELSE @]
        BY <2>4 DEF uip_neighbor_periodic
      <4> QED
        BY <4>1, <4>2 DEF Neighbor
    <3> QED
      BY <3>1
  <2> QED
    BY <1>1, <2>2, <2>3, <2>4 DEF NeighborNext
<1>2. NeighborTypeOK /\ [NeighborNext]_neighbors => [Goes]_neighbors
  BY <1>1
<1> QED
  BY <1>2, NeighborInitGood, NeighborStepGood, PTL DEF NeighborSpec, OldestOrLookalikeGoes

-----------------------------------------------------------------------------
(* The receive ring: the driver implements a queue of frames.              *)

\* The cell x cells after cell b.
Pos(b, x) == (b + x) % RingSize

\* What is assumed of the ring and the frames.
LEMMA RingIs ==
    /\ RXSTOP_INIT \in Nat /\ RXSTOP_INIT > 0 /\ RingSize = RXSTOP_INIT + 1
    /\ RingSize \in Nat /\ Ring = 0 .. RXSTOP_INIT
    /\ EthMaxlen \in Nat /\ EthMaxlen > 0
    /\ \A f \in EthFrames : f.len \in Nat /\ f.len > 0 /\ f.len + 2 <= RXSTOP_INIT
BY EthAssumption DEF RingSize, Ring, RXSTART_INIT

LEMMA WrapIs ==
    ASSUME NEW n \in Nat, n > 0, NEW x \in Nat, x < 2 * n
    PROVE  x % n = IF x < n THEN x ELSE x - n
<1>1. CASE x < n
  BY <1>1, SMT
<1>2. CASE ~(x < n)
  BY <1>2, SMT
<1> QED
  BY <1>1, <1>2

LEMMA PosIs ==
    ASSUME NEW b \in Ring, NEW x \in Ring
    PROVE  /\ Pos(b, x) \in Ring
           /\ Pos(b, x) = IF b + x <= RXSTOP_INIT THEN b + x ELSE b + x - RingSize
<1> DEFINE y == b + x
<1>1. RingSize \in Nat /\ RingSize > 0 /\ y \in Nat /\ y < 2 * RingSize
  BY RingIs
<1>2. y <= RXSTOP_INIT <=> y < RingSize
  BY RingIs
<1>3. y % RingSize = IF y < RingSize THEN y ELSE y - RingSize
  <2> HIDE DEF y
  <2> QED
    BY <1>1, WrapIs
<1>4. Pos(b, x) = IF y < RingSize THEN y ELSE y - RingSize
  BY <1>3 DEF Pos
<1> QED
  BY <1>2, <1>4, RingIs

LEMMA DistanceIs ==
    ASSUME NEW a \in Ring, NEW b \in Ring
    PROVE  /\ Distance(a, b) \in Ring
           /\ Distance(a, b) = IF a <= b THEN b - a ELSE b - a + RingSize
<1> DEFINE y == b - a + RingSize
<1>1. RingSize \in Nat /\ RingSize > 0 /\ y \in Nat /\ y < 2 * RingSize
  BY RingIs
<1>2. y % RingSize = IF y < RingSize THEN y ELSE y - RingSize
  <2> HIDE DEF y
  <2> QED
    BY <1>1, WrapIs
<1>3. Distance(a, b) = IF y < RingSize THEN y ELSE y - RingSize
  BY <1>2 DEF Distance
<1> QED
  BY <1>3, RingIs

\* How far apart two cells are that are x and y cells after the same one.
LEMMA DistanceOfPos ==
    ASSUME NEW b \in Ring, NEW x \in Ring, NEW y \in Ring
    PROVE  Distance(Pos(b, x), Pos(b, y)) = IF x <= y THEN y - x ELSE y - x + RingSize
<1>1. /\ Pos(b, x) \in Ring /\ Pos(b, y) \in Ring
      /\ Pos(b, x) = IF b + x <= RXSTOP_INIT THEN b + x ELSE b + x - RingSize
      /\ Pos(b, y) = IF b + y <= RXSTOP_INIT THEN b + y ELSE b + y - RingSize
  BY PosIs
<1> DEFINE p == Pos(b, x)
           q == Pos(b, y)
<1>2. Distance(p, q) = IF p <= q THEN q - p ELSE q - p + RingSize
  BY <1>1, DistanceIs
<1>3. /\ p = IF b + x <= RXSTOP_INIT THEN b + x ELSE b + x - RingSize
      /\ q = IF b + y <= RXSTOP_INIT THEN b + y ELSE b + y - RingSize
  BY <1>1
<1> HIDE DEF p, q
<1>4. Distance(p, q) = IF x <= y THEN y - x ELSE y - x + RingSize
  BY <1>2, <1>3, RingIs
<1> QED
  BY <1>4 DEF p, q

LEMMA PosOfZero ==
    ASSUME NEW b \in Ring
    PROVE  Pos(b, 0) = b /\ 0 \in Ring
<1>1. 0 \in Ring
  BY RingIs
<1> QED
  BY <1>1, PosIs, RingIs

LEMMA PosOfPos ==
    ASSUME NEW b \in Ring, NEW x \in Ring, NEW y \in Ring, x + y \in Ring
    PROVE  Pos(Pos(b, x), y) = Pos(b, x + y)
<1> DEFINE p == Pos(b, x)
<1>1. p \in Ring /\ p = IF b + x <= RXSTOP_INIT THEN b + x ELSE b + x - RingSize
  BY PosIs
<1>2. Pos(b, x + y) = IF b + (x + y) <= RXSTOP_INIT THEN b + (x + y) ELSE b + (x + y) - RingSize
  BY PosIs
<1> HIDE DEF p
<1>3. Pos(p, y) = IF p + y <= RXSTOP_INIT THEN p + y ELSE p + y - RingSize
  BY <1>1, PosIs
<1>4. Pos(p, y) = Pos(b, x + y)
  BY <1>1, <1>2, <1>3, RingIs
<1> QED
  BY <1>4 DEF p

\* Every cell is some number of cells after b.
LEMMA PosOfDistance ==
    ASSUME NEW a \in Ring, NEW b \in Ring
    PROVE  Pos(b, Distance(b, a)) = a
<1> DEFINE d == Distance(b, a)
<1>1. d \in Ring /\ d = IF b <= a THEN a - b ELSE a - b + RingSize
  BY DistanceIs
<1> HIDE DEF d
<1>2. Pos(b, d) = IF b + d <= RXSTOP_INIT THEN b + d ELSE b + d - RingSize
  BY <1>1, PosIs
<1>3. Pos(b, d) = a
  BY <1>1, <1>2, RingIs
<1> QED
  BY <1>3 DEF d

\* A frame takes its header, its pieces and at most one cell more.
LEMMA NextFrameIs ==
    ASSUME NEW c, c.ERXWRPT \in Ring, NEW f \in EthFrames
    PROVE  \E d \in Ring : f.len < d /\ NextFrame(c, f) = Pos(c.ERXWRPT, d)
<1> DEFINE w == c.ERXWRPT
           n == f.len
           x == w + 1 + n
           y == x % RingSize
<1>1. w \in Ring /\ n \in Nat /\ n + 2 <= RXSTOP_INIT
  BY RingIs
<1>2. n + 1 \in Ring /\ n + 2 \in Ring /\ n < n + 1 /\ n < n + 2
  BY <1>1, RingIs
<1>3. /\ Pos(w, n + 1) = IF w + (n + 1) <= RXSTOP_INIT THEN w + (n + 1) ELSE w + (n + 1) - RingSize
      /\ Pos(w, n + 2) = IF w + (n + 2) <= RXSTOP_INIT THEN w + (n + 2) ELSE w + (n + 2) - RingSize
      /\ Pos(w, n + 1) \in Ring /\ Pos(w, n + 2) \in Ring
  BY <1>1, <1>2, PosIs
<1>4. y = Pos(w, n + 1)
  <2>1. w \in Nat /\ n \in Nat
    BY <1>1, RingIs
  <2>2. x = w + (n + 1)
    BY <2>1
  <2> QED
    BY <2>2 DEF Pos
<1>5. NextFrame(c, f) = EvenUp(y) % RingSize
  BY DEF NextFrame
<1>6. EvenUp(y) = y \/ EvenUp(y) = y + 1
  BY DEF EvenUp
<1> HIDE DEF w, n, x, y
<1>7. y \in Nat /\ y < RingSize /\ RingSize \in Nat /\ RingSize > 0
  BY <1>3, <1>4, RingIs
<1>8. /\ y % RingSize = y
      /\ (y + 1) % RingSize = IF y + 1 < RingSize THEN y + 1 ELSE y + 1 - RingSize
  <2>1. y + 1 \in Nat /\ y + 1 < 2 * RingSize /\ y < 2 * RingSize
    BY <1>7
  <2> QED
    BY <1>7, <2>1, WrapIs
<1>9. (y + 1) % RingSize = Pos(w, n + 2)
  <2>1. /\ w \in Nat /\ n \in Nat /\ RXSTOP_INIT \in Nat /\ RingSize = RXSTOP_INIT + 1
        /\ w <= RXSTOP_INIT /\ n + 2 <= RXSTOP_INIT
        /\ y = IF w + (n + 1) <= RXSTOP_INIT THEN w + (n + 1) ELSE w + (n + 1) - RingSize
    BY <1>1, <1>3, <1>4, RingIs
  <2>2. y + 1 = IF w + (n + 1) <= RXSTOP_INIT THEN w + (n + 2) ELSE w + (n + 2) - RingSize
    BY <2>1
  <2>3. (IF y + 1 < RingSize THEN y + 1 ELSE y + 1 - RingSize)
          = IF w + (n + 2) <= RXSTOP_INIT THEN w + (n + 2) ELSE w + (n + 2) - RingSize
    BY <2>1, <2>2
  <2> QED
    BY <1>3, <1>8, <2>3
<1>10. NextFrame(c, f) = Pos(w, n + 1) \/ NextFrame(c, f) = Pos(w, n + 2)
  BY <1>4, <1>5, <1>6, <1>8, <1>9
<1> QED
  BY <1>2, <1>10 DEF w, n

-----------------------------------------------------------------------------
(* Frames in a row                                                         *)

\* Frame f lies in the ring from x cells after b to the cell before y after b.
LiesAt(mem, b, x, y, f) ==
    /\ x + f.len < y
    /\ mem[Pos(b, x)] = Cell(f, 0, Pos(b, y))
    /\ \A k \in 1 .. f.len : mem[Pos(b, x + k)] = Cell(f, k, 0)

\* The frames q lie one after another from b on: the first i of them take up
\* off[i] cells.
Chain(mem, b, q, off) ==
    /\ off[0] = 0
    /\ \A i \in 0 .. Len(q) : off[i] \in Ring
    /\ \A i, j \in 0 .. Len(q) : i <= j => off[i] <= off[j]
    /\ \A i \in 1 .. Len(q) : LiesAt(mem, b, off[i - 1], off[i], q[i])

\* Waiting(), in any contents of the ring.
Reads(h, mem, a, n) ==
    h = [i \in 0 .. n |-> IF i = 0 THEN mem[a] ELSE mem[h[i - 1].next]]

WaitingIn(mem, a, n) ==
    [i \in 1 .. n |-> (CHOOSE h : Reads(h, mem, a, n))[i - 1].frame]

LEMMA WaitingIsIn ==
    ASSUME NEW a, NEW n
    PROVE  Waiting(a, n) = WaitingIn(chip.mem, a, n)
BY DEF Waiting, WaitingIn, Reads

\* Who follows the chain finds the frames.
LEMMA ChainReads ==
    ASSUME NEW mem, NEW b \in Ring, NEW q \in Seq(EthFrames), NEW off, Chain(mem, b, q, off)
    PROVE  WaitingIn(mem, b, Len(q)) = q
<1> DEFINE n == Len(q)
           header(i) == mem[Pos(b, off[i])]
           g == [i \in 0 .. n |-> header(i)]
<1>1. n \in Nat /\ q = [i \in 1 .. n |-> q[i]]
  BY LenProperties
<1>2. header(0) = mem[b]
  BY PosOfZero DEF Chain
<1>3. ASSUME NEW i \in 1 .. n
      PROVE  header(i - 1).frame = q[i] /\ header(i - 1).next = Pos(b, off[i])
  <2>1. header(i - 1) = Cell(q[i], 0, Pos(b, off[i]))
    BY DEF Chain, LiesAt
  <2> HIDE DEF header
  <2> QED
    BY <2>1 DEF Cell
<1> HIDE DEF header
<1>4. Reads(g, mem, b, n)
  <2>1. ASSUME NEW i \in 0 .. n
        PROVE  header(i) = IF i = 0 THEN mem[b] ELSE mem[g[i - 1].next]
    <3>1. CASE i = 0
      BY <1>2, <3>1
    <3>2. CASE i # 0
      <4>1. i \in 1 .. n /\ i - 1 \in 0 .. n
        BY <1>1, <3>2
      <4>2. g[i - 1].next = Pos(b, off[i])
        BY <1>3, <4>1
      <4> QED
        BY <3>2, <4>2 DEF header
    <3> QED
      BY <3>1, <3>2
  <2> QED
    BY <2>1, Zenon DEF Reads
<1> DEFINE h == CHOOSE h : Reads(h, mem, b, n)
<1>5. Reads(h, mem, b, n)
  BY <1>4
<1> HIDE DEF g, h
<1>6. ASSUME NEW i \in 0 .. n
      PROVE  h[i] = IF i = 0 THEN mem[b] ELSE mem[h[i - 1].next]
  BY <1>5, Zenon DEF Reads
<1> DEFINE T == {i \in Nat : i <= n => h[i] = header(i)}
<1>7. 0 \in T
  <2>1. 0 \in 0 .. n
    BY <1>1
  <2> QED
    BY <1>2, <1>6, <2>1
<1>8. ASSUME NEW i \in Nat, i \in T
      PROVE  i + 1 \in T
  <2> SUFFICES ASSUME i + 1 <= n PROVE h[i + 1] = header(i + 1)
    OBVIOUS
  <2>1. /\ i + 1 \in 1 .. n /\ i + 1 \in 0 .. n /\ i <= n /\ (i + 1) - 1 = i /\ i + 1 # 0
    BY <1>1
  <2>2. h[i] = header(i)
    BY <1>8, <2>1
  <2>3. header(i).next = Pos(b, off[i + 1])
    BY <1>3, <2>1
  <2>4. h[i + 1] = mem[h[i].next]
    BY <1>6, <2>1
  <2> QED
    BY <2>2, <2>3, <2>4 DEF header
<1> HIDE DEF T
<1>9. \A i \in Nat : i \in T
  BY <1>7, <1>8, Sent!SetInduction
<1>10. ASSUME NEW i \in 1 .. n
       PROVE  h[i - 1].frame = q[i]
  <2>1. i - 1 \in Nat /\ i - 1 <= n
    BY <1>1
  <2>2. h[i - 1] = header(i - 1)
    BY <1>9, <2>1 DEF T
  <2> QED
    BY <1>3, <2>2
<1>11. WaitingIn(mem, b, n) = [i \in 1 .. n |-> h[i - 1].frame]
  BY DEF WaitingIn, h
<1>12. [i \in 1 .. n |-> h[i - 1].frame] = [i \in 1 .. n |-> q[i]]
  BY <1>10
<1> QED
  BY <1>1, <1>11, <1>12

\* A frame stays where it is when other cells are written.
LEMMA FrameStays ==
    ASSUME NEW mem, NEW mem2, NEW b \in Ring, NEW x \in Ring, NEW y \in Ring, NEW f \in EthFrames,
           LiesAt(mem, b, x, y, f),
           \A z \in Ring : x <= z /\ z < y => mem2[Pos(b, z)] = mem[Pos(b, z)]
    PROVE  LiesAt(mem2, b, x, y, f)
<1>1. x \in Nat /\ y \in Nat /\ f.len \in Nat /\ x + f.len < y /\ y <= RXSTOP_INIT
  BY RingIs DEF LiesAt
<1>2. mem2[Pos(b, x)] = mem[Pos(b, x)]
  BY <1>1
<1>3. ASSUME NEW k \in 1 .. f.len
      PROVE  mem2[Pos(b, x + k)] = mem[Pos(b, x + k)]
  <2>1. x + k \in Ring /\ x <= x + k /\ x + k < y
    BY <1>1, RingIs
  <2> QED
    BY <2>1
<1> QED
  BY <1>2, <1>3 DEF LiesAt

\* The place of a frame counted from a later cell.
LEMMA FrameFrom ==
    ASSUME NEW mem, NEW b \in Ring, NEW x \in Ring, NEW y \in Ring, NEW f \in EthFrames,
           LiesAt(mem, b, x, y, f), NEW s \in Ring, s <= x
    PROVE  LiesAt(mem, Pos(b, s), x - s, y - s, f)
<1>1. x \in Nat /\ y \in Nat /\ s \in Nat /\ f.len \in Nat /\ x + f.len < y /\ y <= RXSTOP_INIT
  BY RingIs DEF LiesAt
<1>2. ASSUME NEW z \in Ring, s <= z
      PROVE  Pos(Pos(b, s), z - s) = Pos(b, z)
  <2>1. z - s \in Ring /\ s + (z - s) = z
    BY <1>1, <1>2, RingIs
  <2> QED
    BY <2>1, PosOfPos
<1>3. mem[Pos(Pos(b, s), x - s)] = Cell(f, 0, Pos(Pos(b, s), y - s))
  <2>1. s <= y
    BY <1>1
  <2> QED
    BY <1>2, <2>1 DEF LiesAt
<1>4. ASSUME NEW k \in 1 .. f.len
      PROVE  mem[Pos(Pos(b, s), (x - s) + k)] = Cell(f, k, 0)
  <2>1. x + k \in Ring /\ s <= x + k /\ (x - s) + k = (x + k) - s
    BY <1>1, RingIs
  <2>2. Pos(Pos(b, s), (x + k) - s) = Pos(b, x + k)
    BY <1>2, <2>1
  <2> QED
    BY <2>1, <2>2 DEF LiesAt
<1>5. (x - s) + f.len < y - s
  BY <1>1
<1> QED
  BY <1>3, <1>4, <1>5 DEF LiesAt

\* Nothing is written in the s cells from b on.
KeptBelow(mem, mem2, b, s) == \A z \in Ring : z < s => mem2[Pos(b, z)] = mem[Pos(b, z)]

\* Frame f lies behind the others, up to y cells after b.
IsGrown(mem, b, q, off, f, y) ==
    \E off2 : /\ Chain(mem, b, Append(q, f), off2) /\ off2[Len(q) + 1] = y
              /\ \A i \in 0 .. Len(q) : off2[i] = off[i]

\* A frame comes to stand behind the others.
LEMMA ChainGrows ==
    ASSUME NEW mem, NEW mem2, NEW b \in Ring, NEW q \in Seq(EthFrames), NEW off,
           Chain(mem, b, q, off), NEW f \in EthFrames, NEW y \in Ring,
           KeptBelow(mem, mem2, b, off[Len(q)]),
           LiesAt(mem2, b, off[Len(q)], y, f)
    PROVE  IsGrown(mem2, b, q, off, f, y)
<1> DEFINE n == Len(q)
           r == Append(q, f)
           off2 == [i \in 0 .. n + 1 |-> IF i = n + 1 THEN y ELSE off[i]]
<1>1. n \in Nat /\ Len(r) = n + 1 /\ r[n + 1] = f /\ \A i \in 1 .. n : r[i] = q[i]
  BY LenProperties, AppendProperties
<1>2. /\ off[0] = 0 /\ \A i \in 0 .. n : off[i] \in Ring
      /\ \A i, j \in 0 .. n : i <= j => off[i] <= off[j]
      /\ \A i \in 1 .. n : LiesAt(mem, b, off[i - 1], off[i], q[i])
  BY DEF Chain
<1> HIDE DEF r
<1>3. off2[n + 1] = y /\ \A i \in 0 .. n : off2[i] = off[i]
  <2>1. n + 1 \in 0 .. n + 1 /\ \A i \in 0 .. n : i \in 0 .. n + 1 /\ i # n + 1
    BY <1>1
  <2> QED
    BY <2>1
<1> HIDE DEF off2
<1>4. off[n] < y /\ off[n] \in Nat /\ n \in 0 .. n
  <2>1. off[n] + f.len < y
    BY DEF LiesAt
  <2> QED
    BY <1>1, <1>2, <2>1, RingIs
<1> HIDE DEF n
<1>5. off2[0] = 0
  BY <1>1, <1>2, <1>3
<1>6. \A i \in 0 .. n + 1 : off2[i] \in Ring
  <2>1. \A i \in 0 .. n + 1 : i = n + 1 \/ i \in 0 .. n
    BY <1>1
  <2> QED
    BY <1>2, <1>3, <2>1
<1>7. ASSUME NEW i \in 0 .. n + 1, NEW j \in 0 .. n + 1, i <= j
      PROVE  off2[i] <= off2[j]
  <2>1. CASE j \in 0 .. n
    <3>1. i \in 0 .. n
      BY <1>1, <1>7, <2>1
    <3> QED
      BY <1>2, <1>3, <1>7, <2>1, <3>1
  <2>2. CASE j = n + 1 /\ i \in 0 .. n
    <3>1. off[i] <= off[n] /\ off[i] \in Nat
      BY <1>1, <1>2, <1>4, <2>2, RingIs
    <3> QED
      BY <1>3, <1>4, <2>2, <3>1, RingIs
  <2>3. CASE j = n + 1 /\ i = n + 1
    BY <1>3, <2>3, RingIs
  <2> QED
    BY <1>1, <2>1, <2>2, <2>3
<1>8. ASSUME NEW i \in 1 .. n + 1
      PROVE  LiesAt(mem2, b, off2[i - 1], off2[i], r[i])
  <2>1. CASE i = n + 1
    <3>1. i - 1 = n
      BY <1>1, <2>1
    <3> QED
      BY <1>1, <1>3, <1>4, <2>1, <3>1 DEF n
  <2>2. CASE i # n + 1
    <3>1. i \in 1 .. n /\ i \in 0 .. n /\ i - 1 \in 0 .. n /\ i <= n
      BY <1>1, <2>2
    <3>2. /\ LiesAt(mem, b, off[i - 1], off[i], q[i]) /\ off[i - 1] \in Ring /\ off[i] \in Ring
          /\ off[i] <= off[n]
      BY <1>2, <1>4, <3>1
    <3>3. q[i] \in EthFrames
      BY <3>1, ElementOfSeq DEF n
    <3>4. \A z \in Ring : off[i - 1] <= z /\ z < off[i] => mem2[Pos(b, z)] = mem[Pos(b, z)]
      <4>1. \A z \in Ring : z < off[i] => z < off[n]
        BY <1>4, <3>2, RingIs
      <4> QED
        BY <4>1 DEF n, KeptBelow
    <3>5. LiesAt(mem2, b, off[i - 1], off[i], q[i])
      BY <3>2, <3>3, <3>4, FrameStays
    <3> QED
      BY <1>1, <1>3, <3>1, <3>5
  <2> QED
    BY <2>1, <2>2
<1>9. Chain(mem2, b, r, off2)
  BY <1>1, <1>5, <1>6, <1>7, <1>8, Zenon DEF Chain
<1> QED
  BY <1>3, <1>9 DEF n, r, IsGrown

\* Nothing is written s cells after b or later.
KeptFrom(mem, mem2, b, s) == \A z \in Ring : s <= z => mem2[Pos(b, z)] = mem[Pos(b, z)]

\* The frames after the first one lie from where that ends to where they ended.
IsDropped(mem, b, q, off) ==
    \E off2 : /\ Chain(mem, Pos(b, off[1]), Tail(q), off2)
              /\ off2[Len(Tail(q))] = off[Len(q)] - off[1]

\* The first frame is taken away, with its cells.
LEMMA ChainDrops ==
    ASSUME NEW mem, NEW mem2, NEW b \in Ring, NEW q \in Seq(EthFrames), NEW off,
           Chain(mem, b, q, off), q # <<>>, KeptFrom(mem, mem2, b, off[1])
    PROVE  IsDropped(mem2, b, q, off)
<1> DEFINE n == Len(q)
           r == Tail(q)
           s == off[1]
           off2 == [i \in 0 .. n - 1 |-> off[i + 1] - s]
<1>1. n \in Nat /\ n > 0 /\ Len(r) = n - 1 /\ \A i \in 1 .. n - 1 : r[i] = q[i + 1]
  BY LenProperties, HeadTailProperties, EmptySeq
<1>2. /\ \A i \in 0 .. n : off[i] \in Ring
      /\ \A i, j \in 0 .. n : i <= j => off[i] <= off[j]
      /\ \A i \in 1 .. n : LiesAt(mem, b, off[i - 1], off[i], q[i])
  BY DEF Chain
<1> HIDE DEF r
<1>3. ASSUME NEW i \in 1 .. n
      PROVE  s <= off[i] /\ off[i] \in Nat /\ off[i] - s \in Ring /\ off[i] \in Ring /\ s \in Ring
  <2>1. 1 \in 0 .. n /\ i \in 0 .. n /\ 1 <= i
    BY <1>1
  <2>2. s <= off[i] /\ s \in Ring /\ off[i] \in Ring
    BY <1>2, <2>1
  <2> HIDE DEF s
  <2> QED
    BY <2>2, RingIs
<1>4. ASSUME NEW i \in 0 .. n - 1
      PROVE  off2[i] = off[i + 1] - s /\ i + 1 \in 1 .. n
  BY <1>1
<1> HIDE DEF off2, s, n
<1>5. off2[0] = 0
  <2>1. 0 \in 0 .. n - 1 /\ 0 + 1 = 1 /\ 1 \in 1 .. n
    BY <1>1
  <2>2. s \in Nat /\ off2[0] = off[1] - s
    BY <1>3, <1>4, <2>1, RingIs
  <2> QED
    BY <2>2 DEF s
<1>6. \A i \in 0 .. n - 1 : off2[i] \in Ring
  BY <1>3, <1>4
<1>7. ASSUME NEW i \in 0 .. n - 1, NEW j \in 0 .. n - 1, i <= j
      PROVE  off2[i] <= off2[j]
  <2>1. i + 1 \in 0 .. n /\ j + 1 \in 0 .. n /\ i + 1 <= j + 1
    BY <1>1, <1>7
  <2>2. off[i + 1] <= off[j + 1]
    BY <1>2, <2>1
  <2>3. off[i + 1] \in Nat /\ off[j + 1] \in Nat /\ s \in Nat
    BY <1>3, <1>4, RingIs
  <2> QED
    BY <1>4, <2>2, <2>3
<1>8. ASSUME NEW i \in 1 .. n - 1
      PROVE  LiesAt(mem2, Pos(b, s), off2[i - 1], off2[i], r[i])
  <2>1. /\ i + 1 \in 1 .. n /\ i \in 1 .. n /\ (i + 1) - 1 = i
        /\ i - 1 \in 0 .. n - 1 /\ i \in 0 .. n - 1 /\ (i - 1) + 1 = i
    BY <1>1
  <2>2. LiesAt(mem, b, off[i], off[i + 1], q[i + 1])
    BY <1>2, <2>1
  <2>3. q[i + 1] \in EthFrames
    BY <2>1, ElementOfSeq DEF n
  <2>4. s <= off[i] /\ off[i] \in Ring /\ off[i + 1] \in Ring /\ s \in Ring
    BY <1>3, <2>1
  <2>5. \A z \in Ring : off[i] <= z /\ z < off[i + 1] => mem2[Pos(b, z)] = mem[Pos(b, z)]
    <3>1. \A z \in Ring : off[i] <= z => s <= z
      BY <2>4, RingIs
    <3> QED
      BY <3>1 DEF s, KeptFrom
  <2>6. LiesAt(mem2, b, off[i], off[i + 1], q[i + 1])
    BY <2>2, <2>3, <2>4, <2>5, FrameStays
  <2>7. LiesAt(mem2, Pos(b, s), off[i] - s, off[i + 1] - s, q[i + 1])
    BY <2>3, <2>4, <2>6, FrameFrom
  <2>8. off2[i - 1] = off[i] - s /\ off2[i] = off[i + 1] - s
    BY <1>4, <2>1
  <2> QED
    BY <1>1, <2>7, <2>8
<1>9. Chain(mem2, Pos(b, s), r, off2)
  BY <1>1, <1>5, <1>6, <1>7, <1>8, Zenon DEF Chain
<1>10. off2[n - 1] = off[n] - s
  <2>1. n - 1 \in 0 .. n - 1 /\ (n - 1) + 1 = n
    BY <1>1
  <2> QED
    BY <1>4, <2>1
<1> QED
  BY <1>1, <1>9, <1>10 DEF n, r, s, IsDropped

\* The chain's first frame and where the rest of it begins.
LEMMA ChainBegins ==
    ASSUME NEW mem, NEW b \in Ring, NEW q \in Seq(EthFrames), NEW off,
           Chain(mem, b, q, off), q # <<>>
    PROVE  /\ Head(q) \in EthFrames /\ off[1] \in Ring /\ off[Len(q)] \in Ring
           /\ off[1] <= off[Len(q)]
           /\ LiesAt(mem, b, 0, off[1], Head(q))
           /\ mem[b].frame = Head(q) /\ mem[b].next = Pos(b, off[1])
<1>1. Len(q) \in Nat /\ Len(q) > 0 /\ Head(q) = q[1] /\ Head(q) \in EthFrames
  BY LenProperties, HeadTailProperties, EmptySeq
<1>2. 1 \in 0 .. Len(q) /\ 1 \in 1 .. Len(q) /\ Len(q) \in 0 .. Len(q) /\ 1 - 1 = 0 /\ 1 <= Len(q)
  BY <1>1
<1>3. LiesAt(mem, b, off[0], off[1], q[1]) /\ off[0] = 0
  <2>1. LiesAt(mem, b, off[1 - 1], off[1], q[1])
    BY <1>2, Zenon DEF Chain
  <2> QED
    BY <1>2, <2>1 DEF Chain
<1>4. off[1] \in Ring /\ off[Len(q)] \in Ring /\ off[1] <= off[Len(q)]
  BY <1>2 DEF Chain
<1>5. mem[b] = Cell(Head(q), 0, Pos(b, off[1]))
  BY <1>1, <1>3, PosOfZero DEF LiesAt
<1> QED
  BY <1>1, <1>3, <1>4, <1>5 DEF Cell

-----------------------------------------------------------------------------
(* The ring, the driver and the controller                                 *)

\* Where the frames begin that must be kept, and how many they are: the one the
\* driver is copying is kept until its cells are free, and counted until it is
\* done with.
Base(d) == IF d.pc \in {"copy", "free"} THEN d.start ELSE d.next
Count(d, c) == IF d.pc \in {"back", "count"} THEN c.EPKTCNT - 1 ELSE c.EPKTCNT

\* They end where the controller writes next; the read pointer is at their
\* beginning or, as errata point 13 wants it, one cell before.
InRing(d, c, q, off) ==
    /\ q \in Seq(EthFrames) /\ Base(d) \in Ring /\ Chain(c.mem, Base(d), q, off)
    /\ c.EPKTCNT \in Nat /\ Len(q) = Count(d, c)
    /\ c.ERXWRPT = Pos(Base(d), off[Len(q)])
    /\ \/ c.ERXRDPT = Base(d)
       \/ c.ERXRDPT = OneBack(Base(d)) /\ off[Len(q)] < RXSTOP_INIT
    /\ d.pc \in {"copy", "free"} =>
          q # <<>> /\ d.head.frame = Head(q) /\ d.next = Pos(Base(d), off[1])

IsStarting(d) == d.pc \in {"reset", "buffers", "mac", "enable"}

\* Nothing comes before the receive logic is enabled.
Idle(d, c) ==
    /\ d.pc \in {"buffers", "mac", "enable"} => ~c.RXEN /\ c.EPKTCNT = 0
    /\ d.pc \in {"mac", "enable"} => c.ERXWRPT = 0 /\ c.ERXRDPT = 0 /\ d.next = 0

\* What the driver has read of the frame it is working on.
Taken(d) ==
    /\ d.pc \in {"copy", "free", "back", "count"} => d.head.frame \in EthFrames
    /\ d.pc \in {"free", "back", "count"} => d.data = HandedOver(d.head.frame)

RingIsRight(d, c) ==
    /\ Idle(d, c) /\ Taken(d)
    /\ d.pc = "header" => c.EPKTCNT # 0
    /\ IsStarting(d) \/ \E q, off : InRing(d, c, q, off)

RingInv == RingIsRight(drv, chip)

\* The frames that wait, of which the first may be in the driver's hands.
Queued(d, q) == IF d.pc \in {"back", "count"} THEN <<d.head.frame>> \o q ELSE q

QueueIn(d, c) ==
    IF IsStarting(d) THEN <<>>
    ELSE IF d.pc \in {"copy", "free", "back", "count"}
         THEN <<d.head.frame>> \o WaitingIn(c.mem, d.next, c.EPKTCNT - 1)
         ELSE WaitingIn(c.mem, d.next, c.EPKTCNT)

LEMMA QueueIsIn == WaitingFrames = QueueIn(drv, chip) /\ WaitingFrames' = QueueIn(drv', chip')
BY DEF WaitingFrames, QueueIn, Starting, Receiving, IsStarting, Waiting, WaitingIn, Reads

LEMMA FirstAndRest ==
    ASSUME NEW S, NEW q \in Seq(S), q # <<>>
    PROVE  <<Head(q)>> \o Tail(q) = q /\ Tail(q) \in Seq(S) /\ Len(Tail(q)) = Len(q) - 1
<1>1. /\ Head(q) \in S /\ Tail(q) \in Seq(S) /\ Len(Tail(q)) = Len(q) - 1
      /\ \A i \in 1 .. Len(Tail(q)) : Tail(q)[i] = q[i + 1]
  BY HeadTailProperties
<1>2. Len(q) \in Nat /\ Len(q) > 0 /\ Head(q) = q[1]
  BY LenProperties, EmptySeq
<1>3. <<Head(q)>> \in Seq(S) /\ Len(<<Head(q)>>) = 1 /\ <<Head(q)>>[1] = q[1]
  BY <1>1, <1>2
<1> DEFINE h == <<Head(q)>>
           t == Tail(q)
<1> HIDE DEF h, t
<1>4. /\ h \o t \in Seq(S) /\ Len(h \o t) = 1 + (Len(q) - 1)
      /\ \A i \in 1 .. 1 + (Len(q) - 1) : (h \o t)[i] = IF i <= 1 THEN h[i] ELSE t[i - 1]
  BY <1>1, <1>3, ConcatProperties DEF h, t
<1>5. Len(h \o t) = Len(q)
  BY <1>2, <1>4
<1>6. ASSUME NEW i \in 1 .. Len(q)
      PROVE  (h \o t)[i] = q[i]
  <2>1. (h \o t)[i] = IF i <= 1 THEN h[i] ELSE t[i - 1]
    BY <1>2, <1>4
  <2>2. CASE i = 1
    BY <1>3, <2>1, <2>2 DEF h
  <2>3. CASE i # 1
    <3>1. i - 1 \in 1 .. Len(t) /\ (i - 1) + 1 = i /\ ~(i <= 1)
      BY <1>1, <1>2, <2>3 DEF t
    <3> QED
      BY <1>1, <2>1, <3>1 DEF t
  <2> QED
    BY <2>2, <2>3
<1>7. h \o t = q
  BY <1>4, <1>5, <1>6, SeqEqual
<1> QED
  BY <1>1, <1>7 DEF h, t

\* The chain is the queue.
LEMMA QueueIs ==
    ASSUME NEW d, NEW c, ~IsStarting(d), NEW q, NEW off, InRing(d, c, q, off)
    PROVE  QueueIn(d, c) = Queued(d, q)
<1>1. /\ q \in Seq(EthFrames) /\ Base(d) \in Ring /\ Chain(c.mem, Base(d), q, off)
      /\ Len(q) = Count(d, c) /\ c.EPKTCNT \in Nat
  BY DEF InRing
<1>2. CASE d.pc \in {"copy", "free"}
  <2>1. /\ q # <<>> /\ d.head.frame = Head(q) /\ d.next = Pos(Base(d), off[1])
        /\ Len(q) = c.EPKTCNT /\ off[1] \in Ring
    BY <1>1, <1>2, ChainBegins DEF InRing, Count
  <2>a. PICK off2 : /\ Chain(c.mem, Pos(Base(d), off[1]), Tail(q), off2)
                    /\ off2[Len(Tail(q))] = off[Len(q)] - off[1]
    <3> DEFINE m == c.mem
               b == Base(d)
    <3>1. Chain(m, b, q, off) /\ b \in Ring /\ q \in Seq(EthFrames) /\ q # <<>>
      BY <1>1, <2>1
    <3> HIDE DEF m, b
    <3>2. KeptFrom(m, m, b, off[1])
      BY DEF KeptFrom
    <3>3. IsDropped(m, b, q, off)
      BY <3>1, <3>2, ChainDrops
    <3> QED
      BY <3>3 DEF m, b, IsDropped
  <2>2. Chain(c.mem, d.next, Tail(q), off2)
    BY <2>1, <2>a
  <2>3. d.next \in Ring
    BY <1>1, <2>1, PosIs
  <2>4. <<Head(q)>> \o Tail(q) = q /\ Tail(q) \in Seq(EthFrames) /\ Len(Tail(q)) = Len(q) - 1
    BY <1>1, <2>1, FirstAndRest
  <2>5. WaitingIn(c.mem, d.next, Len(q) - 1) = Tail(q)
    BY <2>2, <2>3, <2>4, ChainReads
  <2>6. QueueIn(d, c) = <<d.head.frame>> \o WaitingIn(c.mem, d.next, c.EPKTCNT - 1)
    BY <1>2 DEF QueueIn, IsStarting
  <2> QED
    BY <1>2, <2>1, <2>4, <2>5, <2>6 DEF Queued
<1>3. CASE d.pc \in {"back", "count"}
  <2>1. WaitingIn(c.mem, d.next, c.EPKTCNT - 1) = q
    BY <1>1, <1>3, ChainReads DEF Base, Count
  <2> QED
    BY <1>3, <2>1 DEF QueueIn, Queued, IsStarting
<1>4. CASE d.pc \notin {"copy", "free", "back", "count"}
  <2>1. WaitingIn(c.mem, d.next, c.EPKTCNT) = q
    BY <1>1, <1>4, ChainReads DEF Base, Count
  <2> QED
    BY <1>4, <2>1 DEF QueueIn, Queued
<1> QED
  BY <1>2, <1>3, <1>4

-----------------------------------------------------------------------------
(* Steps                                                                   *)

\* A register access changes pc and the banks only.
LEMMA DriverGoes ==
    ASSUME Records, NEW pc, NEW bank
    PROVE  /\ GoTo(pc, bank) = [f \in DrvFields |-> GoTo(pc, bank)[f]]
           /\ GoTo(pc, bank).pc = pc
           /\ \A f \in DrvFields \ {"pc", "bank"} : GoTo(pc, bank)[f] = drv[f]
BY DEF Records, GoTo, DrvFields

LEMMA OnlyBank ==
    ASSUME Records, NEW bank
    PROVE  /\ InBank(chip, bank) = [f \in ChipFields |-> InBank(chip, bank)[f]]
           /\ \A f \in ChipFields \ {"bank"} : InBank(chip, bank)[f] = chip[f]
BY DEF Records, InBank, ChipFields

Outside == {"receive", "header", "main", "ready?", "write", "start"}

RingFields == {"mem", "ERXWRPT", "ERXRDPT", "EPKTCNT", "RXEN"}
ReadFields == {"next", "start", "head", "data"}

\* A step that has nothing to do with the ring.
IsQuiet(d, c, d2, c2) ==
    /\ \A f \in RingFields : c2[f] = c[f]
    /\ \A f \in ReadFields : d2[f] = d[f]
    /\ d2.pc = d.pc \/ (d.pc \in Outside /\ d2.pc \in Outside)
    /\ d2.pc = "header" => d.pc = "header" \/ c.EPKTCNT # 0

LEMMA QuietStays ==
    ASSUME NEW d, NEW c, NEW d2, NEW c2, RingIsRight(d, c), IsQuiet(d, c, d2, c2)
    PROVE  RingIsRight(d2, c2) /\ QueueIn(d2, c2) = QueueIn(d, c)
<1>1. /\ c2.mem = c.mem /\ c2.ERXWRPT = c.ERXWRPT /\ c2.ERXRDPT = c.ERXRDPT
      /\ c2.EPKTCNT = c.EPKTCNT /\ c2.RXEN = c.RXEN
      /\ d2.next = d.next /\ d2.start = d.start /\ d2.head = d.head /\ d2.data = d.data
  BY DEF IsQuiet, RingFields, ReadFields
<1>2. /\ d2.pc = d.pc \/ (d.pc \in Outside /\ d2.pc \in Outside)
      /\ d2.pc = "header" => c.EPKTCNT # 0
  BY DEF IsQuiet, RingIsRight
<1>3. Idle(d2, c2) /\ Taken(d2) /\ (IsStarting(d2) <=> IsStarting(d))
  BY <1>1, <1>2 DEF RingIsRight, Idle, Taken, IsStarting, Outside
<1>4. Base(d2) = Base(d) /\ Count(d2, c2) = Count(d, c)
  BY <1>1, <1>2 DEF Base, Count, Outside
<1>5. ASSUME NEW q, NEW off, InRing(d, c, q, off)
      PROVE  InRing(d2, c2, q, off)
  BY <1>1, <1>2, <1>4, <1>5 DEF InRing, Outside
<1>6. QueueIn(d2, c2) = QueueIn(d, c)
  BY <1>1, <1>2 DEF QueueIn, IsStarting, Outside
<1> QED
  BY <1>1, <1>2, <1>3, <1>5, <1>6 DEF RingIsRight

\* The read pointer one cell back is the last one of the ring counted from
\* where it was.
LEMMA OneBackIs ==
    ASSUME NEW b \in Ring
    PROVE  OneBack(b) = Pos(b, RXSTOP_INIT) /\ RXSTOP_INIT \in Ring
<1>1. RXSTOP_INIT \in Ring
  BY RingIs
<1>2. Pos(b, RXSTOP_INIT) = IF b + RXSTOP_INIT <= RXSTOP_INIT THEN b + RXSTOP_INIT
                            ELSE b + RXSTOP_INIT - RingSize
  BY <1>1, PosIs
<1> QED
  BY <1>1, <1>2, RingIs DEF OneBack, RXSTART_INIT

LEMMA PosIsInjective ==
    ASSUME NEW b \in Ring, NEW x \in Ring, NEW y \in Ring, Pos(b, x) = Pos(b, y)
    PROVE  x = y
<1>1. /\ Pos(b, x) = IF b + x <= RXSTOP_INIT THEN b + x ELSE b + x - RingSize
      /\ Pos(b, y) = IF b + y <= RXSTOP_INIT THEN b + y ELSE b + y - RingSize
  BY PosIs
<1>2. (IF b + x <= RXSTOP_INIT THEN b + x ELSE b + x - RingSize)
          = IF b + y <= RXSTOP_INIT THEN b + y ELSE b + y - RingSize
  BY <1>1
<1>3. /\ b \in Nat /\ x \in Nat /\ y \in Nat /\ RXSTOP_INIT \in Nat /\ RingSize = RXSTOP_INIT + 1
      /\ b <= RXSTOP_INIT /\ x <= RXSTOP_INIT /\ y <= RXSTOP_INIT
  BY RingIs
<1> QED
  BY <1>2, <1>3

\* What fits the room the controller sees fits between the frames that are kept
\* and the read pointer.
LEMMA RoomIs ==
    ASSUME NEW c, NEW b \in Ring, NEW x \in Ring, NEW y \in Ring, c.ERXWRPT = Pos(b, x),
           \/ c.ERXRDPT = b
           \/ c.ERXRDPT = OneBack(b) /\ x < RXSTOP_INIT,
           y > 0, Distance(c.ERXWRPT, Pos(c.ERXWRPT, y)) <= Room(c)
    PROVE  /\ x + y \in Ring /\ Pos(c.ERXWRPT, y) = Pos(b, x + y)
           /\ c.ERXRDPT = OneBack(b) /\ c.ERXRDPT # b => x + y < RXSTOP_INIT
<1> DEFINE w == c.ERXWRPT
           r == c.ERXRDPT
<1>1. w \in Ring /\ w = Pos(b, x) /\ Pos(b, 0) = b /\ Pos(w, 0) = w /\ 0 \in Ring
      /\ OneBack(b) = Pos(b, RXSTOP_INIT) /\ RXSTOP_INIT \in Ring
  BY PosIs, PosOfZero, OneBackIs
<1>2. Distance(w, Pos(w, y)) = y
  <2>1. Distance(Pos(w, 0), Pos(w, y)) = IF 0 <= y THEN y - 0 ELSE y - 0 + RingSize
    BY <1>1, DistanceOfPos
  <2> HIDE DEF w
  <2> QED
    BY <1>1, <2>1, RingIs
<1>3. y <= Room(c) /\ Room(c) = IF w = r THEN RingSize - 1 ELSE Distance(w, r) - 1
  BY <1>2 DEF Room
<1> HIDE DEF w, r
<1>4. /\ Distance(w, b) = IF x <= 0 THEN 0 - x ELSE 0 - x + RingSize
      /\ Distance(w, OneBack(b)) = IF x <= RXSTOP_INIT THEN RXSTOP_INIT - x
                                   ELSE RXSTOP_INIT - x + RingSize
  BY <1>1, DistanceOfPos
<1>5. /\ w = b => x = 0
      /\ w = OneBack(b) => x = RXSTOP_INIT
  BY <1>1, PosIsInjective
<1>6. /\ x \in Nat /\ y \in Nat /\ x <= RXSTOP_INIT /\ y <= RXSTOP_INIT
      /\ RXSTOP_INIT \in Nat /\ RingSize = RXSTOP_INIT + 1
  BY RingIs
<1>7. CASE r = b
  <2>1. x + y <= RXSTOP_INIT
    <3>1. CASE x = 0
      BY <1>6, <3>1
    <3>2. CASE x # 0
      <4>1. w # r
        BY <1>5, <1>7, <3>2
      <4>2. Distance(w, r) = RingSize - x
        BY <1>4, <1>6, <1>7, <3>2
      <4> QED
        BY <1>3, <1>6, <4>1, <4>2
    <3> QED
      BY <3>1, <3>2
  <2>2. x + y \in Ring
    BY <1>6, <2>1, RingIs
  <2> QED
    BY <1>1, <1>7, <2>2, PosOfPos DEF w, r
<1>8. CASE r = OneBack(b) /\ x < RXSTOP_INIT
  <2>1. w # r
    BY <1>5, <1>6, <1>8
  <2>2. Distance(w, r) = RXSTOP_INIT - x
    BY <1>4, <1>6, <1>8
  <2>3. x + y < RXSTOP_INIT /\ x + y \in Ring
    BY <1>3, <1>6, <2>1, <2>2, RingIs
  <2> QED
    BY <1>1, <2>3, PosOfPos DEF w
<1> QED
  BY <1>7, <1>8 DEF r

\* The contents mem of the ring with frame f written from w on.
WithFrame(mem, w, f, next) ==
    [a \in Ring |-> IF Distance(w, a) <= f.len
                    THEN Cell(f, Distance(w, a), IF Distance(w, a) = 0 THEN next ELSE 0)
                    ELSE mem[a]]

\* A frame the controller stores comes to lie behind the others.
LEMMA StoredLies ==
    ASSUME NEW mem, NEW b \in Ring, NEW x \in Ring, NEW d \in Ring, NEW f \in EthFrames,
           NEW w, w = Pos(b, x), f.len < d, x + d \in Ring,
           NEW mem2, mem2 = WithFrame(mem, w, f, Pos(b, x + d))
    PROVE  LiesAt(mem2, b, x, x + d, f) /\ KeptBelow(mem, mem2, b, x)
<1> DEFINE content(k, a) == IF k <= f.len THEN Cell(f, k, IF k = 0 THEN Pos(b, x + d) ELSE 0)
                            ELSE mem[a]
<1>1. /\ w = Pos(b, x) /\ f.len \in Nat /\ x \in Nat /\ d \in Nat /\ x + d <= RXSTOP_INIT
      /\ RingSize \in Nat /\ RingSize = RXSTOP_INIT + 1 /\ RXSTOP_INIT \in Nat
  BY RingIs
<1>2. ASSUME NEW z \in Ring
      PROVE  /\ mem2[Pos(b, z)] = content(Distance(w, Pos(b, z)), Pos(b, z))
             /\ Distance(w, Pos(b, z)) = IF x <= z THEN z - x ELSE z - x + RingSize
  <2>1. Pos(b, z) \in Ring
    BY PosIs
  <2>2. Distance(Pos(b, x), Pos(b, z)) = IF x <= z THEN z - x ELSE z - x + RingSize
    BY DistanceOfPos
  <2>3. mem2[Pos(b, z)] = content(Distance(w, Pos(b, z)), Pos(b, z))
    BY <2>1 DEF WithFrame
  <2> QED
    BY <1>1, <2>2, <2>3
<1> HIDE DEF content
<1>3. ASSUME NEW k \in 0 .. f.len
      PROVE  mem2[Pos(b, x + k)] = Cell(f, k, IF k = 0 THEN Pos(b, x + d) ELSE 0)
  <2>1. x + k \in Ring /\ x <= x + k /\ (x + k) - x = k /\ k <= f.len
    BY <1>1, RingIs
  <2>2. mem2[Pos(b, x + k)] = content(k, Pos(b, x + k))
    BY <1>2, <2>1
  <2> QED
    BY <2>1, <2>2 DEF content
<1>4. mem2[Pos(b, x)] = Cell(f, 0, Pos(b, x + d))
  <2>1. 0 \in 0 .. f.len /\ x + 0 = x
    BY <1>1
  <2>2. mem2[Pos(b, x + 0)] = Cell(f, 0, IF 0 = 0 THEN Pos(b, x + d) ELSE 0)
    BY <1>3, <2>1, Zenon
  <2> QED
    BY <2>1, <2>2
<1>5. \A k \in 1 .. f.len : mem2[Pos(b, x + k)] = Cell(f, k, 0)
  <2> SUFFICES ASSUME NEW k \in 1 .. f.len PROVE mem2[Pos(b, x + k)] = Cell(f, k, 0)
    OBVIOUS
  <2>1. k \in 0 .. f.len /\ k # 0
    BY <1>1
  <2> QED
    BY <1>3, <2>1
<1>6. ASSUME NEW z \in Ring, z < x
      PROVE  mem2[Pos(b, z)] = mem[Pos(b, z)]
  <2>1. z \in Nat /\ ~(x <= z) /\ ~(z - x + RingSize <= f.len)
    BY <1>1, <1>6, RingIs
  <2>2. Distance(w, Pos(b, z)) = z - x + RingSize
    BY <1>2, <2>1
  <2>3. mem2[Pos(b, z)] = content(z - x + RingSize, Pos(b, z))
    BY <1>2, <2>2
  <2> QED
    BY <2>1, <2>3 DEF content
<1>7. x + f.len < x + d
  BY <1>1
<1> QED
  BY <1>4, <1>5, <1>6, <1>7 DEF LiesAt, KeptBelow

\* A frame from the wire joins the queue.
LEMMA FrameArrives ==
    ASSUME NEW d, NEW c, NEW c2, NEW f \in EthFrames, ~IsStarting(d), RingIsRight(d, c),
           Distance(c.ERXWRPT, NextFrame(c, f)) <= Room(c),
           c2.mem = Stored(c, f).mem, c2.ERXWRPT = NextFrame(c, f),
           c2.ERXRDPT = c.ERXRDPT, c2.EPKTCNT = c.EPKTCNT + 1,
           c = [g \in ChipFields |-> c[g]]
    PROVE  RingIsRight(d, c2) /\ QueueIn(d, c2) = Append(QueueIn(d, c), f)
<1>1. PICK q, off : InRing(d, c, q, off)
  BY DEF RingIsRight
<1> DEFINE b == Base(d)
           n == Len(q)
           x == off[n]
<1>2. /\ q \in Seq(EthFrames) /\ b \in Ring /\ Chain(c.mem, b, q, off) /\ c.EPKTCNT \in Nat
      /\ n = Count(d, c) /\ c.ERXWRPT = Pos(b, x)
      /\ c.ERXRDPT = b \/ (c.ERXRDPT = OneBack(b) /\ x < RXSTOP_INIT)
      /\ n \in Nat /\ x \in Ring
  <2>1. n \in Nat
    BY <1>1, LenProperties DEF InRing
  <2>2. n \in 0 .. n
    BY <2>1
  <2>3. x \in Ring
    BY <1>1, <2>2 DEF InRing, Chain
  <2> QED
    BY <1>1, <2>1, <2>3 DEF InRing
<1>3. PICK e \in Ring : f.len < e /\ NextFrame(c, f) = Pos(c.ERXWRPT, e)
  <2>1. c.ERXWRPT \in Ring
    BY <1>2, PosIs
  <2> QED
    BY <2>1, NextFrameIs
<1> DEFINE y == x + e
<1>4. /\ y \in Ring /\ NextFrame(c, f) = Pos(b, y)
      /\ c.ERXRDPT = b \/ (c.ERXRDPT = OneBack(b) /\ y < RXSTOP_INIT)
  <2>1. e > 0
    BY <1>3, RingIs
  <2>2. Distance(c.ERXWRPT, Pos(c.ERXWRPT, e)) <= Room(c)
    BY <1>3
  <2> HIDE DEF x, b
  <2>3. /\ x + e \in Ring /\ Pos(c.ERXWRPT, e) = Pos(b, x + e)
        /\ c.ERXRDPT = OneBack(b) /\ c.ERXRDPT # b => x + e < RXSTOP_INIT
    BY <1>2, <2>1, <2>2, RoomIs
  <2> QED
    BY <1>2, <1>3, <2>3
<1>5. LiesAt(c2.mem, b, x, y, f) /\ KeptBelow(c.mem, c2.mem, b, x)
  <2>1. c2.mem = WithFrame(c.mem, c.ERXWRPT, f, NextFrame(c, f))
    BY DEF Stored, ChipFields, WithFrame
  <2> HIDE DEF x, b
  <2>2. c2.mem = WithFrame(c.mem, c.ERXWRPT, f, Pos(b, x + e))
    BY <1>4, <2>1
  <2> QED
    BY <1>2, <1>3, <1>4, <2>2, StoredLies
<1>6. PICK off2 : /\ Chain(c2.mem, b, Append(q, f), off2) /\ off2[n + 1] = y
                  /\ \A i \in 0 .. n : off2[i] = off[i]
  <2> HIDE DEF b, y
  <2>1. IsGrown(c2.mem, b, q, off, f, y)
    BY <1>2, <1>4, <1>5, ChainGrows
  <2> QED
    BY <2>1 DEF IsGrown
<1>7. /\ Append(q, f) \in Seq(EthFrames) /\ Len(Append(q, f)) = n + 1
      /\ Append(q, f) # <<>> /\ (q # <<>> => Head(Append(q, f)) = Head(q))
  <2>1. /\ Append(q, f) \in Seq(EthFrames) /\ Len(Append(q, f)) = n + 1 /\ Append(q, f) # <<>>
        /\ \A i \in 1 .. n : Append(q, f)[i] = q[i]
    BY <1>2, AppendProperties
  <2>2. ASSUME q # <<>> PROVE Head(Append(q, f)) = Head(q)
    <3>1. 1 \in 1 .. n
      BY <1>2, <2>2, EmptySeq
    <3>2. Append(q, f)[1] = q[1]
      BY <2>1, <3>1
    <3> QED
      BY <3>2 DEF Head
  <2> QED
    BY <2>1, <2>2
<1>8. InRing(d, c2, Append(q, f), off2)
  <2>1. c2.EPKTCNT \in Nat /\ n + 1 = Count(d, c2)
    BY <1>2 DEF Count
  <2>2. d.pc \in {"copy", "free"} =>
            q # <<>> /\ d.head.frame = Head(q) /\ d.next = Pos(b, off2[1])
    <3>1. d.pc \in {"copy", "free"} => q # <<>> /\ d.head.frame = Head(q) /\ d.next = Pos(b, off[1])
      BY <1>1 DEF InRing
    <3>2. q # <<>> => 1 \in 0 .. n
      BY <1>2, EmptySeq
    <3> QED
      BY <1>6, <3>1, <3>2
  <2>3. c2.ERXWRPT = Pos(b, off2[n + 1])
    BY <1>4, <1>6
  <2>4. c2.ERXRDPT = b \/ (c2.ERXRDPT = OneBack(b) /\ off2[n + 1] < RXSTOP_INIT)
    BY <1>4, <1>6
  <2> HIDE DEF n, y, x
  <2> QED
    BY <1>2, <1>6, <1>7, <2>1, <2>2, <2>3, <2>4 DEF InRing
<1>9. QueueIn(d, c) = Queued(d, q) /\ QueueIn(d, c2) = Queued(d, Append(q, f))
  BY <1>1, <1>8, QueueIs
<1>10. Queued(d, Append(q, f)) = Append(Queued(d, q), f)
  <2>1. CASE d.pc \in {"back", "count"}
    <3> DEFINE h == <<d.head.frame>>
    <3>1. h \in Seq(EthFrames)
      BY <2>1 DEF RingIsRight, Taken
    <3> HIDE DEF h
    <3>2. /\ Append(q, f) = q \o <<f>> /\ h \o q \in Seq(EthFrames)
          /\ <<f>> \in Seq(EthFrames)
      BY <1>2, <3>1, AppendIsConcat, ConcatProperties
    <3>3. Append(h \o q, f) = (h \o q) \o <<f>>
      BY <3>2, AppendIsConcat
    <3>4. h \o (q \o <<f>>) = (h \o q) \o <<f>>
      BY <1>2, <3>1, <3>2, ConcatAssociative
    <3> QED
      BY <2>1, <3>2, <3>3, <3>4 DEF Queued, h
  <2>2. CASE ~(d.pc \in {"back", "count"})
    BY <2>2 DEF Queued
  <2> QED
    BY <2>1, <2>2
<1>11. RingIsRight(d, c2)
  <2>1. Idle(d, c2)
    BY DEF Idle, IsStarting
  <2>2. c2.EPKTCNT # 0
    BY <1>2
  <2> QED
    BY <1>8, <2>1, <2>2 DEF RingIsRight
<1> QED
  BY <1>9, <1>10, <1>11

ReadsHeader(d, c, d2, c2) ==
    /\ d.pc = "header"
    /\ d2.pc = "copy"
    /\ \A g \in RingFields : c2[g] = c[g]
    /\ d2.start = d.next
    /\ d2.head = c.mem[d.next]
    /\ d2.next = c.mem[d.next].next

\* The driver takes the first frame in hand: next is now behind it.
LEMMA HeaderIsRead ==
    ASSUME NEW d, NEW c, NEW d2, NEW c2,
           RingIsRight(d, c), ReadsHeader(d, c, d2, c2)
    PROVE  RingIsRight(d2, c2) /\ QueueIn(d2, c2) = QueueIn(d, c)
<1> USE DEF ReadsHeader
<1>1. PICK q, off : InRing(d, c, q, off)
  BY DEF RingIsRight, IsStarting
<1>2. /\ q \in Seq(EthFrames) /\ d.next \in Ring /\ Chain(c.mem, d.next, q, off)
      /\ c.EPKTCNT \in Nat /\ Len(q) = c.EPKTCNT /\ Base(d) = d.next
  BY <1>1 DEF InRing, Base, Count
<1>3. q # <<>>
  BY <1>2, EmptySeq DEF RingIsRight
<1>4. Head(q) \in EthFrames /\ d2.head.frame = Head(q) /\ d2.next = Pos(d.next, off[1])
  BY <1>2, <1>3, ChainBegins
<1>5. /\ c2.mem = c.mem /\ c2.ERXWRPT = c.ERXWRPT /\ c2.ERXRDPT = c.ERXRDPT
      /\ c2.EPKTCNT = c.EPKTCNT
  BY DEF RingFields
<1>6. Base(d2) = d.next /\ Count(d2, c2) = Count(d, c)
  BY <1>5 DEF Base, Count
<1>7. InRing(d2, c2, q, off)
  BY <1>1, <1>2, <1>3, <1>4, <1>5, <1>6 DEF InRing
<1>8. RingIsRight(d2, c2)
  BY <1>4, <1>7 DEF RingIsRight, Idle, Taken
<1>9. QueueIn(d, c) = Queued(d, q) /\ QueueIn(d2, c2) = Queued(d2, q)
  BY <1>1, <1>7, QueueIs DEF IsStarting
<1> QED
  BY <1>8, <1>9 DEF Queued

CopiesData(d, c, d2) ==
    /\ d.pc = "copy"
    /\ d2.pc = "free"
    /\ d2.start = d.start
    /\ d2.head = d.head
    /\ d2.next = d.next
    /\ d2.data = [i \in 1 .. PacketLen(d.head) |->
                        <<c.mem[(d.start + i) % RingSize].frame.id,
                          c.mem[(d.start + i) % RingSize].part>>]

\* Copying the packet reads its pieces, as many as fit the buffer.
LEMMA PacketIsCopied ==
    ASSUME NEW d, NEW c, NEW d2,
           RingIsRight(d, c), CopiesData(d, c, d2)
    PROVE  RingIsRight(d2, c) /\ QueueIn(d2, c) = QueueIn(d, c)
<1> USE DEF CopiesData
<1>1. PICK q, off : InRing(d, c, q, off)
  BY DEF RingIsRight, IsStarting
<1> DEFINE f == Head(q)
<1>2. /\ q \in Seq(EthFrames) /\ d.start \in Ring /\ Chain(c.mem, d.start, q, off)
      /\ q # <<>> /\ d.head.frame = f
  BY <1>1 DEF InRing, Base
<1>3. f \in EthFrames /\ LiesAt(c.mem, d.start, 0, off[1], f) /\ f.len \in Nat
  BY <1>2, ChainBegins, RingIs
<1> HIDE DEF f
<1>4. PacketLen(d.head) = IF ~f.ok THEN 0 ELSE IF f.len < EthMaxlen THEN f.len ELSE EthMaxlen - 1
  <2>1. f.len > EthMaxlen - 1 <=> ~(f.len < EthMaxlen)
    BY <1>3, RingIs
  <2> QED
    BY <1>2, <2>1 DEF PacketLen
<1>5. PacketLen(d.head) \in Nat /\ PacketLen(d.head) <= f.len
  BY <1>3, <1>4, RingIs
<1>6. ASSUME NEW i \in 1 .. PacketLen(d.head)
      PROVE  <<c.mem[(d.start + i) % RingSize].frame.id, c.mem[(d.start + i) % RingSize].part>>
                 = <<f.id, i>>
  <2>1. i \in 1 .. f.len /\ 0 + i = i
    BY <1>3, <1>5
  <2>2. c.mem[Pos(d.start, 0 + i)] = Cell(f, i, 0)
    BY <1>3, <2>1, Zenon DEF LiesAt
  <2>3. c.mem[(d.start + i) % RingSize] = Cell(f, i, 0)
    BY <2>1, <2>2 DEF Pos
  <2> QED
    BY <2>3 DEF Cell
<1>7. d2.data = [i \in 1 .. PacketLen(d.head) |-> <<f.id, i>>]
  BY <1>6
<1>8. d2.data = HandedOver(f)
  BY <1>4, <1>7 DEF HandedOver
<1>9. Base(d2) = Base(d) /\ Count(d2, c) = Count(d, c)
  BY DEF Base, Count
<1>10. InRing(d2, c, q, off)
  BY <1>1, <1>9 DEF InRing
<1>11. RingIsRight(d2, c)
  BY <1>2, <1>3, <1>8, <1>10 DEF RingIsRight, Idle, Taken
<1>12. QueueIn(d, c) = Queued(d, q) /\ QueueIn(d2, c) = Queued(d2, q)
  BY <1>1, <1>10, QueueIs DEF IsStarting
<1> QED
  BY <1>11, <1>12 DEF Queued

Frees(d, c, d2, c2) ==
    /\ d.pc = "free"
    /\ d2.pc = "back"
    /\ d2.next = d.next
    /\ d2.head = d.head
    /\ d2.data = d.data
    /\ c2.mem = [a \in Ring |->
                        IF Distance(d.start, a) < Distance(d.start, d.next)
                        THEN Cell(Nobody, 0, 0) ELSE c.mem[a]]
    /\ c2.ERXRDPT = d.next
    /\ c2.ERXWRPT = c.ERXWRPT
    /\ c2.EPKTCNT = c.EPKTCNT

\* Its cells are free when the read pointer has moved to the next packet.
LEMMA PacketIsFreed ==
    ASSUME NEW d, NEW c, NEW d2, NEW c2,
           RingIsRight(d, c), Frees(d, c, d2, c2)
    PROVE  RingIsRight(d2, c2) /\ QueueIn(d2, c2) = QueueIn(d, c)
<1> USE DEF Frees
<1>1. PICK q, off : InRing(d, c, q, off)
  BY DEF RingIsRight, IsStarting
<1> DEFINE b == d.start
           s == off[1]
           x == off[Len(q)]
<1>2. /\ q \in Seq(EthFrames) /\ b \in Ring /\ Chain(c.mem, b, q, off) /\ c.EPKTCNT \in Nat
      /\ q # <<>> /\ d.head.frame = Head(q) /\ d.next = Pos(b, s)
      /\ Len(q) = c.EPKTCNT /\ c.ERXWRPT = Pos(b, x)
  BY <1>1 DEF InRing, Base, Count
<1>3. s \in Ring /\ x \in Ring /\ s <= x
  BY <1>2, ChainBegins
<1>4. KeptFrom(c.mem, c2.mem, b, s)
  <2> SUFFICES ASSUME NEW z \in Ring, s <= z PROVE c2.mem[Pos(b, z)] = c.mem[Pos(b, z)]
    BY DEF KeptFrom
  <2>1. /\ Pos(b, 0) = b /\ 0 \in Ring /\ Pos(b, z) \in Ring
    BY <1>2, PosOfZero, PosIs
  <2>2. /\ Distance(Pos(b, 0), Pos(b, z)) = IF 0 <= z THEN z - 0 ELSE z - 0 + RingSize
        /\ Distance(Pos(b, 0), Pos(b, s)) = IF 0 <= s THEN s - 0 ELSE s - 0 + RingSize
    BY <1>2, <1>3, <2>1, DistanceOfPos
  <2>3. ~(Distance(b, Pos(b, z)) < Distance(b, Pos(b, s)))
    <3>1. z \in Nat /\ s \in Nat
      BY <1>3, RingIs
    <3> HIDE DEF s
    <3>2. Distance(b, Pos(b, z)) = z /\ Distance(b, Pos(b, s)) = s
      BY <2>1, <2>2, <3>1
    <3> QED
      BY <3>1, <3>2
  <2> QED
    BY <1>2, <2>1, <2>3
<1>5. PICK off2 : /\ Chain(c2.mem, Pos(b, s), Tail(q), off2)
                  /\ off2[Len(Tail(q))] = x - s
  <2>1. IsDropped(c2.mem, b, q, off)
    <3> HIDE DEF b
    <3> QED
      BY <1>2, <1>4, ChainDrops
  <2> QED
    BY <2>1 DEF IsDropped
<1>6. /\ <<Head(q)>> \o Tail(q) = q /\ Tail(q) \in Seq(EthFrames)
      /\ Len(Tail(q)) = c.EPKTCNT - 1
  BY <1>2, FirstAndRest
<1>7. Pos(b, s) \in Ring /\ Pos(Pos(b, s), x - s) = Pos(b, x)
  <2>1. x - s \in Ring /\ s + (x - s) = x
    <3> HIDE DEF x, s
    <3> QED
      BY <1>3, RingIs
  <2> QED
    BY <1>2, <1>3, <2>1, PosOfPos, PosIs
<1>8. InRing(d2, c2, Tail(q), off2)
  <2>1. Base(d2) = Pos(b, s) /\ Count(d2, c2) = c.EPKTCNT - 1
    BY <1>2 DEF Base, Count
  <2> HIDE DEF b, s, x
  <2> QED
    BY <1>2, <1>5, <1>6, <1>7, <2>1 DEF InRing
<1>9. RingIsRight(d2, c2)
  BY <1>8 DEF RingIsRight, Idle, Taken
<1>10. QueueIn(d, c) = Queued(d, q) /\ QueueIn(d2, c2) = Queued(d2, Tail(q))
  BY <1>1, <1>8, QueueIs DEF IsStarting
<1> QED
  BY <1>2, <1>6, <1>9, <1>10 DEF Queued

Moves(d, c, d2, c2) ==
    /\ d.pc = "back"
    /\ d2.pc = "count"
    /\ d2.next = d.next
    /\ d2.head = d.head
    /\ d2.data = d.data
    /\ c2.mem = c.mem
    /\ c2.ERXWRPT = c.ERXWRPT
    /\ c2.EPKTCNT = c.EPKTCNT
    /\ c2.ERXRDPT = OneBack(d.next)
    /\ c.ERXWRPT # OneBack(d.next)

\* Then it moves one cell back, which leaves room for the frames that wait.
LEMMA PointerIsMoved ==
    ASSUME NEW d, NEW c, NEW d2, NEW c2,
           RingIsRight(d, c), Moves(d, c, d2, c2)
    PROVE  RingIsRight(d2, c2) /\ QueueIn(d2, c2) = QueueIn(d, c)
<1> USE DEF Moves
<1>1. PICK q, off : InRing(d, c, q, off)
  BY DEF RingIsRight, IsStarting
<1> DEFINE x == off[Len(q)]
<1>2. /\ q \in Seq(EthFrames) /\ d.next \in Ring /\ Chain(c.mem, d.next, q, off)
      /\ c.ERXWRPT = Pos(d.next, x) /\ Base(d2) = d.next /\ Base(d) = d.next
      /\ Count(d2, c2) = Count(d, c)
  BY <1>1 DEF InRing, Base, Count
<1>3. x \in Ring
  <2>1. Len(q) \in 0 .. Len(q)
    BY <1>2, LenProperties
  <2> QED
    BY <1>2, <2>1 DEF Chain
<1>4. x < RXSTOP_INIT
  <2>1. x # RXSTOP_INIT
    BY <1>2, OneBackIs
  <2> HIDE DEF x
  <2> QED
    BY <1>3, <2>1, RingIs
<1>5. InRing(d2, c2, q, off)
  BY <1>1, <1>2, <1>4 DEF InRing
<1>6. RingIsRight(d2, c2)
  BY <1>5 DEF RingIsRight, Idle, Taken
<1>7. QueueIn(d, c) = Queued(d, q) /\ QueueIn(d2, c2) = Queued(d2, q)
  BY <1>1, <1>5, QueueIs DEF IsStarting
<1> QED
  BY <1>6, <1>7 DEF Queued

LEMMA OneInFront ==
    ASSUME NEW S, NEW e \in S, NEW q \in Seq(S)
    PROVE  <<e>> \o q # <<>> /\ Head(<<e>> \o q) = e /\ Tail(<<e>> \o q) = q
<1> DEFINE h == <<e>>
           r == h \o q
<1>1. h \in Seq(S) /\ Len(h) = 1 /\ h[1] = e /\ Len(q) \in Nat
  BY LenProperties
<1> HIDE DEF h
<1>2. /\ r \in Seq(S) /\ Len(r) = Len(h) + Len(q)
      /\ \A i \in 1 .. Len(h) + Len(q) : r[i] = IF i <= Len(h) THEN h[i] ELSE q[i - Len(h)]
  BY <1>1, ConcatProperties
<1> HIDE DEF r
<1>3. /\ Len(r) = 1 + Len(q) /\ r[1] = e
      /\ \A i \in 1 .. Len(q) : r[i + 1] = q[i]
  <2>1. Len(r) = 1 + Len(q)
    BY <1>1, <1>2
  <2>2. r[1] = e
    <3>1. 1 \in 1 .. Len(h) + Len(q) /\ 1 <= Len(h)
      BY <1>1
    <3> QED
      BY <1>1, <1>2, <3>1
  <2>3. ASSUME NEW i \in 1 .. Len(q)
        PROVE  r[i + 1] = q[i]
    <3>1. i + 1 \in 1 .. Len(h) + Len(q) /\ ~(i + 1 <= Len(h)) /\ (i + 1) - Len(h) = i
      BY <1>1
    <3> QED
      BY <1>2, <3>1
  <2> QED
    BY <2>1, <2>2, <2>3
<1>4. r # <<>>
  <2>1. Len(r) # 0
    BY <1>1, <1>3
  <2> QED
    BY <1>2, <2>1, EmptySeq
<1>5. /\ Head(r) = r[1] /\ Tail(r) \in Seq(S) /\ Len(Tail(r)) = Len(r) - 1
      /\ \A i \in 1 .. Len(Tail(r)) : Tail(r)[i] = r[i + 1]
  BY <1>2, <1>4, HeadTailProperties
<1>6. Tail(r) = q
  <2>1. Len(Tail(r)) = Len(q)
    BY <1>1, <1>3, <1>5
  <2>2. \A i \in 1 .. Len(q) : Tail(r)[i] = q[i]
    BY <1>3, <1>5, <2>1
  <2> QED
    BY <1>5, <2>1, <2>2, SeqEqual
<1> QED
  BY <1>3, <1>4, <1>5, <1>6 DEF h, r

CountsDown(d, c, d2, c2) ==
    /\ d.pc = "count"
    /\ d2.pc = "main"
    /\ d2.next = d.next
    /\ c2.mem = c.mem
    /\ c2.ERXWRPT = c.ERXWRPT
    /\ c2.ERXRDPT = c.ERXRDPT
    /\ c2.EPKTCNT = c.EPKTCNT - 1

\* The frame leaves the queue and its pieces go to the caller.
LEMMA PacketIsDone ==
    ASSUME NEW d, NEW c, NEW d2, NEW c2,
           RingIsRight(d, c), CountsDown(d, c, d2, c2)
    PROVE  /\ RingIsRight(d2, c2) /\ QueueIn(d, c) # <<>>
           /\ QueueIn(d2, c2) = Tail(QueueIn(d, c)) /\ d.data = HandedOver(Head(QueueIn(d, c)))
<1> USE DEF CountsDown
<1>1. PICK q, off : InRing(d, c, q, off)
  BY DEF RingIsRight, IsStarting
<1>2. /\ q \in Seq(EthFrames) /\ c.EPKTCNT \in Nat /\ Len(q) = c.EPKTCNT - 1
      /\ Base(d2) = Base(d) /\ Count(d2, c2) = Count(d, c) /\ Len(q) \in Nat
  BY <1>1, LenProperties DEF InRing, Base, Count
<1>3. InRing(d2, c2, q, off)
  <2>1. c2.EPKTCNT \in Nat
    BY <1>2
  <2> QED
    BY <1>1, <1>2, <2>1 DEF InRing
<1>4. RingIsRight(d2, c2)
  BY <1>3 DEF RingIsRight, Idle, Taken
<1>5. QueueIn(d, c) = <<d.head.frame>> \o q /\ QueueIn(d2, c2) = q
  BY <1>1, <1>3, QueueIs DEF IsStarting, Queued
<1>6. d.head.frame \in EthFrames /\ d.data = HandedOver(d.head.frame)
  BY DEF RingIsRight, Taken
<1>7. /\ <<d.head.frame>> \o q # <<>> /\ Head(<<d.head.frame>> \o q) = d.head.frame
      /\ Tail(<<d.head.frame>> \o q) = q
  BY <1>1, <1>6, OneInFront DEF InRing
<1> QED
  BY <1>4, <1>5, <1>6, <1>7

LEMMA StartingIs ==
    ASSUME NEW d, NEW c, IsStarting(d), Idle(d, c)
    PROVE  RingIsRight(d, c) /\ QueueIn(d, c) = <<>>
BY DEF RingIsRight, QueueIn, Taken, IsStarting

\* Reception begins with an empty ring.
LEMMA RingBegins ==
    ASSUME NEW d, NEW c, d.pc = "receive", d.next = 0,
           c.EPKTCNT = 0, c.ERXWRPT = 0, c.ERXRDPT = 0
    PROVE  RingIsRight(d, c) /\ QueueIn(d, c) = <<>>
<1> DEFINE q == <<>>
           off == [i \in {0} |-> 0]
<1>1. q \in Seq(EthFrames) /\ Len(q) = 0
  BY EmptySeq
<1>2. 0 \in Ring /\ Pos(0, 0) = 0
  <2>1. 0 \in Ring
    BY RingIs
  <2> QED
    BY <2>1, PosOfZero
<1>3. off[0] = 0
  OBVIOUS
<1> HIDE DEF q, off
<1>4. Chain(c.mem, 0, q, off)
  <2>1. \A i \in 0 .. Len(q) : i = 0
    BY <1>1
  <2>2. \A i \in 1 .. Len(q) : FALSE
    BY <1>1
  <2>3. \A i \in 0 .. Len(q) : off[i] \in Ring
    BY <1>2, <1>3, <2>1
  <2>4. \A i, j \in 0 .. Len(q) : i <= j => off[i] <= off[j]
    BY <1>3, <2>1
  <2> QED
    BY <1>3, <2>2, <2>3, <2>4 DEF Chain
<1>5. Base(d) = 0 /\ Count(d, c) = 0
  BY DEF Base, Count
<1>6. InRing(d, c, q, off)
  BY <1>1, <1>2, <1>3, <1>4, <1>5 DEF InRing
<1>7. RingIsRight(d, c)
  BY <1>6 DEF RingIsRight, Idle, Taken
<1>8. QueueIn(d, c) = Queued(d, q)
  BY <1>6, QueueIs DEF IsStarting
<1> QED
  BY <1>7, <1>8 DEF Queued, q

-----------------------------------------------------------------------------
(* The driver's operations and the queue                                   *)

QueueStays == QueueIn(drv', chip') = QueueIn(drv, chip)

LEMMA StartDrives ==
    ASSUME Records, RingInv, SoftReset \/ SetBuffers \/ SetMac \/ EnableReception
    PROVE  RingInv' /\ QueueStays
<1>1. /\ drv = [f \in DrvFields |-> drv[f]] /\ chip = [f \in ChipFields |-> chip[f]]
  BY DEF Records
<1>2. Idle(drv, chip)
  BY DEF RingInv, RingIsRight
<1>3. CASE SoftReset
  <2>1. IsStarting(drv) /\ drv'.pc = "buffers" /\ ~chip'.RXEN /\ chip'.EPKTCNT = 0
    BY <1>1, <1>3 DEF SoftReset, IsStarting, DrvFields, ChipFields
  <2>2. IsStarting(drv') /\ Idle(drv', chip')
    BY <2>1 DEF IsStarting, Idle
  <2> QED
    BY <1>2, <2>1, <2>2, StartingIs DEF RingInv, QueueStays
<1>4. CASE SetBuffers
  <2>1. IsStarting(drv) /\ ~chip.RXEN /\ chip.EPKTCNT = 0
    BY <1>2, <1>4 DEF SetBuffers, IsStarting, Idle
  <2> DEFINE D == GoTo("mac", 0)
             C == InBank(chip, 0)
  <2>2. /\ D = [f \in DrvFields |-> D[f]] /\ D.pc = "mac"
        /\ C = [f \in ChipFields |-> C[f]]
        /\ C.RXEN = chip.RXEN /\ C.EPKTCNT = chip.EPKTCNT
    BY DriverGoes, OnlyBank DEF ChipFields
  <2>3. /\ drv' = [D EXCEPT !.next = 0]
        /\ chip' = [C EXCEPT !.ERXWRPT = 0, !.ERXRDPT = 0]
    BY <1>4 DEF SetBuffers, RXSTART_INIT
  <2> HIDE DEF D, C
  <2>4. /\ drv'.pc = "mac" /\ drv'.next = 0 /\ ~chip'.RXEN /\ chip'.EPKTCNT = 0
        /\ chip'.ERXWRPT = 0 /\ chip'.ERXRDPT = 0
    BY <2>1, <2>2, <2>3 DEF DrvFields, ChipFields
  <2>5. IsStarting(drv') /\ Idle(drv', chip')
    BY <2>4 DEF IsStarting, Idle
  <2> QED
    BY <1>2, <2>1, <2>5, StartingIs DEF RingInv, QueueStays
<1>5. CASE SetMac
  <2>1. /\ IsStarting(drv) /\ ~chip.RXEN /\ chip.EPKTCNT = 0
        /\ chip.ERXWRPT = 0 /\ chip.ERXRDPT = 0 /\ drv.next = 0
    BY <1>2, <1>5 DEF SetMac, IsStarting, Idle
  <2>2. /\ drv'.pc = "enable" /\ drv'.next = drv.next
        /\ \A f \in RingFields : chip'[f] = chip[f]
    <3>1. drv' = GoTo("enable", 3) /\ chip' = InBank(chip, 3)
      BY <1>5 DEF SetMac
    <3> QED
      BY <3>1, DriverGoes, OnlyBank DEF DrvFields, ChipFields, RingFields
  <2>3. IsStarting(drv') /\ Idle(drv', chip')
    BY <2>1, <2>2 DEF IsStarting, Idle, RingFields
  <2> QED
    BY <1>2, <2>1, <2>3, StartingIs DEF RingInv, QueueStays
<1>6. CASE EnableReception
  <2>1. /\ IsStarting(drv) /\ chip.EPKTCNT = 0
        /\ chip.ERXWRPT = 0 /\ chip.ERXRDPT = 0 /\ drv.next = 0
    BY <1>2, <1>6 DEF EnableReception, IsStarting, Idle
  <2>2. /\ drv'.pc = "receive" /\ drv'.next = drv.next
    <3>1. drv' = GoTo("receive", 0)
      BY <1>6 DEF EnableReception
    <3> QED
      BY <3>1, DriverGoes DEF DrvFields
  <2>3. /\ chip'.EPKTCNT = 0 /\ chip'.ERXWRPT = 0 /\ chip'.ERXRDPT = 0
    <3> DEFINE C == InBank(chip, 0)
    <3>1. /\ C = [f \in ChipFields |-> C[f]] /\ C.EPKTCNT = chip.EPKTCNT
          /\ C.ERXWRPT = chip.ERXWRPT /\ C.ERXRDPT = chip.ERXRDPT
      BY OnlyBank DEF ChipFields
    <3>2. chip' = [C EXCEPT !.RXEN = TRUE]
      BY <1>6 DEF EnableReception
    <3> HIDE DEF C
    <3> QED
      BY <2>1, <3>1, <3>2 DEF ChipFields
  <2>4. RingIsRight(drv', chip') /\ QueueIn(drv', chip') = <<>>
    BY <2>1, <2>2, <2>3, RingBegins
  <2> QED
    BY <1>2, <2>1, <2>4, StartingIs DEF RingInv, QueueStays
<1> QED
  BY <1>3, <1>4, <1>5, <1>6

\* Sending, and looking whether there is a packet, leave the ring alone.
LEMMA OthersDrive ==
    ASSUME Records, RingInv,
           ReadCount \/ MainLoop \/ SendReady \/ SendBusy \/ WriteFrame \/ StartSend \/ ChipTransmits
    PROVE  RingInv' /\ QueueStays
<1>1. /\ drv = [f \in DrvFields |-> drv[f]] /\ chip = [f \in ChipFields |-> chip[f]]
  BY DEF Records
<1> SUFFICES IsQuiet(drv, chip, drv', chip')
  BY QuietStays DEF RingInv, QueueStays
<1>2. CASE ReadCount
  <2>1. /\ drv' = GoTo(IF chip.EPKTCNT = 0 THEN "main" ELSE "header", 1)
        /\ chip' = InBank(chip, 1) /\ drv.pc = "receive"
    BY <1>2 DEF ReadCount
  <2>2. /\ drv'.pc = (IF chip.EPKTCNT = 0 THEN "main" ELSE "header")
        /\ \A f \in ReadFields : drv'[f] = drv[f]
        /\ \A f \in RingFields : chip'[f] = chip[f]
    BY <2>1, DriverGoes, OnlyBank DEF DrvFields, ChipFields, RingFields, ReadFields
  <2> QED
    BY <2>1, <2>2 DEF IsQuiet, Outside
<1>3. CASE MainLoop
  <2>1. /\ \A f \in ReadFields : drv'[f] = drv[f]
        /\ drv'.pc \in {"ready?", "receive"} /\ drv.pc = "main" /\ chip' = chip
    BY <1>1, <1>3 DEF MainLoop, DrvFields, ReadFields
  <2> QED
    BY <2>1 DEF IsQuiet, Outside
<1>4. CASE SendReady
  <2>1. /\ \A f \in ReadFields : drv'[f] = drv[f]
        /\ drv'.pc = "write" /\ drv.pc = "ready?" /\ chip' = chip
    BY <1>1, <1>4 DEF SendReady, DrvFields, ReadFields
  <2> QED
    BY <2>1 DEF IsQuiet, Outside
<1>5. CASE SendBusy
  <2> DEFINE C == InBank(chip, 0)
  <2>1. /\ C = [f \in ChipFields |-> C[f]] /\ \A f \in RingFields : C[f] = chip[f]
    BY OnlyBank DEF ChipFields, RingFields
  <2>2. /\ drv' = GoTo("ready?", 0) /\ drv.pc = "ready?"
        /\ chip' = [C EXCEPT !.TXRTS = @ /\ ~MustReset(chip), !.stuck = @ /\ ~MustReset(chip)]
    BY <1>5 DEF SendBusy
  <2> HIDE DEF C
  <2>3. \A f \in RingFields : chip'[f] = chip[f]
    BY <2>1, <2>2 DEF ChipFields, RingFields
  <2>4. drv'.pc = "ready?" /\ \A f \in ReadFields : drv'[f] = drv[f]
    BY <2>2, DriverGoes DEF DrvFields, ReadFields
  <2> QED
    BY <2>2, <2>3, <2>4 DEF IsQuiet
<1>6. CASE WriteFrame
  <2> DEFINE C == InBank(chip, 0)
  <2>1. /\ C = [f \in ChipFields |-> C[f]] /\ \A f \in RingFields : C[f] = chip[f]
    BY OnlyBank DEF ChipFields, RingFields
  <2>2. /\ drv' = GoTo("start", 0) /\ drv.pc = "write"
        /\ chip' = [C EXCEPT !.buffer = drv.out]
    BY <1>6 DEF WriteFrame
  <2> HIDE DEF C
  <2>3. \A f \in RingFields : chip'[f] = chip[f]
    BY <2>1, <2>2 DEF ChipFields, RingFields
  <2>4. drv'.pc = "start" /\ \A f \in ReadFields : drv'[f] = drv[f]
    BY <2>2, DriverGoes DEF DrvFields, ReadFields
  <2> QED
    BY <2>2, <2>3, <2>4 DEF IsQuiet, Outside
<1>7. CASE StartSend
  <2>1. /\ \A f \in ReadFields : drv'[f] = drv[f]
        /\ \A f \in RingFields : chip'[f] = chip[f]
        /\ drv'.pc = "receive" /\ drv.pc = "start"
    BY <1>1, <1>7 DEF StartSend, DrvFields, ReadFields, ChipFields, RingFields
  <2> QED
    BY <2>1 DEF IsQuiet, Outside
<1>8. CASE ChipTransmits
  <2>1. /\ drv' = drv
        /\ \/ chip' = [chip EXCEPT !.TXRTS = FALSE]
           \/ chip' = [chip EXCEPT !.TXERIF = TRUE, !.TXRTS = FALSE]
           \/ chip' = [chip EXCEPT !.TXERIF = TRUE, !.stuck = TRUE]
    BY <1>8 DEF ChipTransmits
  <2>2. \A f \in RingFields : chip'[f] = chip[f]
    <3> HIDE DEF RingFields
    <3>1. \A f \in RingFields : f \in ChipFields /\ f \notin {"TXRTS", "TXERIF", "stuck"}
      BY DEF RingFields, ChipFields
    <3> QED
      BY <1>1, <2>1, <3>1
  <2> QED
    BY <2>1, <2>2 DEF IsQuiet, RingInv, RingIsRight
<1> QED
  BY <1>2, <1>3, <1>4, <1>5, <1>6, <1>7, <1>8

LEMMA ReceptionDrives ==
    ASSUME Records, RingInv, NotFilled, ReadHeader \/ CopyPacket \/ FreePacket \/ MoveBack
    PROVE  RingInv' /\ QueueStays
<1>1. /\ drv = [f \in DrvFields |-> drv[f]] /\ chip = [f \in ChipFields |-> chip[f]]
  BY DEF Records
<1>2. RingIsRight(drv, chip)
  BY DEF RingInv
<1>3. CASE ReadHeader
  <2> DEFINE D == GoTo("copy", 0)
             head == chip.mem[drv.next]
  <2>1. /\ D = [f \in DrvFields |-> D[f]] /\ D.pc = "copy"
        /\ \A f \in RingFields : InBank(chip, 0)[f] = chip[f]
    BY DriverGoes, OnlyBank DEF ChipFields, RingFields
  <2>2. /\ drv' = [D EXCEPT !.start = drv.next, !.head = head, !.next = head.next]
        /\ chip' = InBank(chip, 0) /\ drv.pc = "header"
    BY <1>3 DEF ReadHeader
  <2> HIDE DEF D, head
  <2>3. drv'.pc = "copy" /\ drv'.start = drv.next /\ drv'.head = head /\ drv'.next = head.next
    BY <2>1, <2>2 DEF DrvFields
  <2>4. \A f \in RingFields : chip'[f] = chip[f]
    BY <2>1, <2>2
  <2>5. ReadsHeader(drv, chip, drv', chip')
    BY <2>2, <2>3, <2>4 DEF ReadsHeader, head
  <2> QED
    BY <1>2, <2>5, HeaderIsRead DEF RingInv, QueueStays
<1>4. CASE CopyPacket
  <2> DEFINE data == [i \in 1 .. PacketLen(drv.head) |->
                        <<chip.mem[(drv.start + i) % RingSize].frame.id,
                          chip.mem[(drv.start + i) % RingSize].part>>]
  <2>1. drv' = [drv EXCEPT !.pc = "free", !.data = data] /\ chip' = chip /\ drv.pc = "copy"
    BY <1>4 DEF CopyPacket
  <2> HIDE DEF data
  <2>2. /\ drv'.pc = "free" /\ drv'.data = data /\ drv'.start = drv.start
        /\ drv'.head = drv.head /\ drv'.next = drv.next
    BY <1>1, <2>1 DEF DrvFields
  <2>3. CopiesData(drv, chip, drv')
    BY <2>1, <2>2 DEF CopiesData, data
  <2> QED
    BY <1>2, <2>1, <2>3, PacketIsCopied DEF RingInv, QueueStays
<1>5. CASE FreePacket
  <2> DEFINE D == GoTo("back", 0)
             C == InBank(chip, 0)
             mem2 == [a \in Ring |-> IF Distance(drv.start, a) < Distance(drv.start, drv.next)
                                     THEN Cell(Nobody, 0, 0) ELSE chip.mem[a]]
  <2>1. /\ D = [f \in DrvFields |-> D[f]] /\ D.pc = "back" /\ D.next = drv.next
        /\ D.head = drv.head /\ D.data = drv.data
        /\ C = [f \in ChipFields |-> C[f]]
        /\ C.mem = chip.mem /\ C.ERXWRPT = chip.ERXWRPT /\ C.EPKTCNT = chip.EPKTCNT
    BY DriverGoes, OnlyBank DEF DrvFields, ChipFields
  <2>2. drv' = [D EXCEPT !.start = 0] /\ drv.pc = "free"
    BY <1>5 DEF FreePacket
  <2>3. chip' = [C EXCEPT !.ERXRDPT = drv.next, !.mem = mem2]
    <3>1. chip' = [C EXCEPT !.ERXRDPT = drv.next,
                            !.mem = [a \in Ring |->
                              IF Distance(drv.start, a) < Distance(drv.start, drv.next)
                              THEN Cell(Nobody, 0, 0) ELSE @[a]]]
      BY <1>5 DEF FreePacket
    <3> HIDE DEF C
    <3>2. chip' = [C EXCEPT !.ERXRDPT = drv.next,
                            !.mem = [a \in Ring |->
                              IF Distance(drv.start, a) < Distance(drv.start, drv.next)
                              THEN Cell(Nobody, 0, 0) ELSE C.mem[a]]]
      BY <2>1, <3>1 DEF ChipFields
    <3> QED
      BY <2>1, <3>2
  <2> HIDE DEF D, C, mem2
  <2>4. drv'.pc = "back" /\ drv'.next = drv.next /\ drv'.head = drv.head /\ drv'.data = drv.data
    BY <2>1, <2>2 DEF DrvFields
  <2>5. /\ chip'.mem = mem2 /\ chip'.ERXRDPT = drv.next
        /\ chip'.ERXWRPT = chip.ERXWRPT /\ chip'.EPKTCNT = chip.EPKTCNT
    BY <2>1, <2>3 DEF ChipFields
  <2>6. Frees(drv, chip, drv', chip')
    BY <2>2, <2>4, <2>5 DEF Frees, mem2
  <2> QED
    BY <1>2, <2>6, PacketIsFreed DEF RingInv, QueueStays
<1>6. CASE MoveBack
  <2> DEFINE C == InBank(chip, 0)
  <2>1. /\ C = [f \in ChipFields |-> C[f]]
        /\ C.mem = chip.mem /\ C.ERXWRPT = chip.ERXWRPT /\ C.EPKTCNT = chip.EPKTCNT
    BY OnlyBank DEF ChipFields
  <2>2. /\ drv' = GoTo("count", 0) /\ drv.pc = "back"
        /\ chip' = [C EXCEPT !.ERXRDPT = OneBack(drv.next)]
    BY <1>6 DEF MoveBack
  <2> HIDE DEF C
  <2>3. drv'.pc = "count" /\ drv'.next = drv.next /\ drv'.head = drv.head /\ drv'.data = drv.data
    BY <2>2, DriverGoes DEF DrvFields
  <2>4. /\ chip'.mem = chip.mem /\ chip'.ERXRDPT = OneBack(drv.next)
        /\ chip'.ERXWRPT = chip.ERXWRPT /\ chip'.EPKTCNT = chip.EPKTCNT
    BY <2>1, <2>2 DEF ChipFields
  <2>5. chip.ERXWRPT # OneBack(drv.next)
    BY <2>2 DEF NotFilled
  <2>6. Moves(drv, chip, drv', chip')
    BY <2>2, <2>3, <2>4, <2>5 DEF Moves
  <2> QED
    BY <1>2, <2>6, PointerIsMoved DEF RingInv, QueueStays
<1> QED
  BY <1>3, <1>4, <1>5, <1>6

LEMMA CountTakes ==
    ASSUME Records, RingInv, CountPacket
    PROVE  RingInv' /\ Queue!Take
<1>1. /\ drv = [f \in DrvFields |-> drv[f]] /\ chip = [f \in ChipFields |-> chip[f]]
      /\ RingIsRight(drv, chip)
  BY DEF Records, RingInv
<1>2. drv'.pc = "main" /\ drv'.next = drv.next /\ drv.pc = "count" /\ handed' = drv.data
  BY <1>1 DEF CountPacket, DrvFields
<1>3. /\ chip'.mem = chip.mem /\ chip'.ERXRDPT = chip.ERXRDPT
      /\ chip'.ERXWRPT = chip.ERXWRPT /\ chip'.EPKTCNT = chip.EPKTCNT - 1
  BY <1>1 DEF CountPacket, ChipFields
<1>4. /\ RingIsRight(drv', chip') /\ QueueIn(drv, chip) # <<>>
      /\ QueueIn(drv', chip') = Tail(QueueIn(drv, chip))
      /\ drv.data = HandedOver(Head(QueueIn(drv, chip)))
  <2>1. CountsDown(drv, chip, drv', chip')
    BY <1>2, <1>3 DEF CountsDown
  <2> QED
    BY <1>1, <2>1, PacketIsDone
<1>5. Queue!Take
  <2>1. WaitingFrames # <<>> /\ WaitingFrames' = Tail(WaitingFrames)
    BY <1>4, QueueIsIn
  <2>2. handed' = HandedOver(Head(WaitingFrames))
    BY <1>2, <1>4, QueueIsIn
  <2> QED
    BY <2>1, <2>2 DEF Queue!Take
<1> QED
  BY <1>4, <1>5 DEF RingInv

LEMMA ChipDrives ==
    ASSUME Records, RingInv, NEW f \in EthFrames, ChipReceives(f)
    PROVE  RingInv' /\ (QueueStays \/ Queue!Arrive)
<1>1. /\ drv = [g \in DrvFields |-> drv[g]] /\ chip = [g \in ChipFields |-> chip[g]]
      /\ RingIsRight(drv, chip)
  BY DEF Records, RingInv
<1>2. /\ drv' = drv /\ handed' = handed /\ chip.RXEN /\ chip' = Stored(chip, f)
      /\ Distance(chip.ERXWRPT, NextFrame(chip, f)) <= Room(chip)
  BY DEF ChipReceives
<1>3. CASE IsStarting(drv)
  <2>1. drv.pc = "reset"
    BY <1>1, <1>2, <1>3 DEF RingIsRight, Idle, IsStarting
  <2>2. IsStarting(drv') /\ Idle(drv', chip')
    BY <1>2, <2>1 DEF IsStarting, Idle
  <2>3. Idle(drv, chip)
    BY <1>1 DEF RingIsRight
  <2> QED
    BY <1>3, <2>2, <2>3, StartingIs DEF RingInv, QueueStays
<1>4. CASE ~IsStarting(drv)
  <2>1. /\ chip'.mem = Stored(chip, f).mem /\ chip'.ERXWRPT = NextFrame(chip, f)
        /\ chip'.ERXRDPT = chip.ERXRDPT /\ chip'.EPKTCNT = chip.EPKTCNT + 1
    BY <1>1, <1>2 DEF Stored, ChipFields
  <2>2. RingIsRight(drv, chip') /\ QueueIn(drv, chip') = Append(QueueIn(drv, chip), f)
    BY <1>1, <1>2, <1>4, <2>1, FrameArrives
  <2>3. WaitingFrames' = Append(WaitingFrames, f)
    BY <1>2, <2>2, QueueIsIn
  <2>4. Queue!Arrive
    BY <1>2, <2>3 DEF Queue!Arrive
  <2> QED
    BY <1>2, <2>2, <2>4 DEF RingInv
<1> QED
  BY <1>3, <1>4

LEMMA RestartDrives ==
    ASSUME Records, RingInv, Restart
    PROVE  RingInv' /\ Queue!Restart
<1>1. drv'.pc = "reset" /\ handed' = handed
  BY DEF Records, DrvFields, Restart
<1>2. IsStarting(drv') /\ Idle(drv', chip')
  BY <1>1 DEF IsStarting, Idle
<1>3. RingIsRight(drv', chip') /\ QueueIn(drv', chip') = <<>>
  BY <1>2, StartingIs
<1> QED
  BY <1>1, <1>3, QueueIsIn DEF RingInv, Queue!Restart

LEMMA EthStepDrives ==
    ASSUME IInv, RingInv, NotFilled, [EthNext]_ethVars
    PROVE  RingInv' /\ [Queue!Next]_<<WaitingFrames, handed>>
<1>1. Records
  BY DEF IInv
<1>2. QueueStays => WaitingFrames' = WaitingFrames
  BY QueueIsIn DEF QueueStays
<1>3. CASE SoftReset \/ SetBuffers \/ SetMac \/ EnableReception
  <2>1. handed' = handed
    BY <1>3 DEF SoftReset, SetBuffers, SetMac, EnableReception
  <2> QED
    BY <1>1, <1>2, <1>3, <2>1, StartDrives
<1>4. CASE ReadCount \/ SendReady \/ SendBusy \/ WriteFrame \/ StartSend \/ ChipTransmits
  <2>1. handed' = handed
    BY <1>4 DEF ReadCount, SendReady, SendBusy, WriteFrame, StartSend, ChipTransmits
  <2> QED
    BY <1>1, <1>2, <1>4, <2>1, OthersDrive
<1>5. CASE MainLoop
  <2>1. handed' = <<>>
    BY <1>5 DEF MainLoop
  <2>2. RingInv' /\ QueueStays
    BY <1>1, <1>5, OthersDrive
  <2> QED
    BY <1>2, <2>1, <2>2 DEF Queue!Next, Queue!Forget
<1>6. CASE ReadHeader \/ CopyPacket \/ FreePacket \/ MoveBack
  <2>1. handed' = handed
    BY <1>6 DEF ReadHeader, CopyPacket, FreePacket, MoveBack
  <2> QED
    BY <1>1, <1>2, <1>6, <2>1, ReceptionDrives
<1>7. CASE CountPacket
  BY <1>1, <1>7, CountTakes DEF Queue!Next
<1>8. CASE \E f \in EthFrames : ChipReceives(f)
  <2>1. PICK f \in EthFrames : ChipReceives(f)
    BY <1>8
  <2>2. handed' = handed
    BY <2>1 DEF ChipReceives
  <2>3. RingInv' /\ (QueueStays \/ Queue!Arrive)
    BY <1>1, <2>1, ChipDrives
  <2> QED
    BY <1>2, <2>2, <2>3 DEF Queue!Next
<1>9. CASE Restart
  BY <1>1, <1>9, RestartDrives DEF Queue!Next
<1>10. CASE UNCHANGED ethVars
  <2>1. drv' = drv /\ chip' = chip /\ handed' = handed
    BY <1>10 DEF ethVars
  <2> QED
    BY <1>2, <2>1 DEF RingInv, QueueStays
<1> QED
  BY <1>3, <1>4, <1>5, <1>6, <1>7, <1>8, <1>9, <1>10 DEF EthNext, DriverStep

LEMMA EthInitDrives == EthInit => RingInv /\ Queue!Init
<1> SUFFICES ASSUME EthInit PROVE RingInv /\ Queue!Init
  OBVIOUS
<1>1. drv.pc = "reset" /\ handed = <<>>
  BY DEF EthInit
<1>2. IsStarting(drv) /\ Idle(drv, chip)
  BY <1>1 DEF IsStarting, Idle
<1> QED
  BY <1>1, <1>2, StartingIs, QueueIsIn DEF RingInv, Queue!Init

\* However frames come in between the driver's operations, and whatever the size
\* of the ring: as long as the ring is not filled to the last cell between the
\* driver's two writes of ERXRDPT, enc28j60PacketReceive() hands over the frames
\* in their order, each once, whole, with nothing of others, and none that was
\* dropped.
THEOREM FramesAreInOrder == EthSpec /\ []NotFilled => FramesInOrder
<1>1. EthSpec => []IInv
  BY InvariantHolds
<1>2. EthInit => RingInv /\ Queue!Init
  BY EthInitDrives
<1>3. IInv /\ RingInv /\ NotFilled /\ [EthNext]_ethVars
          => RingInv' /\ [Queue!Next]_<<WaitingFrames, handed>>
  BY EthStepDrives
<1> QED
  BY <1>1, <1>2, <1>3, PTL DEF EthSpec, FramesInOrder, Queue!Spec

-----------------------------------------------------------------------------
(* Addresses: a frame begins at an even one, so that the one before is odd *)
(* unless it is the end of the ring.                                       *)

\* Every address the controller or the driver goes on with is that of a frame.
EvenInv ==
    /\ drv.next \in Ring /\ drv.next % 2 = 0
    /\ chip.ERXWRPT \in Ring /\ chip.ERXWRPT % 2 = 0
    /\ chip.ERXRDPT \in Ring
    /\ \A a \in Ring : chip.mem[a].next \in Ring /\ chip.mem[a].next % 2 = 0

LEMMA NextFrameIsEven ==
    ASSUME NEW c, c.ERXWRPT \in Ring, NEW f \in EthFrames
    PROVE  NextFrame(c, f) \in Ring /\ NextFrame(c, f) % 2 = 0
<1> DEFINE x == c.ERXWRPT + 1 + f.len
           y == x % RingSize
<1>1. x \in Nat /\ RingSize \in Nat /\ RingSize > 0
  BY RingIs
<1> HIDE DEF x
<1>2. y \in Nat /\ y < RingSize
  BY <1>1
<1>3. NextFrame(c, f) = EvenUp(y) % RingSize
  BY DEF NextFrame, x
<1> HIDE DEF y
<1>4. EvenUp(y) \in Nat /\ EvenUp(y) <= RingSize /\ EvenUp(y) % 2 = 0
  BY <1>1, <1>2 DEF EvenUp
<1> DEFINE e == EvenUp(y)
<1>5. e \in Nat /\ e <= RingSize /\ e % 2 = 0 /\ NextFrame(c, f) = e % RingSize
  BY <1>3, <1>4
<1> HIDE DEF e
<1>6. e % RingSize = IF e < RingSize THEN e ELSE e - RingSize
  <2>1. e < 2 * RingSize
    BY <1>1, <1>5
  <2> QED
    BY <1>1, <1>5, <2>1, WrapIs
<1> QED
  BY <1>1, <1>5, <1>6, RingIs

LEMMA EthInitIsEven == EthInit => EvenInv
<1> SUFFICES ASSUME EthInit PROVE EvenInv
  OBVIOUS
<1>1. /\ drv.next = 0 /\ chip.ERXWRPT = 0 /\ chip.ERXRDPT = 0
      /\ chip.mem = [a \in Ring |-> Cell(Nobody, 0, 0)]
  BY DEF EthInit
<1>2. 0 \in Ring
  BY RingIs
<1> QED
  BY <1>1, <1>2 DEF EvenInv, Cell

LEMMA EthStepIsEven ==
    ASSUME IInv, EvenInv, [EthNext]_ethVars
    PROVE  EvenInv'
<1>1. /\ drv = [f \in DrvFields |-> drv[f]] /\ chip = [f \in ChipFields |-> chip[f]]
      /\ Records
  BY DEF IInv, Records
<1>2. 0 \in Ring /\ 0 % 2 = 0
  BY RingIs
<1>3. drv'.next \in Ring /\ drv'.next % 2 = 0
  <2>1. CASE ReadHeader
    <3> DEFINE D == GoTo("copy", 0)
               head == chip.mem[drv.next]
    <3>1. D = [f \in DrvFields |-> D[f]]
      BY <1>1, DriverGoes
    <3>2. drv' = [D EXCEPT !.start = drv.next, !.head = head, !.next = head.next]
      BY <2>1 DEF ReadHeader
    <3>3. head.next \in Ring /\ head.next % 2 = 0
      BY DEF EvenInv
    <3> HIDE DEF D, head
    <3> QED
      BY <3>1, <3>2, <3>3 DEF DrvFields
  <2>2. CASE SetBuffers
    <3> DEFINE D == GoTo("mac", 0)
    <3>1. D = [f \in DrvFields |-> D[f]]
      BY <1>1, DriverGoes
    <3>2. drv' = [D EXCEPT !.next = 0]
      BY <2>2 DEF SetBuffers, RXSTART_INIT
    <3> HIDE DEF D
    <3> QED
      BY <1>2, <3>1, <3>2 DEF DrvFields
  <2>3. CASE Restart
    BY <1>1, <1>2, <2>3 DEF Restart, DrvFields
  <2>4. CASE FreePacket
    <3> DEFINE D == GoTo("back", 0)
    <3>1. D = [f \in DrvFields |-> D[f]] /\ D.next = drv.next
      BY <1>1, DriverGoes DEF DrvFields
    <3>2. drv' = [D EXCEPT !.start = 0]
      BY <2>4 DEF FreePacket
    <3> HIDE DEF D
    <3>3. drv'.next = drv.next
      BY <3>1, <3>2 DEF DrvFields
    <3> QED
      BY <3>3 DEF EvenInv
  <2>5. CASE SetMac \/ EnableReception \/ ReadCount \/ MoveBack \/ SendBusy \/ WriteFrame
    <3>1. \A pc, bank : GoTo(pc, bank).next = drv.next
      BY <1>1, DriverGoes DEF DrvFields
    <3>2. \E pc, bank : drv' = GoTo(pc, bank)
      BY <2>5, Zenon DEF SetMac, EnableReception, ReadCount, MoveBack, SendBusy, WriteFrame
    <3>3. drv'.next = drv.next
      BY <3>1, <3>2
    <3> QED
      BY <3>3 DEF EvenInv
  <2>6. CASE SoftReset \/ CopyPacket \/ CountPacket \/ MainLoop \/ SendReady \/ StartSend
    <3>1. drv'.next = drv.next
      BY <1>1, <2>6 DEF SoftReset, CopyPacket, CountPacket, MainLoop, SendReady, StartSend, DrvFields
    <3> QED
      BY <3>1 DEF EvenInv
  <2>7. CASE drv' = drv
    BY <2>7 DEF EvenInv
  <2>8. ChipTransmits \/ (\E f \in EthFrames : ChipReceives(f)) \/ UNCHANGED ethVars => drv' = drv
    BY DEF ChipTransmits, ChipReceives, ethVars
  <2> QED
    BY <2>1, <2>2, <2>3, <2>4, <2>5, <2>6, <2>7, <2>8 DEF EthNext, DriverStep
<1> DEFINE Same == /\ chip'.ERXWRPT = chip.ERXWRPT /\ chip'.ERXRDPT = chip.ERXRDPT
                   /\ chip'.mem = chip.mem
<1>4. Same => EvenInv'
  BY <1>3 DEF EvenInv
<1>5. CASE SetBuffers
  <2> DEFINE C == InBank(chip, 0)
  <2>1. C = [f \in ChipFields |-> C[f]] /\ C.mem = chip.mem
    BY <1>1, OnlyBank DEF ChipFields
  <2>2. chip' = [C EXCEPT !.ERXWRPT = 0, !.ERXRDPT = 0]
    BY <1>5 DEF SetBuffers, RXSTART_INIT
  <2> HIDE DEF C
  <2>3. chip'.ERXWRPT = 0 /\ chip'.ERXRDPT = 0 /\ chip'.mem = chip.mem
    BY <2>1, <2>2 DEF ChipFields
  <2> QED
    BY <1>2, <1>3, <2>3 DEF EvenInv
<1>6. CASE FreePacket
  <2> DEFINE C == InBank(chip, 0)
             mem2 == [a \in Ring |-> IF Distance(drv.start, a) < Distance(drv.start, drv.next)
                                     THEN Cell(Nobody, 0, 0) ELSE C.mem[a]]
  <2>1. C = [f \in ChipFields |-> C[f]] /\ C.mem = chip.mem /\ C.ERXWRPT = chip.ERXWRPT
    BY <1>1, OnlyBank DEF ChipFields
  <2>2. chip' = [C EXCEPT !.ERXRDPT = drv.next,
                          !.mem = [a \in Ring |->
                              IF Distance(drv.start, a) < Distance(drv.start, drv.next)
                              THEN Cell(Nobody, 0, 0) ELSE @[a]]]
    BY <1>6 DEF FreePacket
  <2> HIDE DEF C
  <2>3. chip'.ERXWRPT = chip.ERXWRPT /\ chip'.ERXRDPT = drv.next /\ chip'.mem = mem2
    BY <2>1, <2>2 DEF ChipFields
  <2>4. ASSUME NEW a \in Ring
        PROVE  mem2[a].next \in Ring /\ mem2[a].next % 2 = 0
    <3>1. mem2[a] = Cell(Nobody, 0, 0) \/ mem2[a] = chip.mem[a]
      BY <2>1
    <3> HIDE DEF mem2
    <3>2. Cell(Nobody, 0, 0).next = 0
      BY DEF Cell
    <3> QED
      BY <1>2, <3>1, <3>2 DEF EvenInv
  <2> QED
    BY <1>3, <2>3, <2>4 DEF EvenInv
<1>7. CASE \E f \in EthFrames : ChipReceives(f)
  <2>1. PICK f \in EthFrames : ChipReceives(f)
    BY <1>7
  <2> DEFINE next == NextFrame(chip, f)
             piece(a) == Distance(chip.ERXWRPT, a)
             mem2 == [a \in Ring |-> IF piece(a) <= f.len
                                     THEN Cell(f, piece(a), IF piece(a) = 0 THEN next ELSE 0)
                                     ELSE chip.mem[a]]
  <2>2. next \in Ring /\ next % 2 = 0
    BY NextFrameIsEven DEF EvenInv
  <2>3. chip'.ERXWRPT = next /\ chip'.ERXRDPT = chip.ERXRDPT /\ chip'.mem = mem2
    BY <1>1, <2>1 DEF ChipReceives, Stored, ChipFields
  <2> HIDE DEF next, piece
  <2>4. ASSUME NEW a \in Ring
        PROVE  mem2[a].next \in Ring /\ mem2[a].next % 2 = 0
    <3>1. \/ mem2[a] = Cell(f, piece(a), next)
          \/ mem2[a] = Cell(f, piece(a), 0)
          \/ mem2[a] = chip.mem[a]
      OBVIOUS
    <3> HIDE DEF mem2
    <3>2. Cell(f, piece(a), next).next = next /\ Cell(f, piece(a), 0).next = 0
      BY DEF Cell
    <3> QED
      BY <1>2, <2>2, <3>1, <3>2 DEF EvenInv
  <2> QED
    BY <1>3, <2>2, <2>3, <2>4 DEF EvenInv
<1>8. CASE SetMac \/ ReadCount \/ ReadHeader
  <2>1. \A bank : /\ InBank(chip, bank).ERXWRPT = chip.ERXWRPT
                  /\ InBank(chip, bank).ERXRDPT = chip.ERXRDPT
                  /\ InBank(chip, bank).mem = chip.mem
    BY <1>1, OnlyBank DEF ChipFields
  <2>2. \E bank : chip' = InBank(chip, bank)
    BY <1>8, Zenon DEF SetMac, ReadCount, ReadHeader
  <2>3. Same
    BY <2>1, <2>2
  <2> QED
    BY <1>4, <2>3
<1>9. CASE EnableReception \/ SendBusy \/ WriteFrame
  <2> DEFINE C == InBank(chip, 0)
  <2>1. /\ C = [f \in ChipFields |-> C[f]] /\ C.mem = chip.mem
        /\ C.ERXWRPT = chip.ERXWRPT /\ C.ERXRDPT = chip.ERXRDPT
    BY <1>1, OnlyBank DEF ChipFields
  <2>2. \/ chip' = [C EXCEPT !.RXEN = TRUE]
        \/ chip' = [C EXCEPT !.TXRTS = @ /\ ~MustReset(chip), !.stuck = @ /\ ~MustReset(chip)]
        \/ chip' = [C EXCEPT !.buffer = drv.out]
    BY <1>9 DEF EnableReception, SendBusy, WriteFrame
  <2> HIDE DEF C
  <2>3. Same
    BY <2>1, <2>2 DEF ChipFields
  <2> QED
    BY <1>4, <2>3
<1>12. CASE MoveBack
  <2> DEFINE C == InBank(chip, 0)
  <2>1. C = [f \in ChipFields |-> C[f]] /\ C.mem = chip.mem /\ C.ERXWRPT = chip.ERXWRPT
    BY <1>1, OnlyBank DEF ChipFields
  <2>2. chip' = [C EXCEPT !.ERXRDPT = OneBack(drv.next)]
    BY <1>12 DEF MoveBack
  <2> HIDE DEF C
  <2>3. /\ chip'.ERXWRPT = chip.ERXWRPT /\ chip'.ERXRDPT = OneBack(drv.next)
        /\ chip'.mem = chip.mem
    BY <2>1, <2>2 DEF ChipFields
  <2>4. OneBack(drv.next) \in Ring
    <3>1. drv.next \in Ring
      BY DEF EvenInv
    <3> QED
      BY <3>1, OneBackIs, PosIs
  <2> QED
    BY <1>3, <2>3, <2>4 DEF EvenInv
<1>10. CASE SoftReset \/ CountPacket \/ StartSend \/ ChipTransmits
  <2>1. Same
    BY <1>1, <1>10 DEF SoftReset, CountPacket, StartSend, ChipTransmits, ChipFields
  <2> QED
    BY <1>4, <2>1
<1>11. CASE CopyPacket \/ MainLoop \/ SendReady \/ Restart \/ UNCHANGED ethVars
  <2>1. chip' = chip
    BY <1>11 DEF CopyPacket, MainLoop, SendReady, Restart, ethVars
  <2> QED
    BY <1>4, <2>1
<1> QED
  BY <1>5, <1>6, <1>7, <1>8, <1>9, <1>10, <1>11, <1>12 DEF EthNext, DriverStep

LEMMA OneBackIsOdd ==
    ASSUME EvenInv
    PROVE  OneBack(drv.next) % 2 = 1 \/ (drv.next = 0 /\ OneBack(drv.next) = RXSTOP_INIT)
<1> DEFINE n == drv.next
<1>1. n \in Nat /\ n <= RXSTOP_INIT /\ n % 2 = 0
  BY RingIs DEF EvenInv
<1> HIDE DEF n
<1>2. CASE n = 0
  BY <1>2, RingIs DEF OneBack, RXSTART_INIT, n
<1>3. CASE n # 0
  <2>1. OneBack(n) = n - 1
    BY <1>1, <1>3, RingIs DEF OneBack, RXSTART_INIT
  <2> QED
    BY <1>1, <1>3, <2>1 DEF n
<1> QED
  BY <1>2, <1>3

\* Where the driver leaves ERXRDPT is an odd address, as its comment says, but
\* for the end of the ring, which in the code is even.
THEOREM ReadPointerIsOdd == EthSpec => []ReadPointerOddOrEnd
<1>1. EthSpec => []IInv
  BY InvariantHolds
<1>2. EthInit => EvenInv /\ ReadPointerOddOrEnd
  <2>1. EthInit => drv.pc = "reset"
    BY DEF EthInit
  <2> QED
    BY <2>1, EthInitIsEven DEF ReadPointerOddOrEnd
<1>3. IInv /\ EvenInv /\ [EthNext]_ethVars => EvenInv'
  BY EthStepIsEven
<1>4. IInv /\ EvenInv /\ ReadPointerOddOrEnd /\ [EthNext]_ethVars => ReadPointerOddOrEnd'
  <2> SUFFICES ASSUME IInv, EvenInv, ReadPointerOddOrEnd, [EthNext]_ethVars
               PROVE  ReadPointerOddOrEnd'
    OBVIOUS
  <2>1. /\ drv = [f \in DrvFields |-> drv[f]] /\ chip = [f \in ChipFields |-> chip[f]]
        /\ Records
    BY DEF IInv, Records
  <2>2. CASE MoveBack
    <3> DEFINE C == InBank(chip, 0)
    <3>1. C = [f \in ChipFields |-> C[f]]
      BY <2>1, OnlyBank
    <3>2. chip' = [C EXCEPT !.ERXRDPT = OneBack(drv.next)]
      BY <2>2 DEF MoveBack
    <3> HIDE DEF C
    <3>3. chip'.ERXRDPT = OneBack(drv.next)
      BY <3>1, <3>2 DEF ChipFields
    <3>4. drv'.next = drv.next
      BY <2>1, <2>2, DriverGoes DEF MoveBack, DrvFields
    <3> QED
      BY <3>3, <3>4, OneBackIsOdd DEF ReadPointerOddOrEnd, RXSTART_INIT
  <2>3. CASE \/ SoftReset \/ CopyPacket \/ CountPacket \/ MainLoop \/ SendReady \/ StartSend
             \/ Restart
    <3>1. drv'.pc # "count"
      BY <2>1, <2>3 DEF SoftReset, CopyPacket, CountPacket, MainLoop, SendReady, StartSend,
                        Restart, DrvFields
    <3> QED
      BY <3>1 DEF ReadPointerOddOrEnd
  <2>4. CASE SetMac \/ EnableReception \/ ReadCount \/ SendBusy \/ WriteFrame
    <3>1. \E pc \in {"enable", "receive", "main", "header", "ready?", "start"}, bank \in 0 .. 3 :
              drv' = GoTo(pc, bank)
      BY <2>4, SMT DEF SetMac, EnableReception, ReadCount, SendBusy, WriteFrame
    <3> QED
      BY <2>1, <3>1, DriverGoes DEF ReadPointerOddOrEnd
  <2>5. CASE SetBuffers \/ ReadHeader \/ FreePacket
    <3>1. PICK pc : pc # "count" /\
            \/ drv' = [GoTo(pc, 0) EXCEPT !.next = RXSTART_INIT]
            \/ drv' = [GoTo(pc, 0) EXCEPT !.start = drv.next, !.head = chip.mem[drv.next],
                                          !.next = chip.mem[drv.next].next]
            \/ drv' = [GoTo(pc, 0) EXCEPT !.start = 0]
      BY <2>5, Zenon DEF SetBuffers, ReadHeader, FreePacket
    <3> DEFINE D == GoTo(pc, 0)
    <3>2. D = [f \in DrvFields |-> D[f]] /\ D.pc = pc
      BY <2>1, DriverGoes
    <3> HIDE DEF D
    <3>3. drv'.pc = pc
      BY <3>1, <3>2 DEF DrvFields, D
    <3> QED
      BY <3>1, <3>3 DEF ReadPointerOddOrEnd
  <2>6. CASE ChipTransmits \/ (\E f \in EthFrames : ChipReceives(f)) \/ UNCHANGED ethVars
    <3>1. drv' = drv /\ chip'.ERXRDPT = chip.ERXRDPT
      BY <2>1, <2>6 DEF ChipTransmits, ChipReceives, Stored, ethVars, ChipFields
    <3> QED
      BY <3>1 DEF ReadPointerOddOrEnd
  <2> QED
    BY <2>2, <2>3, <2>4, <2>5, <2>6 DEF EthNext, DriverStep
<1> QED
  BY <1>1, <1>2, <1>3, <1>4, PTL DEF EthSpec

-----------------------------------------------------------------------------
(* Types: neither the pointers of the ring nor the number of packets, of   *)
(* which the controller keeps count, leave the ring, also while the        *)
(* processor starts again and the controller goes on receiving.            *)

\* All but one of the frames that are counted lie between where the read pointer
\* was left, or the cell after it, and where the controller writes next.
Spacious(c) ==
    /\ c.EPKTCNT \in Nat
    /\ \E b \in Ring, x \in Ring :
          /\ c.ERXWRPT = Pos(b, x)
          /\ c.ERXRDPT = b \/ (c.ERXRDPT = OneBack(b) /\ x < RXSTOP_INIT)
          /\ 2 * (c.EPKTCNT - 1) <= x

LEMMA SpaciousIs ==
    ASSUME NEW c, Spacious(c)
    PROVE  c.EPKTCNT <= RXSTOP_INIT \div 2 + 1
<1>1. PICK x \in Ring : 2 * (c.EPKTCNT - 1) <= x
  BY DEF Spacious
<1> DEFINE n == c.EPKTCNT
<1>2. n \in Nat /\ 2 * (n - 1) <= x /\ x \in Nat /\ x <= RXSTOP_INIT /\ RXSTOP_INIT \in Nat
  BY <1>1, RingIs DEF Spacious
<1> HIDE DEF n
<1>3. n - 1 <= RXSTOP_INIT \div 2
  BY <1>2
<1>4. n <= RXSTOP_INIT \div 2 + 1
  BY <1>2, <1>3
<1> QED
  BY <1>4 DEF n

\* A frame takes at least two cells: its header and a piece.
LEMMA ChainTakesRoom ==
    ASSUME NEW mem, NEW b \in Ring, NEW q \in Seq(EthFrames), NEW off, Chain(mem, b, q, off)
    PROVE  off[Len(q)] \in Ring /\ 2 * Len(q) <= off[Len(q)]
<1> DEFINE n == Len(q)
           T == {i \in Nat : i <= n => 2 * i <= off[i]}
<1>1. n \in Nat /\ off[0] = 0 /\ \A i \in 0 .. n : off[i] \in Ring
  BY LenProperties DEF Chain
<1>2. 0 \in T
  BY <1>1
<1>3. ASSUME NEW i \in Nat, i \in T PROVE i + 1 \in T
  <2> SUFFICES ASSUME i + 1 <= n PROVE 2 * (i + 1) <= off[i + 1]
    OBVIOUS
  <2>1. /\ i + 1 \in 1 .. n /\ i + 1 \in 0 .. n /\ i \in 0 .. n /\ (i + 1) - 1 = i /\ i <= n
    BY <1>1
  <2>2. LiesAt(mem, b, off[i], off[i + 1], q[i + 1])
    <3>1. LiesAt(mem, b, off[(i + 1) - 1], off[i + 1], q[i + 1])
      BY <2>1, Zenon DEF Chain, n
    <3> QED
      BY <2>1, <3>1
  <2>3. q[i + 1] \in EthFrames
    BY <2>1, ElementOfSeq
  <2> DEFINE x == off[i]
             y == off[i + 1]
             len == q[i + 1].len
  <2>4. x + len < y /\ len \in Nat /\ len > 0 /\ x \in Nat /\ y \in Nat /\ 2 * i <= x
    <3>1. x + len < y
      BY <2>2 DEF LiesAt
    <3>2. len \in Nat /\ len > 0
      BY <2>3, RingIs
    <3>3. x \in Nat /\ y \in Nat
      <4>1. off[i] \in Ring /\ off[i + 1] \in Ring
        BY <1>1, <2>1
      <4> QED
        BY <4>1, RingIs
    <3>4. 2 * i <= off[i]
      BY <1>3, <2>1
    <3> QED
      BY <3>1, <3>2, <3>3, <3>4
  <2> HIDE DEF x, y, len
  <2>5. 2 * (i + 1) <= y
    BY <2>4
  <2> QED
    BY <2>5 DEF y
<1> HIDE DEF T
<1>4. \A i \in Nat : i \in T
  BY <1>2, <1>3, Sent!SetInduction
<1>5. n \in T /\ n <= n /\ n \in 0 .. n
  BY <1>1, <1>4
<1> QED
  BY <1>1, <1>5 DEF T

LEMMA RingIsSpacious ==
    ASSUME NEW d, NEW c, RingIsRight(d, c), ~IsStarting(d)
    PROVE  Spacious(c)
<1>1. PICK q, off : InRing(d, c, q, off)
  BY DEF RingIsRight
<1> DEFINE b == Base(d)
           x == off[Len(q)]
           m == Len(q)
           n == c.EPKTCNT
<1>2. /\ q \in Seq(EthFrames) /\ b \in Ring /\ Chain(c.mem, b, q, off) /\ n \in Nat
      /\ m = Count(d, c) /\ c.ERXWRPT = Pos(b, x)
      /\ c.ERXRDPT = b \/ (c.ERXRDPT = OneBack(b) /\ x < RXSTOP_INIT)
  BY <1>1 DEF InRing
<1>3. x \in Ring /\ 2 * m <= x
  BY <1>2, ChainTakesRoom
<1>4. m = n \/ m = n - 1
  BY <1>2 DEF Count
<1> HIDE DEF b, x, m, n
<1>5. 2 * (n - 1) <= x
  BY <1>2, <1>3, <1>4, RingIs
<1> QED
  BY <1>2, <1>3, <1>5 DEF Spacious, n

\* There is room for what the controller stores.
LEMMA FrameTakesRoom ==
    ASSUME NEW c, NEW c2, Spacious(c), NEW f \in EthFrames,
           Distance(c.ERXWRPT, NextFrame(c, f)) <= Room(c),
           c2.ERXWRPT = NextFrame(c, f), c2.ERXRDPT = c.ERXRDPT, c2.EPKTCNT = c.EPKTCNT + 1
    PROVE  Spacious(c2)
<1>1. PICK b \in Ring, x \in Ring :
          /\ c.ERXWRPT = Pos(b, x)
          /\ c.ERXRDPT = b \/ (c.ERXRDPT = OneBack(b) /\ x < RXSTOP_INIT)
          /\ 2 * (c.EPKTCNT - 1) <= x
  BY DEF Spacious
<1>2. c.ERXWRPT \in Ring
  BY <1>1, PosIs
<1>3. PICK y \in Ring : f.len < y /\ NextFrame(c, f) = Pos(c.ERXWRPT, y)
  BY <1>2, NextFrameIs
<1>4. y \in Nat /\ y >= 2 /\ y > 0
  BY <1>3, RingIs
<1>5. Distance(c.ERXWRPT, Pos(c.ERXWRPT, y)) <= Room(c)
  BY <1>3
<1>6. /\ x + y \in Ring /\ Pos(c.ERXWRPT, y) = Pos(b, x + y)
      /\ c.ERXRDPT = OneBack(b) /\ c.ERXRDPT # b => x + y < RXSTOP_INIT
  BY <1>1, <1>4, <1>5, RoomIs
<1> DEFINE n == c.EPKTCNT
<1>7. n \in Nat /\ n + 1 \in Nat /\ 2 * ((n + 1) - 1) <= x + y
  <2>1. n \in Nat /\ 2 * (n - 1) <= x /\ x \in Nat
    BY <1>1, RingIs DEF Spacious
  <2> HIDE DEF n
  <2> QED
    BY <1>4, <2>1
<1>8. c2.ERXRDPT = b \/ (c2.ERXRDPT = OneBack(b) /\ x + y < RXSTOP_INIT)
  BY <1>1, <1>6
<1>9. c2.ERXWRPT = Pos(b, x + y)
  BY <1>3, <1>6
<1> QED
  BY <1>6, <1>7, <1>8, <1>9 DEF Spacious

\* Without frames it is enough that the pointers point into the ring.
LEMMA EmptyIsSpacious ==
    ASSUME NEW c, c.ERXWRPT \in Ring, c.ERXRDPT \in Ring, c.EPKTCNT = 0
    PROVE  Spacious(c)
<1> DEFINE x == Distance(c.ERXRDPT, c.ERXWRPT)
<1>1. x \in Ring /\ Pos(c.ERXRDPT, x) = c.ERXWRPT
  BY DistanceIs, PosOfDistance
<1> HIDE DEF x
<1>2. 2 * (0 - 1) <= x
  BY <1>1, RingIs
<1> QED
  BY <1>1, <1>2 DEF Spacious

LEMMA EthInitIsRoomy == EthInit => Spacious(chip) /\ drv.start \in Ring
<1> SUFFICES ASSUME EthInit PROVE Spacious(chip) /\ drv.start \in Ring
  OBVIOUS
<1>1. drv.start = 0 /\ chip.ERXWRPT = 0 /\ chip.ERXRDPT = 0 /\ chip.EPKTCNT = 0
  BY DEF EthInit
<1>2. 0 \in Ring
  BY RingIs
<1> QED
  BY <1>1, <1>2, EmptyIsSpacious

\* Only these steps are taken, or lead to one, before reception is enabled.
LEMMA StartingSteps ==
    ASSUME Records, [EthNext]_ethVars, IsStarting(drv')
    PROVE  \/ SoftReset \/ SetBuffers \/ SetMac \/ Restart
           \/ (\E f \in EthFrames : ChipReceives(f)) \/ ChipTransmits \/ UNCHANGED ethVars
<1>1. /\ drv = [f \in DrvFields |-> drv[f]] /\ chip = [f \in ChipFields |-> chip[f]]
  BY DEF Records
<1>2. drv'.pc \in {"reset", "buffers", "mac", "enable"}
  BY DEF IsStarting
<1>3. ASSUME EnableReception \/ ReadCount \/ MoveBack \/ SendBusy \/ WriteFrame
      PROVE  FALSE
  <2>1. \E pc \in {"receive", "main", "header", "count", "ready?", "start"}, bank \in 0 .. 3 :
            drv' = GoTo(pc, bank)
    BY <1>3, SMT DEF EnableReception, ReadCount, MoveBack, SendBusy, WriteFrame
  <2> QED
    BY <1>2, <2>1, DriverGoes
<1>4. ASSUME CopyPacket \/ CountPacket \/ MainLoop \/ SendReady \/ StartSend
      PROVE  FALSE
  BY <1>1, <1>2, <1>4 DEF CopyPacket, CountPacket, MainLoop, SendReady, StartSend, DrvFields
<1>5. ASSUME ReadHeader \/ FreePacket
      PROVE  FALSE
  <2>1. PICK pc \in {"copy", "back"} :
            \/ drv' = [GoTo(pc, 0) EXCEPT !.start = drv.next, !.head = chip.mem[drv.next],
                                          !.next = chip.mem[drv.next].next]
            \/ drv' = [GoTo(pc, 0) EXCEPT !.start = 0]
    BY <1>5, SMT DEF ReadHeader, FreePacket
  <2> DEFINE D == GoTo(pc, 0)
  <2>2. D = [f \in DrvFields |-> D[f]] /\ D.pc = pc
    BY <1>1, DriverGoes
  <2> HIDE DEF D
  <2>3. drv'.pc = pc
    BY <2>1, <2>2 DEF DrvFields, D
  <2> QED
    BY <1>2, <2>1, <2>3
<1> QED
  BY <1>3, <1>4, <1>5 DEF EthNext, DriverStep

\* Where the frame in hand begins.
LEMMA StartStays ==
    ASSUME Records, EvenInv, drv.start \in Ring, [EthNext]_ethVars
    PROVE  drv'.start \in Ring
<1>1. drv = [f \in DrvFields |-> drv[f]]
  BY DEF Records
<1>2. 0 \in Ring /\ drv.next \in Ring
  BY RingIs DEF EvenInv
<1>3. CASE SetBuffers \/ ReadHeader \/ FreePacket
  <2>1. PICK pc :
            \/ drv' = [GoTo(pc, 0) EXCEPT !.next = RXSTART_INIT]
            \/ drv' = [GoTo(pc, 0) EXCEPT !.start = drv.next, !.head = chip.mem[drv.next],
                                          !.next = chip.mem[drv.next].next]
            \/ drv' = [GoTo(pc, 0) EXCEPT !.start = 0]
    BY <1>3, Zenon DEF SetBuffers, ReadHeader, FreePacket
  <2> DEFINE D == GoTo(pc, 0)
  <2>2. D = [f \in DrvFields |-> D[f]] /\ D.start = drv.start
    BY <1>1, DriverGoes DEF DrvFields
  <2> HIDE DEF D
  <2>3. drv'.start \in {drv.start, drv.next, 0}
    BY <2>1, <2>2 DEF DrvFields, D
  <2> QED
    BY <1>2, <2>3
<1>4. CASE SetMac \/ EnableReception \/ ReadCount \/ MoveBack \/ SendBusy \/ WriteFrame
  <2>1. \E pc, bank : drv' = GoTo(pc, bank)
    BY <1>4, Zenon DEF SetMac, EnableReception, ReadCount, MoveBack, SendBusy, WriteFrame
  <2> QED
    BY <1>1, <2>1, DriverGoes DEF DrvFields
<1>5. CASE \/ SoftReset \/ CopyPacket \/ CountPacket \/ MainLoop \/ SendReady \/ StartSend
           \/ Restart
  <2>1. drv'.start \in {drv.start, 0}
    BY <1>1, <1>5 DEF SoftReset, CopyPacket, CountPacket, MainLoop, SendReady, StartSend,
                      Restart, DrvFields
  <2> QED
    BY <1>2, <2>1
<1>6. CASE ChipTransmits \/ (\E f \in EthFrames : ChipReceives(f)) \/ UNCHANGED ethVars
  <2>1. drv' = drv
    BY <1>6 DEF ChipTransmits, ChipReceives, ethVars
  <2> QED
    BY <2>1
<1> QED
  BY <1>3, <1>4, <1>5, <1>6 DEF EthNext, DriverStep

LEMMA EthStepIsRoomy ==
    ASSUME IInv, EvenInv, [EthNext]_ethVars,
           IsStarting(drv') \/ RingInv', SoftReset \/ (RingInv /\ Spacious(chip))
    PROVE  Spacious(chip')
<1>1. /\ drv = [f \in DrvFields |-> drv[f]] /\ chip = [f \in ChipFields |-> chip[f]]
      /\ Records
  BY DEF IInv, Records
<1>2. chip.ERXWRPT \in Ring /\ chip.ERXRDPT \in Ring
  BY DEF EvenInv
<1> DEFINE Same == \A f \in {"ERXWRPT", "ERXRDPT", "EPKTCNT"} : chip'[f] = chip[f]
<1>3. CASE ~IsStarting(drv')
  BY <1>3, RingIsSpacious DEF RingInv
<1>4. CASE SoftReset
  <2>1. /\ chip'.ERXWRPT = chip.ERXWRPT /\ chip'.ERXRDPT = chip.ERXRDPT /\ chip'.EPKTCNT = 0
    BY <1>1, <1>4 DEF SoftReset, ChipFields
  <2> QED
    BY <1>2, <2>1, EmptyIsSpacious
<1> SUFFICES ASSUME RingInv, Spacious(chip), IsStarting(drv') PROVE Spacious(chip')
  BY <1>3, <1>4
<1>5. Same => Spacious(chip')
  BY DEF Spacious
<1>7. CASE SetBuffers
  <2>1. chip.EPKTCNT = 0
    BY <1>7 DEF SetBuffers, RingInv, RingIsRight, Idle
  <2> DEFINE C == InBank(chip, 0)
  <2>2. C = [f \in ChipFields |-> C[f]] /\ C.EPKTCNT = chip.EPKTCNT
    BY <1>1, OnlyBank DEF ChipFields
  <2>3. chip' = [C EXCEPT !.ERXWRPT = 0, !.ERXRDPT = 0]
    BY <1>7 DEF SetBuffers, RXSTART_INIT
  <2> HIDE DEF C
  <2>4. chip'.ERXWRPT = 0 /\ chip'.ERXRDPT = 0 /\ chip'.EPKTCNT = 0
    BY <2>1, <2>2, <2>3 DEF ChipFields
  <2>5. 0 \in Ring
    BY RingIs
  <2> QED
    BY <2>4, <2>5, EmptyIsSpacious
<1>8. CASE SetMac
  <2>1. chip' = InBank(chip, 3)
    BY <1>8 DEF SetMac
  <2>2. Same
    BY <1>1, <2>1, OnlyBank DEF ChipFields
  <2> QED
    BY <1>5, <2>2
<1>9. CASE Restart \/ ChipTransmits \/ UNCHANGED ethVars
  <2>1. Same
    BY <1>1, <1>9 DEF Restart, ChipTransmits, ethVars, ChipFields
  <2> QED
    BY <1>5, <2>1
<1>10. CASE \E f \in EthFrames : ChipReceives(f)
  <2>1. PICK f \in EthFrames : ChipReceives(f)
    BY <1>10
  <2>2. /\ chip'.ERXWRPT = NextFrame(chip, f) /\ chip'.ERXRDPT = chip.ERXRDPT
        /\ chip'.EPKTCNT = chip.EPKTCNT + 1
        /\ Distance(chip.ERXWRPT, NextFrame(chip, f)) <= Room(chip)
    BY <1>1, <2>1 DEF ChipReceives, Stored, ChipFields
  <2> QED
    BY <2>2, FrameTakesRoom
<1> QED
  BY <1>1, <1>4, <1>7, <1>8, <1>9, <1>10, StartingSteps

-----------------------------------------------------------------------------
(* The number of packets, of which the controller keeps count, whatever    *)
(* became of the ring.                                                     *)

InHand == {"header", "copy", "free", "back", "count"}

\* The packet the driver is working on is counted.
CountInv ==
    /\ chip.EPKTCNT \in Nat
    /\ drv.pc \in InHand => chip.EPKTCNT > 0

LEMMA EthStepCounts ==
    ASSUME IInv, CountInv, [EthNext]_ethVars
    PROVE  CountInv'
<1>1. /\ drv = [f \in DrvFields |-> drv[f]] /\ chip = [f \in ChipFields |-> chip[f]]
      /\ Records
  BY DEF IInv, Records
<1> DEFINE Same == chip'.EPKTCNT = chip.EPKTCNT
<1>2. Same /\ (drv'.pc \in InHand => drv.pc \in InHand) => CountInv'
  BY DEF CountInv
<1>3. CASE SoftReset
  <2>1. chip'.EPKTCNT = 0 /\ drv'.pc = "buffers"
    BY <1>1, <1>3 DEF SoftReset, ChipFields, DrvFields
  <2> QED
    BY <2>1 DEF CountInv, InHand
<1>4. CASE ReadCount
  <2>1. drv' = GoTo(IF chip.EPKTCNT = 0 THEN "main" ELSE "header", 1) /\ chip' = InBank(chip, 1)
    BY <1>4 DEF ReadCount
  <2>2. Same /\ drv'.pc = IF chip.EPKTCNT = 0 THEN "main" ELSE "header"
    BY <1>1, <2>1, DriverGoes, OnlyBank DEF ChipFields
  <2> QED
    BY <2>2 DEF CountInv, InHand
<1>5. CASE CountPacket
  <2>1. drv.pc = "count" /\ drv'.pc = "main" /\ chip'.EPKTCNT = chip.EPKTCNT - 1
    BY <1>1, <1>5 DEF CountPacket, DrvFields, ChipFields
  <2> QED
    BY <2>1 DEF CountInv, InHand
<1>6. CASE \E f \in EthFrames : ChipReceives(f)
  <2>1. drv' = drv /\ chip'.EPKTCNT = chip.EPKTCNT + 1
    BY <1>1, <1>6 DEF ChipReceives, Stored, ChipFields
  <2> QED
    BY <2>1 DEF CountInv
<1>7. CASE SetMac \/ ReadHeader
  <2>1. \E bank : chip' = InBank(chip, bank)
    BY <1>7, Zenon DEF SetMac, ReadHeader
  <2>4. \A bank : InBank(chip, bank).EPKTCNT = chip.EPKTCNT
    BY <1>1, OnlyBank DEF ChipFields
  <2>2. Same
    BY <2>1, <2>4
  <2>3. drv'.pc = "enable" \/ drv.pc = "header"
    BY <1>1, <1>7, DriverGoes DEF SetMac, ReadHeader
  <2> QED
    BY <1>2, <2>2, <2>3 DEF InHand
<1>8. CASE SetBuffers
  <2> DEFINE C == InBank(chip, 0)
             D == GoTo("mac", 0)
  <2>1. /\ C = [f \in ChipFields |-> C[f]] /\ C.EPKTCNT = chip.EPKTCNT
        /\ D = [f \in DrvFields |-> D[f]] /\ D.pc = "mac"
    BY <1>1, OnlyBank, DriverGoes DEF ChipFields
  <2>2. /\ chip' = [C EXCEPT !.ERXWRPT = 0, !.ERXRDPT = 0]
        /\ drv' = [D EXCEPT !.next = 0]
    BY <1>8 DEF SetBuffers, RXSTART_INIT
  <2> HIDE DEF C, D
  <2>3. Same /\ drv'.pc = "mac"
    BY <2>1, <2>2 DEF ChipFields, DrvFields
  <2> QED
    BY <1>2, <2>3 DEF InHand
<1>9. CASE EnableReception \/ FreePacket \/ MoveBack \/ SendBusy \/ WriteFrame
  <2> DEFINE C == InBank(chip, 0)
  <2>1. C = [f \in ChipFields |-> C[f]] /\ C.EPKTCNT = chip.EPKTCNT
    BY <1>1, OnlyBank DEF ChipFields
  <2>2. \/ chip' = [C EXCEPT !.RXEN = TRUE]
        \/ chip' = [C EXCEPT !.ERXRDPT = OneBack(drv.next)]
        \/ chip' = [C EXCEPT !.TXRTS = @ /\ ~MustReset(chip), !.stuck = @ /\ ~MustReset(chip)]
        \/ chip' = [C EXCEPT !.buffer = drv.out]
        \/ \E mem2 : chip' = [C EXCEPT !.ERXRDPT = drv.next, !.mem = mem2]
    BY <1>9, Zenon DEF EnableReception, FreePacket, MoveBack, SendBusy, WriteFrame
  <2> HIDE DEF C
  <2>3. Same
    BY <2>1, <2>2 DEF ChipFields
  <2>4. drv.pc \in InHand \/ drv'.pc \notin InHand
    <3>1. CASE FreePacket \/ MoveBack
      BY <3>1 DEF FreePacket, MoveBack, InHand
    <3>2. CASE EnableReception \/ SendBusy \/ WriteFrame
      <4>1. \E pc \in {"receive", "ready?", "start"} : drv' = GoTo(pc, 0)
        BY <3>2, SMT DEF EnableReception, SendBusy, WriteFrame
      <4> QED
        BY <1>1, <4>1, DriverGoes DEF InHand
    <3> QED
      BY <1>9, <3>1, <3>2
  <2> QED
    BY <1>2, <2>3, <2>4
<1>10. CASE \/ CopyPacket \/ MainLoop \/ SendReady \/ StartSend \/ ChipTransmits
            \/ Restart \/ UNCHANGED ethVars
  <2>1. Same
    BY <1>1, <1>10 DEF CopyPacket, MainLoop, SendReady, StartSend, ChipTransmits, Restart, ethVars,
                       ChipFields
  <2>2. drv.pc \in InHand \/ drv'.pc \notin InHand
    BY <1>1, <1>10 DEF CopyPacket, MainLoop, SendReady, StartSend, ChipTransmits, Restart, ethVars,
                       DrvFields, InHand
  <2> QED
    BY <1>2, <2>1, <2>2
<1> QED
  BY <1>3, <1>4, <1>5, <1>6, <1>7, <1>8, <1>9, <1>10 DEF EthNext, DriverStep

-----------------------------------------------------------------------------
(* The parts side by side, as they are checked                             *)

\* Each part goes its own way, so that what is proved of it holds of its share
\* of every behaviour.
THEOREM PartsAreApart == LinkSpec => Spec /\ EthSpec /\ FwSpec /\ NeighborSpec
<1>1. LinkInit => Init /\ EthInit /\ FwInit /\ NeighborInit
  BY DEF LinkInit
<1>2. [LinkNext]_linkVars => /\ [Next]_vars /\ [EthNext]_ethVars
                             /\ [FwNext]_fwVars /\ [NeighborNext]_neighbors
  BY DEF LinkNext, linkVars
<1> QED
  BY <1>1, <1>2, PTL DEF LinkSpec, Spec, EthSpec, FwSpec, NeighborSpec

\* As long as the ring was not filled since the last reset it is right, and all but
\* one of the packets that are counted have their room in it.
FilledInv ==
    /\ filled \in BOOLEAN
    /\ ~filled => RingInv /\ NotFilled /\ Spacious(chip)
    /\ drv.pc = "buffers" => ~filled

LinkInv == IInv /\ EvenInv /\ CountInv /\ drv.start \in Ring /\ FilledInv

LEMMA LinkInitGood == LinkInit => LinkInv /\ Queue!Init
<1> SUFFICES ASSUME LinkInit PROVE LinkInv /\ Queue!Init
  OBVIOUS
<1>1. EthInit /\ filled = FALSE
  BY DEF LinkInit
<1>2. IInv /\ EvenInv /\ RingInv /\ Queue!Init /\ Spacious(chip) /\ drv.start \in Ring
  BY <1>1, InitGood, EthInitIsEven, EthInitDrives, EthInitIsRoomy
<1>3. drv.pc = "reset" /\ chip.EPKTCNT = 0
  BY <1>1 DEF EthInit
<1>4. CountInv /\ NotFilled
  BY <1>3 DEF CountInv, InHand, NotFilled
<1>5. FilledInv
  BY <1>1, <1>2, <1>3, <1>4 DEF FilledInv
<1> QED
  BY <1>2, <1>4, <1>5, Zenon DEF LinkInv

\* What became of the ring is forgotten with the controller's reset.
LEMMA FilledUntilReset ==
    ASSUME IInv, FilledInv, EthNext, Remember, ~filled'
    PROVE  ~filled \/ SoftReset
<1> SUFFICES ASSUME drv'.pc = "buffers", drv.pc # "buffers" PROVE SoftReset
  BY DEF Remember, FilledInv
<1>1. /\ drv = [f \in DrvFields |-> drv[f]] /\ chip = [f \in ChipFields |-> chip[f]]
      /\ Records
  BY DEF IInv, Records
<1>2. \/ SoftReset \/ SetBuffers \/ SetMac \/ Restart
      \/ (\E f \in EthFrames : ChipReceives(f)) \/ ChipTransmits \/ UNCHANGED ethVars
  BY <1>1, StartingSteps DEF IsStarting
<1>3. ASSUME (\E f \in EthFrames : ChipReceives(f)) \/ ChipTransmits \/ UNCHANGED ethVars
      PROVE  FALSE
  <2>1. drv' = drv
    BY <1>3 DEF ChipReceives, ChipTransmits, ethVars
  <2> QED
    BY <2>1
<1>4. ASSUME SetMac \/ Restart PROVE FALSE
  <2>1. CASE SetMac
    BY <1>1, <2>1, DriverGoes DEF SetMac
  <2>2. CASE Restart
    BY <1>1, <2>2 DEF Restart, DrvFields
  <2> QED
    BY <1>4, <2>1, <2>2
<1>5. ASSUME SetBuffers PROVE FALSE
  <2> DEFINE D == GoTo("mac", 0)
  <2>1. D = [f \in DrvFields |-> D[f]] /\ D.pc = "mac"
    BY <1>1, DriverGoes
  <2>2. drv' = [D EXCEPT !.next = 0]
    BY <1>5 DEF SetBuffers, RXSTART_INIT
  <2> HIDE DEF D
  <2> QED
    BY <2>1, <2>2 DEF DrvFields
<1> QED
  BY <1>2, <1>3, <1>4, <1>5

LEMMA LinkStepFills ==
    ASSUME LinkInv, EthNext, Remember
    PROVE  FilledInv' /\ InOrder
<1>1. IInv /\ EvenInv /\ FilledInv /\ [EthNext]_ethVars
  BY DEF LinkInv
<1>2. filled' \in BOOLEAN /\ (drv'.pc = "buffers" => ~filled')
  BY DEF Remember
<1>3. ASSUME ~filled
      PROVE  RingInv' /\ [Queue!Next]_<<WaitingFrames, handed>>
  BY <1>1, <1>3, EthStepDrives DEF FilledInv
<1>4. ASSUME ~filled'
      PROVE  RingInv' /\ NotFilled' /\ Spacious(chip')
  <2>1. ~filled \/ SoftReset
    BY <1>1, <1>4, FilledUntilReset
  <2>2. CASE SoftReset
    <3>1. drv'.pc = "buffers" /\ ~chip'.RXEN /\ chip'.EPKTCNT = 0
      BY <1>1, <2>2 DEF SoftReset, IInv, Records, DrvFields, ChipFields
    <3>2. IsStarting(drv') /\ Idle(drv', chip')
      BY <3>1 DEF IsStarting, Idle
    <3>3. RingInv' /\ NotFilled'
      BY <3>1, <3>2, StartingIs DEF RingInv, NotFilled
    <3> QED
      BY <1>1, <2>2, <3>3, EthStepIsRoomy
  <2>3. CASE ~filled
    <3>1. RingInv' /\ NotFilled'
      <4>1. NotFilled' \/ drv'.pc = "buffers"
        BY <1>4 DEF Remember
      <4> QED
        BY <1>3, <2>3, <4>1 DEF NotFilled
    <3> QED
      BY <1>1, <2>3, <3>1, EthStepIsRoomy DEF FilledInv
  <2> QED
    BY <2>1, <2>2, <2>3
<1> QED
  BY <1>2, <1>3, <1>4 DEF FilledInv, InOrder

LEMMA LinkStepGood == LinkInv /\ [LinkNext]_linkVars => LinkInv' /\ InOrder
<1> SUFFICES ASSUME LinkInv, [LinkNext]_linkVars PROVE LinkInv' /\ InOrder
  OBVIOUS
<1>1. CASE EthNext /\ Remember
  <2>1. IInv' /\ EvenInv' /\ CountInv' /\ drv'.start \in Ring
    BY <1>1, StepGood, EthStepIsEven, EthStepCounts, StartStays DEF LinkInv, IInv
  <2>2. FilledInv' /\ InOrder
    BY <1>1, LinkStepFills
  <2> QED
    BY <2>1, <2>2 DEF LinkInv
<1>2. CASE UNCHANGED <<ethVars, filled>>
  <2>1. drv' = drv /\ chip' = chip /\ handed' = handed /\ filled' = filled
    BY <1>2 DEF ethVars
  <2>2. [EthNext]_ethVars
    BY <1>2
  <2>3. IInv' /\ EvenInv' /\ CountInv' /\ drv'.start \in Ring
    <3>1. IInv'
      BY <2>1 DEF LinkInv, IInv, Records, BankKnown, SendingPrepared, TransmitUndisturbed
    <3> QED
      BY <2>1, <2>2, <3>1, EthStepIsEven, EthStepCounts, Zenon DEF LinkInv
  <2>4. FilledInv'
    BY <2>1 DEF LinkInv, FilledInv, RingInv, NotFilled
  <2>5. WaitingFrames' = WaitingFrames
    BY <2>1, QueueIsIn
  <2> QED
    BY <2>1, <2>3, <2>4, <2>5 DEF LinkInv, InOrder
<1> QED
  BY <1>1, <1>2 DEF LinkNext, linkVars

LEMMA LinkInvHolds == LinkSpec => []LinkInv
BY LinkInitGood, LinkStepGood, PTL DEF LinkSpec

\* For any ring, of even or odd end, as it is checked: the frames are handed over
\* in their order until the controller has filled the ring up to the cell to which
\* the driver is about to move ERXRDPT back, and again from the next reset on.
THEOREM FramesAreInOrderUntilFilled == LinkSpec => FramesInOrderUntilFilled
BY LinkInitGood, LinkStepGood, LinkInvHolds, PTL DEF LinkSpec, FramesInOrderUntilFilled

\* The pointers of the driver and of the controller stay in the ring, whatever
\* becomes of it; until it is filled as above the packets that are counted never
\* are more than fit it, also when the processor starts again while the controller
\* goes on receiving; and the types of the other parts.
THEOREM LinkTypes == LinkSpec => []LinkTypeOK
<1>1. LinkSpec => Spec /\ FwSpec /\ NeighborSpec
  BY PartsAreApart
<1>2. LinkSpec => []LinkInv
  BY LinkInvHolds
<1>3. LinkInv => /\ EthTypeOK /\ filled \in BOOLEAN
                 /\ ~filled => chip.EPKTCNT <= RXSTOP_INIT \div 2 + 1
  <2> SUFFICES ASSUME LinkInv
               PROVE  /\ EthTypeOK /\ filled \in BOOLEAN
                      /\ ~filled => chip.EPKTCNT <= RXSTOP_INIT \div 2 + 1
    OBVIOUS
  <2>1. drv.pc # "reset" => drv.bank = chip.bank
    BY DEF LinkInv, IInv, BankKnown
  <2>2. ~filled => chip.EPKTCNT <= RXSTOP_INIT \div 2 + 1
    BY SpaciousIs DEF LinkInv, FilledInv
  <2> QED
    BY <2>1, <2>2 DEF LinkInv, EvenInv, CountInv, FilledInv, EthTypeOK
<1>4. FwSpec => []FwInv
  BY FwInvariantHolds
<1>5. FwInv => FwTypeOK
  BY FwTypesHold
<1>6. NeighborSpec => []NeighborTypeOK
  BY NeighborTypes
<1>7. Spec => []TypeOK
  BY ArpTypes
<1> QED
  BY <1>1, <1>2, <1>3, <1>4, <1>5, <1>6, <1>7, PTL DEF LinkTypeOK

=============================================================================
