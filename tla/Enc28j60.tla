------------------------------ MODULE Enc28j60 ------------------------------
(***************************************************************************)
(* The driver of the Ethernet controller, enc28j60.cpp, and the            *)
(* controller, which works at the same time: it stores frames in its       *)
(* receive ring and takes the driver's frame from its transmit buffer.     *)
(*                                                                         *)
(* An action of the driver is one or a few operations on the SPI bus       *)
(* between which the controller need not be watched; drv.pc names the      *)
(* next.  The controller is external; what is said of it is what the       *)
(* driver relies on.  Cells of the ring are abstract: a stored frame is a  *)
(* cell with its header (the address of the next frame, the length, the    *)
(* status) and a cell for each piece of it, up to an even address.         *)
(***************************************************************************)
EXTENDS Integers, Sequences

CONSTANTS
    EthFrames,     \* the frames: [id, len, ok], ok: the CRC is right
    EthAnswers,    \* the frames the main loop sends
    RXSTOP_INIT,   \* the last cell of the ring; RXSTART_INIT is 0
    EthPackets,    \* the most EPKTCNT counts: 255, a register of 8 bits
    EthMaxlen,     \* maxlen of enc28j60PacketReceive(): UIP_BUFSIZE
    EthRestarts    \* bound: restarts of the processor

ASSUME EthAssumption ==
    /\ RXSTOP_INIT \in Nat \ {0} /\ EthMaxlen \in Nat \ {0}
    /\ EthPackets \in Nat /\ EthRestarts \in Nat
    /\ \A f \in EthFrames : f.len \in Nat \ {0} /\ f.ok \in BOOLEAN
    \* MAMXFL: no frame is longer than MAX_FRAMELEN, and the ring has room for it
    /\ \A f \in EthFrames : f.len + 2 <= RXSTOP_INIT

VARIABLES
    drv,      \* the driver: [pc, bank, next, head, data, out, restarts]
    chip,     \* the controller
    handed    \* what the last call that took a frame handed over

ethVars == <<drv, chip, handed>>

RXSTART_INIT == 0
Ring == RXSTART_INIT .. RXSTOP_INIT
RingSize == RXSTOP_INIT + 1

\* The cells from address a to address b.
Distance(a, b) == (b - a + RingSize) % RingSize

Cell(f, part, next) == [frame |-> f, part |-> part, next |-> next]
Nobody == [id |-> "none", len |-> 1, ok |-> FALSE]

-----------------------------------------------------------------------------
(* The controller                                                          *)

EvenUp(n) == IF n % 2 = 0 THEN n ELSE n + 1

\* Where the frame after f will begin.
NextFrame(c, f) == EvenUp((c.ERXWRPT + 1 + f.len) % RingSize) % RingSize

\* The cells that may be written: up to the one before ERXRDPT.
Room(c) ==
    IF c.ERXWRPT = c.ERXRDPT THEN RingSize - 1
    ELSE Distance(c.ERXWRPT, c.ERXRDPT) - 1

Stored(c, f) ==
    LET next == NextFrame(c, f)
        part(a) == Distance(c.ERXWRPT, a)
    IN  [c EXCEPT !.mem = [a \in Ring |-> IF part(a) <= f.len
                                          THEN Cell(f, part(a), IF part(a) = 0 THEN next ELSE 0)
                                          ELSE @[a]],
                  !.ERXWRPT = next, !.EPKTCNT = @ + 1]

\* A frame comes from the wire; without room it is dropped.
ChipReceives(f) ==
    /\ chip.RXEN /\ chip.EPKTCNT < EthPackets
    /\ Distance(chip.ERXWRPT, NextFrame(chip, f)) <= Room(chip)
    /\ chip' = Stored(chip, f)
    /\ UNCHANGED <<drv, handed>>

\* The frame in the transmit buffer was sent; or there was an error, after
\* which the transmit logic may be stuck (Rev. B4 Silicon Errata point 12).
ChipTransmits ==
    /\ chip.TXRTS /\ ~chip.stuck
    /\ \/ chip' = [chip EXCEPT !.TXRTS = FALSE]
       \/ chip' = [chip EXCEPT !.TXERIF = TRUE, !.TXRTS = FALSE]
       \/ chip' = [chip EXCEPT !.TXERIF = TRUE, !.stuck = TRUE]
    /\ UNCHANGED <<drv, handed>>

-----------------------------------------------------------------------------
(* Registers                                                               *)

\* Mutant: the driver forgets which bank it has selected.
GoToForgets(pc, bank) == [drv EXCEPT !.pc = pc]

\* enc28j60SetBank() for a register of a bank, after which pc is next.
GoTo(pc, bank) == [drv EXCEPT !.pc = pc, !.bank = bank]
InBank(c, bank) == [c EXCEPT !.bank = IF drv.bank # bank THEN bank ELSE @]

-----------------------------------------------------------------------------
(* enc28j60InitWithCs()                                                    *)

SoftReset ==
    /\ drv.pc = "reset"
    /\ drv' = [drv EXCEPT !.pc = "buffers"]
    /\ chip' = [chip EXCEPT !.bank = 0, !.RXEN = FALSE, !.EPKTCNT = 0,
                            !.TXRTS = FALSE, !.TXERIF = FALSE, !.stuck = FALSE]
    /\ UNCHANGED handed

\* ERXST (with it the controller sets ERXWRPT), ERXRDPT, ERXND, ETXST, ETXND.
SetBuffers ==
    /\ drv.pc = "buffers"
    /\ drv' = [GoTo("mac", 0) EXCEPT !.next = RXSTART_INIT]
    /\ chip' = [InBank(chip, 0) EXCEPT !.ERXWRPT = RXSTART_INIT, !.ERXRDPT = RXSTART_INIT]
    /\ UNCHANGED handed

\* The packet filter, the MAC and the PHY registers: banks 1, 2 and 3.
SetMac ==
    /\ drv.pc = "mac"
    /\ drv' = GoTo("enable", 3)
    /\ chip' = InBank(chip, 3)
    /\ UNCHANGED handed

EnableReception ==
    /\ drv.pc = "enable"
    /\ drv' = GoTo("receive", 0)
    /\ chip' = [InBank(chip, 0) EXCEPT !.RXEN = TRUE]
    /\ UNCHANGED handed

-----------------------------------------------------------------------------
(* enc28j60PacketReceive()                                                 *)

\* Without a packet it returns 0; the main loop may have something to send.
ReadCount ==
    /\ drv.pc = "receive"
    /\ drv' = GoTo(IF chip.EPKTCNT = 0 THEN "main" ELSE "header", 1)
    /\ chip' = InBank(chip, 1)
    /\ UNCHANGED handed

\* ERDPT, the next packet pointer, the length and the status.
ReadHeader ==
    /\ drv.pc = "header"
    /\ drv' = [GoTo("copy", 0) EXCEPT !.start = drv.next,
                                      !.head = chip.mem[drv.next],
                                      !.next = chip.mem[drv.next].next]
    /\ chip' = InBank(chip, 0)
    /\ UNCHANGED handed

\* Mutant: the status is not looked at.
PacketLenAnyway(head) ==
    IF head.frame.len > EthMaxlen - 1 THEN EthMaxlen - 1 ELSE head.frame.len

\* At most maxlen - 1, and nothing of an invalid packet.
PacketLen(head) ==
    IF ~head.frame.ok THEN 0
    ELSE IF head.frame.len > EthMaxlen - 1 THEN EthMaxlen - 1
    ELSE head.frame.len

CopyPacket ==
    /\ drv.pc = "copy"
    /\ drv' = [drv EXCEPT !.pc = "free",
                          !.data = [i \in 1 .. PacketLen(drv.head) |->
                                       LET cell == chip.mem[(drv.start + i) % RingSize]
                                       IN  <<cell.frame.id, cell.part>>]]
    /\ UNCHANGED <<chip, handed>>

\* ERXRDPT is moved to the next packet; what is in the cells before it is of no
\* interest any more.
FreePacket ==
    /\ drv.pc = "free"
    /\ drv' = [GoTo("back", 0) EXCEPT !.start = 0]
    /\ chip' = [InBank(chip, 0) EXCEPT
                  !.ERXRDPT = drv.next,
                  !.mem = [a \in Ring |->
                              IF Distance(drv.start, a) < Distance(drv.start, drv.next)
                              THEN Cell(Nobody, 0, 0) ELSE @[a]]]
    /\ UNCHANGED handed

\* Mutant: the pointer is written once more as it was (without errata point 13).
OneBackNot(next) == next

OneBack(next) ==
    IF next - 1 < RXSTART_INIT \/ next - 1 > RXSTOP_INIT THEN RXSTOP_INIT ELSE next - 1

\* Then it is moved one cell back (errata point 13).
MoveBack ==
    /\ drv.pc = "back"
    /\ drv' = GoTo("count", 0)
    /\ chip' = [InBank(chip, 0) EXCEPT !.ERXRDPT = OneBack(drv.next)]
    /\ UNCHANGED handed

\* PKTDEC, and the return to the main loop.
CountPacket ==
    /\ drv.pc = "count"
    /\ drv' = [drv EXCEPT !.pc = "main", !.head = Cell(Nobody, 0, 0), !.data = <<>>]
    /\ chip' = [chip EXCEPT !.EPKTCNT = @ - 1]
    /\ handed' = drv.data

-----------------------------------------------------------------------------
(* enc28j60PacketSend()                                                    *)

\* The main loop sends an answer, or goes on to the next packet.
MainLoop ==
    /\ drv.pc = "main"
    /\ \/ \E f \in EthAnswers : drv' = [drv EXCEPT !.pc = "ready?", !.out = f]
       \/ drv' = [drv EXCEPT !.pc = "receive"]
    /\ handed' = <<>>
    /\ UNCHANGED chip

\* Mutant: a transmission in progress is not waited for.
BusyNever(c) == FALSE

Busy(c) == c.TXRTS

SendReady ==
    /\ drv.pc = "ready?" /\ ~Busy(chip)
    /\ drv' = [drv EXCEPT !.pc = "write"]
    /\ UNCHANGED <<chip, handed>>

\* Mutant: the transmit logic is not reset.
MustResetNever(c) == FALSE

MustReset(c) == c.TXERIF

\* The loop reads EIR, and sets and clears TXRST after an error.
SendBusy ==
    /\ drv.pc = "ready?" /\ Busy(chip)
    /\ drv' = GoTo("ready?", 0)
    /\ chip' = [InBank(chip, 0) EXCEPT !.TXRTS = @ /\ ~MustReset(chip),
                                       !.stuck = @ /\ ~MustReset(chip)]
    /\ UNCHANGED handed

WriteFrame ==
    /\ drv.pc = "write"
    /\ drv' = GoTo("start", 0)
    /\ chip' = [InBank(chip, 0) EXCEPT !.buffer = drv.out]
    /\ UNCHANGED handed

StartSend ==
    /\ drv.pc = "start"
    /\ drv' = [drv EXCEPT !.pc = "receive", !.out = "none"]
    /\ chip' = [chip EXCEPT !.TXRTS = TRUE, !.sending = drv.out]
    /\ UNCHANGED handed

-----------------------------------------------------------------------------
\* The processor starts again; the controller knows nothing of it.
Restart ==
    /\ drv.restarts < EthRestarts
    /\ drv' = [drv EXCEPT !.pc = "reset", !.bank = 0, !.next = 0, !.start = 0,
                          !.head = Cell(Nobody, 0, 0), !.data = <<>>, !.out = "none",
                          !.restarts = @ + 1]
    /\ UNCHANGED <<chip, handed>>

DriverStep ==
    \/ SoftReset \/ SetBuffers \/ SetMac \/ EnableReception
    \/ ReadCount \/ ReadHeader \/ CopyPacket \/ FreePacket \/ MoveBack \/ CountPacket
    \/ MainLoop \/ SendReady \/ SendBusy \/ WriteFrame \/ StartSend

\* Registers of the controller hold anything before the first reset.
EthInit ==
    /\ drv = [pc |-> "reset", bank |-> 0, next |-> 0, start |-> 0, head |-> Cell(Nobody, 0, 0),
              data |-> <<>>, out |-> "none", restarts |-> 0]
    /\ chip \in [bank : 0 .. 3, RXEN : {FALSE}, EPKTCNT : {0}, ERXWRPT : {0}, ERXRDPT : {0},
                 mem : {[a \in Ring |-> Cell(Nobody, 0, 0)]},
                 TXRTS : {FALSE}, TXERIF : {FALSE}, stuck : {FALSE},
                 buffer : {"none"}, sending : {"none"}]
    /\ handed = <<>>

EthNext == DriverStep \/ (\E f \in EthFrames : ChipReceives(f)) \/ ChipTransmits \/ Restart

EthSpec == EthInit /\ [][EthNext]_ethVars

-----------------------------------------------------------------------------
(* Correctness                                                             *)

Starting == drv.pc \in {"reset", "buffers", "mac", "enable"}
Receiving == drv.pc \in {"copy", "free", "back", "count"}

\* The driver knows which bank is selected, after the first reset.
EthTypeOK ==
    /\ drv.next \in Ring /\ drv.start \in Ring
    /\ chip.ERXWRPT \in Ring /\ chip.ERXRDPT \in Ring
    /\ chip.EPKTCNT \in Nat
    /\ drv.pc # "reset" => drv.bank = chip.bank

\* The transmit buffer is not written while it is being sent.
TransmitUndisturbed == chip.TXRTS => chip.buffer = chip.sending

\* The frames in the ring from address a on, n of them.
Waiting(a, n) ==
    LET header[i \in 0 .. n] == IF i = 0 THEN chip.mem[a] ELSE chip.mem[header[i - 1].next]
    IN  [i \in 1 .. n |-> header[i - 1].frame]

WaitingFrames ==
    IF Starting THEN <<>>
    ELSE IF Receiving THEN <<drv.head.frame>> \o Waiting(drv.next, chip.EPKTCNT - 1)
    ELSE Waiting(drv.next, chip.EPKTCNT)

HandedOver(f) ==
    [i \in 1 .. (IF ~f.ok THEN 0 ELSE IF f.len < EthMaxlen THEN f.len ELSE EthMaxlen - 1) |->
        <<f.id, i>>]

\* The driver implements a queue of frames, so that no frame is handed over
\* twice, out of order, in pieces of others or after being dropped.
Queue == INSTANCE FrameQueue WITH
            Frames <- EthFrames, HandedOver <- HandedOver, queue <- WaitingFrames
FramesInOrder == Queue!Spec

\* Between the driver's two writes of ERXRDPT the controller may store frames up
\* to the very cell to which the second write moves it back.  ERXWRPT is then
\* equal to ERXRDPT, and the controller takes the full ring for an empty one.
NotFilled == drv.pc = "back" => chip.ERXWRPT # OneBack(drv.next)

\* Where ERXRDPT is left is not the place of a frame, but at the end of the ring,
\* when the next packet is at its beginning.
ReadPointerOddOrEnd ==
    drv.pc = "count" =>
        chip.ERXRDPT % 2 = 1 \/ (drv.next = RXSTART_INIT /\ chip.ERXRDPT = RXSTOP_INIT)

\* "never write an even address" (errata point 13): where ERXRDPT is left is
\* odd, so that it is not the place of a frame.
ReadPointerOdd == drv.pc = "count" => chip.ERXRDPT % 2 = 1

\* The main loop is not stopped by the controller: every call returns, also
\* when the transmit logic is stuck.
LoopGoesOn == []<>(drv.pc = "receive")

=============================================================================
