----------------------------- MODULE TcpStream -----------------------------
(***************************************************************************)
(* The data transfer of one established connection: the sequence number    *)
(* side of uip_process() (uip.cpp), with the protosocket that sends a      *)
(* message with PSOCK_SEND and then closes (psock.cpp) as its application, *)
(* a network that loses, duplicates and reorders segments, and a peer.     *)
(*                                                                         *)
(* A byte of a stream is its position in it.  The peer's TCP is external:  *)
(* it keeps what arrives in order and fits its buffer, advertises the room *)
(* left, and may send any part of what is not yet acknowledged.  The       *)
(* retransmission timer is abstracted: it may expire at any tick.          *)
(***************************************************************************)
EXTENDS Integers, Sequences, FiniteSets

CONSTANTS
    SeqMod,       \* sequence numbers are taken modulo this (2^32 in the code)
    ISS, IRS,     \* the first sequence number of uIP's data, and of the peer's
    UIP_TCP_MSS,  \* the initial mss of the connection, and uIP's own window
    UIP_MAXRTX,   \* retransmissions before the connection is given up
    MessageLen,   \* the length of the message PSOCK_SEND sends
    PeerLen,      \* the length of what the peer sends
    PeerBuf,      \* the size of the peer's receive buffer
    MayQuit,      \* the application may close on request of the peer's data
    NetToPeer, NetToUip  \* segments in flight in each direction

ASSUME StreamAssumption ==
    /\ SeqMod \in Nat
    /\ ISS \in 0 .. SeqMod - 1
    /\ IRS \in 0 .. SeqMod - 1
    /\ UIP_TCP_MSS \in Nat \ {0}
    /\ UIP_MAXRTX \in Nat
    /\ MessageLen \in Nat \ {0}
    /\ PeerLen \in Nat
    /\ 2 * (MessageLen + 2) < SeqMod
    /\ 2 * (PeerLen + 2) < SeqMod
    /\ PeerBuf \in Nat \ {0}
    /\ MayQuit \in BOOLEAN
    /\ NetToPeer \in Nat \ {0}
    /\ NetToUip \in Nat \ {0}

VARIABLES
    uip,     \* the connection: fields of struct uip_conn
    psock,   \* the protosocket: fields of struct psock, and handed
    heard,   \* what the application has heard of the peer: its bytes and its end
    peer,    \* the peer's TCP and application
    toPeer,  \* segments in flight
    toUip

vars == <<uip, psock, heard, peer, toPeer, toUip>>

Message == [i \in 1 .. MessageLen |-> i]
PeerMessage == [i \in 1 .. PeerLen |-> i]
Garbage == 0

Least(a, b) == IF a < b THEN a ELSE b
Add32(a, n) == (a + n) % SeqMod
Sub32(a, b) == (a - b) % SeqMod

-----------------------------------------------------------------------------
(* The protosocket                                                         *)

\* uip_send() of the next chunk of what is left.
SendChunk(ps, mss) ==
    [psock |-> [ps EXCEPT !.state = "DATA_SENT"], slen |-> Least(ps.sendlen, mss)]

Silent(ps) == [psock |-> ps, slen |-> 0]

\* Mutant: the last chunk is taken to be as long as the others.
ChunkAckedWhole(ps, mss) ==
    [ps EXCEPT !.sendlen = IF @ > mss THEN @ - mss ELSE 0, !.sendptr = @ + mss, !.state = "ACKED"]

\* The chunk sent last is acknowledged: it is taken to be of the present mss.
ChunkAcked(ps, mss) ==
    LET n == Least(ps.sendlen, mss)
    IN  [ps EXCEPT !.sendlen = @ - n, !.sendptr = @ + n, !.state = "ACKED"]

MustSend(ps, rexmit) == ps.state # "DATA_SENT" \/ rexmit

\* psock_send() in one call of the application, with what it hands to
\* uip_send().
PsockTurn(ps, mss, rexmit, acked) ==
    CASE ps.sendlen = 0       -> Silent(ps)
      [] ps.sendlen > 0 /\ MustSend(ps, rexmit) -> SendChunk(ps, mss)
      [] ps.sendlen > 0 /\ ~MustSend(ps, rexmit) ->
             IF ~acked THEN Silent(ps)
             ELSE LET next == ChunkAcked(ps, mss)
                  IN  IF next.sendlen = 0 THEN Silent(next) ELSE SendChunk(next, mss)

SendDone(ps) == ps.sendlen = 0

-----------------------------------------------------------------------------
(* Segments                                                                *)

\* The data of a segment of n bytes when the application has put slen bytes
\* from the protosocket's pointer on into the buffer.
Payload(ps, slen, n) == [i \in 1 .. n |-> IF i <= slen THEN ps.sendptr + i ELSE Garbage]

UipSegment(u, data, fin) ==
    [seq |-> u.snd_nxt, ack |-> u.rcv_nxt, data |-> data, fin |-> fin]

\* A segment put on a network that is full is lost.
Put(net, size, sg) == IF Cardinality(net) < size THEN net \cup {sg} ELSE net

Transmit(u, data, fin) == toPeer' = Put(toPeer, NetToPeer, UipSegment(u, data, fin))
SendAck(u) == Transmit(u, << >>, FALSE)
SendNothing == toPeer' = toPeer

Outstanding(u) == u.len > 0

-----------------------------------------------------------------------------
Init ==
    /\ uip = [state |-> "ESTABLISHED", snd_nxt |-> ISS, rcv_nxt |-> IRS, len |-> 0,
              mss |-> UIP_TCP_MSS, nrtx |-> 0]
    /\ psock = [state |-> "NONE", sendptr |-> 0, sendlen |-> MessageLen, handed |-> 0]
    /\ heard = [got |-> << >>, fin |-> FALSE]
    /\ peer = [rcv_nxt |-> ISS, got |-> << >>, unread |-> 0, fin |-> FALSE,
               una |-> 0, sent |-> 0]
    /\ toPeer = {}
    /\ toUip = {}

\* The application's turn and the appsend label.  It closes once the message
\* has been sent.
AppSends(u, turn) ==
    LET n == IF u.len = 0 THEN Least(turn.slen, u.mss) ELSE u.len
    IN  /\ turn.slen > 0
        /\ uip' = [u EXCEPT !.len = n, !.nrtx = 0]
        /\ psock' = [turn.psock EXCEPT !.handed =
                        IF turn.psock.sendptr + n > @ THEN turn.psock.sendptr + n ELSE @]
        /\ Transmit(u, Payload(turn.psock, turn.slen, n), FALSE)

AppCloses(u) ==
    /\ uip' = [u EXCEPT !.state = "FIN_WAIT_1", !.len = 1, !.nrtx = 0]
    /\ Transmit(u, << >>, TRUE)

AppWaits(u, turn, newdata) ==
    /\ turn.slen = 0
    /\ ~SendDone(turn.psock)
    /\ uip' = [u EXCEPT !.nrtx = 0]
    /\ psock' = turn.psock
    /\ IF newdata THEN SendAck(u) ELSE SendNothing

AppTurn(u, newdata, acked) ==
    LET turn == PsockTurn(psock, u.mss, FALSE, acked)
    IN  \/ AppSends(u, turn)
        \/ AppWaits(u, turn, newdata)
        \/ SendDone(turn.psock) /\ psock' = turn.psock /\ AppCloses(u)
        \/ MayQuit /\ newdata /\ psock' = psock /\ AppCloses(u)

-----------------------------------------------------------------------------
(* Ticks                                                                   *)

TickGiveUp ==
    /\ uip.state \in {"ESTABLISHED", "FIN_WAIT_1", "CLOSING", "LAST_ACK"}
    /\ Outstanding(uip)
    /\ uip.nrtx = UIP_MAXRTX
    /\ uip' = [uip EXCEPT !.state = "CLOSED"]
    /\ UNCHANGED <<psock, toPeer>>

\* Mutant: retransmissions are not counted.
TickAppRetransmitForever ==
    LET turn == PsockTurn(psock, uip.mss, TRUE, FALSE)
    IN  /\ uip.state = "ESTABLISHED"
        /\ Outstanding(uip)
        /\ uip.nrtx < UIP_MAXRTX
        /\ UNCHANGED uip
        /\ psock' = turn.psock
        /\ IF turn.slen > 0 THEN Transmit(uip, Payload(psock, turn.slen, uip.len), FALSE)
           ELSE SendNothing

\* The application sends the data again (label apprexmit): as many bytes as it
\* sent the first time leave, whatever it puts into the buffer now.
TickAppRetransmit ==
    LET turn == PsockTurn(psock, uip.mss, TRUE, FALSE)
    IN  /\ uip.state = "ESTABLISHED"
        /\ Outstanding(uip)
        /\ uip.nrtx < UIP_MAXRTX
        /\ uip' = [uip EXCEPT !.nrtx = @ + 1]
        /\ psock' = turn.psock
        /\ IF turn.slen > 0 THEN Transmit(uip, Payload(psock, turn.slen, uip.len), FALSE)
           ELSE SendNothing

TickRetransmitFin ==
    /\ uip.state \in {"FIN_WAIT_1", "CLOSING", "LAST_ACK"}
    /\ Outstanding(uip)
    /\ uip.nrtx < UIP_MAXRTX
    /\ uip' = [uip EXCEPT !.nrtx = @ + 1]
    /\ Transmit(uip, << >>, TRUE)
    /\ UNCHANGED psock

TickPoll ==
    /\ uip.state = "ESTABLISHED"
    /\ ~Outstanding(uip)
    /\ AppTurn(uip, FALSE, FALSE)

TickWait ==
    /\ uip.state \in {"FIN_WAIT_2", "TIME_WAIT"}
    /\ uip' = [uip EXCEPT !.state = "CLOSED"]
    /\ UNCHANGED <<psock, toPeer>>

Tick ==
    /\ \/ TickGiveUp
       \/ TickAppRetransmit
       \/ TickRetransmitFin
       \/ TickPoll
       \/ TickWait
    /\ UNCHANGED <<heard, peer, toUip>>

-----------------------------------------------------------------------------
(* A segment sg of the peer arrives at uIP                                 *)

\* Mutant: segments that overlap what has been received are taken.
InOrderOrOld(u, sg) == Sub32(u.rcv_nxt, sg.seq) < SeqMod \div 2

InOrder(u, sg) == (sg.data = << >> /\ ~sg.fin) \/ sg.seq = u.rcv_nxt

\* Mutant: any acknowledgement number does.
AckedByAny(u, sg) == Outstanding(u)

Acked(u, sg) == Outstanding(u) /\ sg.ack = Add32(u.snd_nxt, u.len)

AfterAck(u, sg) ==
    IF Acked(u, sg) THEN [u EXCEPT !.snd_nxt = sg.ack, !.len = 0] ELSE u

Received(u, n) == [u EXCEPT !.rcv_nxt = Add32(@, n)]

\* The window of the peer bounds the mss; a closed window does not.
Mss(sg) == IF sg.wnd > UIP_TCP_MSS \/ sg.wnd = 0 THEN UIP_TCP_MSS ELSE sg.wnd

RecvOutOfOrder(sg) ==
    /\ ~InOrder(uip, sg)
    /\ SendAck(uip)
    /\ UNCHANGED <<uip, psock, heard>>

\* The peer's FIN: refused while data is outstanding, else answered by ours.
\* What the application wants to send in this call is ignored.
RecvFinInEstablished(sg) ==
    LET u == AfterAck(uip, sg)
    IN  /\ uip.state = "ESTABLISHED"
        /\ sg.fin
        /\ IF Outstanding(u) THEN UNCHANGED <<uip, psock, heard, toPeer>>
           ELSE /\ uip' = [Received(u, Len(sg.data) + 1) EXCEPT
                              !.state = "LAST_ACK", !.len = 1, !.nrtx = 0]
                /\ psock' = PsockTurn(psock, u.mss, FALSE, Acked(uip, sg)).psock
                /\ heard' = [got |-> heard.got \o sg.data, fin |-> TRUE]
                /\ Transmit(uip', << >>, TRUE)

RecvInEstablished(sg) ==
    LET newdata == sg.data # << >>
        u == [Received(AfterAck(uip, sg), Len(sg.data)) EXCEPT !.mss = Mss(sg)]
    IN  /\ uip.state = "ESTABLISHED"
        /\ ~sg.fin
        /\ heard' = [heard EXCEPT !.got = @ \o sg.data]
        /\ IF newdata \/ Acked(uip, sg) THEN AppTurn(u, newdata, Acked(uip, sg))
           ELSE uip' = u /\ SendNothing /\ UNCHANGED psock

RecvInLastAck(sg) ==
    /\ uip.state = "LAST_ACK"
    /\ uip' = IF Acked(uip, sg) THEN [AfterAck(uip, sg) EXCEPT !.state = "CLOSED"] ELSE uip
    /\ SendNothing
    /\ UNCHANGED <<psock, heard>>

\* Data that arrives after uIP's own FIN is acknowledged and thrown away.
RecvInFinWait1(sg) ==
    LET u == Received(AfterAck(uip, sg), Len(sg.data))
    IN  /\ uip.state = "FIN_WAIT_1"
        /\ \/ /\ sg.fin
              /\ uip' = [Received(u, 1) EXCEPT
                            !.state = IF Acked(uip, sg) THEN "TIME_WAIT" ELSE "CLOSING"]
              /\ SendAck(uip')
           \/ /\ ~sg.fin /\ Acked(uip, sg)
              /\ uip' = [u EXCEPT !.state = "FIN_WAIT_2"]
              /\ SendNothing
           \/ /\ ~sg.fin /\ ~Acked(uip, sg)
              /\ uip' = u
              /\ IF sg.data # << >> THEN SendAck(u) ELSE SendNothing
        /\ heard' = [heard EXCEPT !.fin = @ \/ sg.fin]
        /\ UNCHANGED psock

RecvInFinWait2(sg) ==
    LET u == Received(uip, Len(sg.data))
    IN  /\ uip.state = "FIN_WAIT_2"
        /\ uip' = IF sg.fin THEN [Received(u, 1) EXCEPT !.state = "TIME_WAIT"] ELSE u
        /\ IF sg.fin \/ sg.data # << >> THEN SendAck(uip') ELSE SendNothing
        /\ heard' = [heard EXCEPT !.fin = @ \/ sg.fin]
        /\ UNCHANGED psock

RecvInClosing(sg) ==
    /\ uip.state = "CLOSING"
    /\ uip' = IF Acked(uip, sg) THEN [AfterAck(uip, sg) EXCEPT !.state = "TIME_WAIT"] ELSE uip
    /\ SendNothing
    /\ UNCHANGED <<psock, heard>>

RecvInTimeWait(sg) ==
    /\ uip.state = "TIME_WAIT"
    /\ SendAck(uip)
    /\ UNCHANGED <<uip, psock, heard>>

Recv(sg) ==
    /\ uip.state # "CLOSED"
    /\ \/ RecvOutOfOrder(sg)
       \/ /\ InOrder(uip, sg)
          /\ \/ RecvFinInEstablished(sg)
             \/ RecvInEstablished(sg)
             \/ RecvInLastAck(sg)
             \/ RecvInFinWait1(sg)
             \/ RecvInFinWait2(sg)
             \/ RecvInClosing(sg)
             \/ RecvInTimeWait(sg)
    /\ toUip' \in {toUip, toUip \ {sg}}
    /\ UNCHANGED peer

-----------------------------------------------------------------------------
(* The peer and the network                                                *)

\* What the peer sends to a connection that is gone is left out.  Otherwise it
\* sends n bytes, and perhaps its FIN, from its byte from + 1 on: new ones
\* within uIP's window, or old ones again.
PeerSend(from, n, fin) ==
    /\ uip.state # "CLOSED"
    /\ from \in Least(peer.una, PeerLen) .. peer.sent
    /\ from + n <= Least(PeerLen, peer.una + UIP_TCP_MSS)
    /\ fin => from + n = PeerLen
    /\ toUip' = Put(toUip, NetToUip,
           [seq |-> Add32(IRS, from), ack |-> peer.rcv_nxt,
            data |-> SubSeq(PeerMessage, from + 1, from + n), fin |-> fin,
            wnd |-> PeerBuf - peer.unread])
    /\ toUip' # toUip
    /\ peer' = [peer EXCEPT !.sent = IF from + n + (IF fin THEN 1 ELSE 0) > @
                                     THEN from + n + (IF fin THEN 1 ELSE 0) ELSE @]
    /\ UNCHANGED <<uip, psock, heard, toPeer>>

\* What the acknowledgement in sg tells the peer.
PeerAcked(sg) ==
    LET n == Sub32(sg.ack, Add32(IRS, peer.una))
    IN  peer.una + (IF n <= peer.sent - peer.una THEN n ELSE 0)

\* The peer takes what is new in the segment, in order and fits the buffer.
PeerRecv(sg) ==
    LET old == Sub32(peer.rcv_nxt, sg.seq)
        fits == old <= Len(sg.data) /\ ~peer.fin
        n == IF fits THEN Least(Len(sg.data) - old, PeerBuf - peer.unread) ELSE 0
        fin == fits /\ sg.fin /\ old + n = Len(sg.data)
    IN  /\ peer' = [peer EXCEPT !.got = @ \o SubSeq(sg.data, old + 1, old + n),
                                !.unread = @ + n,
                                !.rcv_nxt = Add32(@, n + (IF fin THEN 1 ELSE 0)),
                                !.fin = @ \/ fin,
                                !.una = PeerAcked(sg)]
        /\ toPeer' \in {toPeer, toPeer \ {sg}}
        /\ UNCHANGED <<uip, psock, heard, toUip>>

PeerRead ==
    /\ peer.unread > 0
    /\ peer' = [peer EXCEPT !.unread = 0]
    /\ UNCHANGED <<uip, psock, heard, toPeer, toUip>>

Lose ==
    /\ \/ \E sg \in toPeer : toPeer' = toPeer \ {sg} /\ UNCHANGED toUip
       \/ \E sg \in toUip : toUip' = toUip \ {sg} /\ UNCHANGED toPeer
    /\ UNCHANGED <<uip, psock, heard, peer>>

-----------------------------------------------------------------------------
Next ==
    \/ Tick
    \/ \E sg \in toUip : Recv(sg)
    \/ \E from, n \in 0 .. PeerLen, fin \in BOOLEAN : PeerSend(from, n, fin)
    \/ \E sg \in toPeer : PeerRecv(sg)
    \/ PeerRead
    \/ Lose

Spec == Init /\ [][Next]_vars

\* The main loop's timer goes on; the network and the peer promise nothing.
FairSpec == Spec /\ WF_vars(Tick)

-----------------------------------------------------------------------------
(* Correctness                                                             *)

\* Sequence numbers stay in range and the buffers within their limits.
TypeOK ==
    /\ uip \in [state : {"ESTABLISHED", "FIN_WAIT_1", "FIN_WAIT_2", "CLOSING",
                         "TIME_WAIT", "LAST_ACK", "CLOSED"},
                snd_nxt : 0 .. SeqMod - 1, rcv_nxt : 0 .. SeqMod - 1,
                len : 0 .. UIP_TCP_MSS, mss : 1 .. UIP_TCP_MSS, nrtx : 0 .. UIP_MAXRTX]
    /\ psock \in [state : {"NONE", "DATA_SENT", "ACKED"}, sendptr : 0 .. MessageLen,
                  sendlen : 0 .. MessageLen, handed : 0 .. MessageLen]
    /\ peer.unread \in 0 .. PeerBuf
    /\ Cardinality(toPeer) <= NetToPeer
    /\ Cardinality(toUip) <= NetToUip

\* The message goes to the peer, and the peer's stream to the application, as
\* ReliableStream says.
Outgoing == INSTANCE ReliableStream WITH
    Stream <- Message, written <- psock.handed, delivered <- peer.got,
    confirmed <- psock.sendptr, ended <- peer.fin, abandoned <- FALSE

OutgoingSpec == Outgoing!Spec

Incoming == INSTANCE ReliableStream WITH
    Stream <- PeerMessage, written <- Least(peer.sent, PeerLen), delivered <- heard.got,
    confirmed <- Least(peer.una, PeerLen), ended <- heard.fin,
    abandoned <- uip.state \notin {"ESTABLISHED", "LAST_ACK"}

IncomingSpec == Incoming!Spec

\* PSOCK_SEND comes to an end, by acknowledgement or with the connection,
\* whatever the network loses and however slowly the peer reads.
SendEnds == <>(SendDone(psock) \/ uip.state # "ESTABLISHED")

\* PSOCK_SEND "blocks until all data has been sent and is known to have been
\* received by the remote end" (psock.h).
SentIsReceived == SendDone(psock) => peer.got = Message

=============================================================================
