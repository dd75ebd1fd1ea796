------------------------------- MODULE UipTcp -------------------------------
(***************************************************************************)
(* The TCP half of uip.cpp: the connection table uip_conns[], the          *)
(* listening ports, and uip_process(), which the main loop calls once per  *)
(* received packet and once per connection and timer tick.                 *)
(*                                                                         *)
(* uip_process() is one atomic step: the stack is single-threaded and the  *)
(* application runs inside it, as a callback.  The callback is therefore   *)
(* part of the step: it picks what to do with its connection (nothing,     *)
(* send, close, abort, stop or restart the flow) and it may call           *)
(* uip_connect(), which changes the table under the running handler.       *)
(*                                                                         *)
(* Abstractions.  uip_process() compares a segment's seqno with rcv_nxt    *)
(* and its ackno with snd_nxt + len, for equality only; a segment carries  *)
(* the two outcomes (inseq, acks) instead of the numbers.  The estimated   *)
(* rto is any member of RtoRange.  The fields of a CLOSED slot are never   *)
(* read before the slot is refilled, so closing a slot clears them.  Bad   *)
(* checksums, zero ports, urgent data and the window are left out.         *)
(***************************************************************************)
EXTENDS Integers, Sequences

CONSTANTS
    UIP_CONNS,              \* slots in the connection table
    UIP_LISTENPORTS,        \* entries of the table of listening ports
    UIP_RTO,                \* first retransmission timeout, in timer ticks
    RtoRange,               \* the timeouts the RTT estimator may compute
    UIP_MAXRTX,             \* retransmissions of data or of a FIN
    UIP_MAXSYNRTX,          \* retransmissions of a SYN or SYNACK
    UIP_TIME_WAIT_TIMEOUT,  \* ticks spent in TIME_WAIT or FIN_WAIT_2
    UIP_TCP_MSS,            \* the most bytes one segment holds
    ServerPorts,            \* ports the application listens on
    FirstPort,              \* active opens first take the ports from FirstPort + 1
    EphLo, EphHi,           \* up to EphHi - 1, then those from EphLo on, for ever
    Peers                   \* remote endpoints: an address and a port

ASSUME TableAssumption ==
    /\ UIP_CONNS \in Nat \ {0}
    /\ UIP_LISTENPORTS \in Nat \ {0}

ASSUME TimerAssumption ==
    /\ UIP_RTO \in Nat \ {0}
    /\ 16 * UIP_RTO < 256
    /\ RtoRange \subseteq 0 .. 255
    /\ RtoRange # {}
    /\ UIP_MAXSYNRTX \in Nat
    /\ UIP_MAXRTX \in Nat
    /\ UIP_MAXSYNRTX <= UIP_MAXRTX
    /\ UIP_TIME_WAIT_TIMEOUT \in 1 .. 255

ASSUME PortAssumption ==
    /\ FirstPort \in Nat
    /\ EphLo \in Nat
    /\ EphHi \in Nat
    /\ FirstPort < EphLo
    /\ EphLo < EphHi
    /\ ServerPorts \subseteq Nat \ {0}
    /\ UIP_TCP_MSS \in Nat \ {0}

VARIABLES
    conn,         \* uip_conns[]
    listenports,  \* uip_listenports[], 0 for an unused entry
    lastport,     \* the port of the last active open
    out           \* what the step left in uip_buf for the device, or NoSegment

vars == <<conn, listenports, lastport, out>>

Slots == 1 .. UIP_CONNS
EphPorts == FirstPort + 1 .. EphHi - 1
LastPorts == FirstPort .. EphHi - 1
Ports == ServerPorts \cup EphPorts
NoPort == 0
NoPeer == "no peer"

States == {"CLOSED", "SYN_RCVD", "SYN_SENT", "ESTABLISHED", "FIN_WAIT_1",
           "FIN_WAIT_2", "CLOSING", "TIME_WAIT", "LAST_ACK"}

(***************************************************************************)
(* told is history: what the application has heard of the connection the   *)
(* slot holds, or held last.  "confused" is what it would be after a call  *)
(* that makes no sense to the application.                                 *)
(***************************************************************************)
Tellings == {"nothing", "connected", "closing", "ended", "unused", "confused"}

Connection ==
    [state : States, stopped : BOOLEAN, lport : Ports \cup {NoPort},
     peer : Peers \cup {NoPeer}, len : 0 .. UIP_TCP_MSS, timer : 0 .. 255,
     nrtx : 0 .. UIP_MAXRTX, told : Tellings]

NoConnection ==
    [state |-> "CLOSED", stopped |-> FALSE, lport |-> NoPort, peer |-> NoPeer,
     len |-> 0, timer |-> 0, nrtx |-> 0, told |-> "unused"]

(***************************************************************************)
(* A segment of a peer.  data: it has a payload.  inseq: its seqno is our  *)
(* rcv_nxt.  acks: it has the ACK flag and its ackno is snd_nxt + len.     *)
(***************************************************************************)
FlagSets == {{"SYN"}, {"SYN", "ACK"}, {"ACK"}, {"FIN", "ACK"}, {"RST"}}

Segment ==
    {sg \in [lport : Ports, peer : Peers, flags : FlagSets, data : BOOLEAN,
             inseq : BOOLEAN, acks : BOOLEAN] :
        /\ sg.acks => "ACK" \in sg.flags
        /\ sg.data => sg.flags \in {{"ACK"}, {"FIN", "ACK"}}
        /\ sg.inseq \/ sg.data \/ sg.flags \cap {"SYN", "FIN"} # {}}

(***************************************************************************)
(* What a step sends: its kind, the tuple in its header (to) and the tuple *)
(* of the segment or connection the step was about (about).                *)
(***************************************************************************)
Kinds == {"SYN", "SYNACK", "ACK", "DATA", "FIN", "RST"}
Tuple(c) == [lport |-> c.lport, peer |-> c.peer]
NoSegment == [kind |-> "none"]
Send(kind, c, about) == [kind |-> kind, to |-> Tuple(c), about |-> Tuple(about)]

-----------------------------------------------------------------------------
(* The connection table                                                    *)

Outstanding(c) == c.len > 0

\* Mutant: only established connections keep their port.
PortFreeIfNotEstablished(t, p) ==
    \A s \in Slots : t[s].state = "ESTABLISHED" => t[s].lport # p

PortFree(t, p) == \A s \in Slots : t[s].state # "CLOSED" => t[s].lport # p

\* The ports the search for an unused port meets when it starts after port lp,
\* and after how many steps it meets port p.
SearchedPorts(lp) == {p \in EphPorts : p > lp \/ p >= EphLo}
SearchStep(lp, p) == IF p > lp THEN p - lp ELSE (EphHi - lp) + (p - EphLo)

\* The port uip_connect() settles on: none if it searches forever.
NextPorts(t, lp) ==
    {p \in SearchedPorts(lp) :
        /\ PortFree(t, p)
        /\ \A q \in SearchedPorts(lp) : PortFree(t, q) => SearchStep(lp, p) <= SearchStep(lp, q)}

\* The slot a new connection takes: the first CLOSED one or, when there is
\* none, the TIME_WAIT one with the highest timer.
FirstClosed(t, s) ==
    /\ t[s].state = "CLOSED"
    /\ \A u \in Slots : t[u].state = "CLOSED" => s <= u

OldestTimeWait(t, s) ==
    /\ t[s].state = "TIME_WAIT"
    /\ \A u \in Slots : t[u].state # "CLOSED"
    /\ \A u \in Slots : t[u].state = "TIME_WAIT" =>
           t[u].timer < t[s].timer \/ (t[u].timer = t[s].timer /\ s <= u)

SlotFor(t) == {s \in Slots : FirstClosed(t, s) \/ OldestTimeWait(t, s)}

SynSent(p, r) ==
    [state |-> "SYN_SENT", stopped |-> FALSE, lport |-> p, peer |-> r, len |-> 1,
     timer |-> 1, nrtx |-> 0, told |-> "nothing"]

SynRcvd(p, r) ==
    [state |-> "SYN_RCVD", stopped |-> FALSE, lport |-> p, peer |-> r, len |-> 1,
     timer |-> UIP_RTO, nrtx |-> 0, told |-> "nothing"]

\* Slot s of table t holds the new connection c from now on.  The application
\* would be confused if it took the old one for alive.
Refill(t, s, c) ==
    [t EXCEPT ![s] = IF @.told \in {"nothing", "connected"}
                     THEN [c EXCEPT !.told = "confused"] ELSE c]

Seated(t, c) == IF SlotFor(t) = {} THEN {t} ELSE {Refill(t, s, c) : s \in SlotFor(t)}

\* uip_connect() from a table t and a last port lp.  Finding no slot it has
\* still moved lastport.
Connected(t, lp, r) ==
    UNION {{[conn |-> u, lastport |-> p] : u \in Seated(t, SynSent(p, r))} :
              p \in NextPorts(t, lp)}

\* The tables an application callback may leave behind when it starts from t.
AfterCall(t) ==
    {[conn |-> t, lastport |-> lastport]}
        \cup UNION {Connected(t, lastport, r) : r \in Peers}

Table(k) == conn' = k.conn /\ lastport' = k.lastport

-----------------------------------------------------------------------------
(* What the application hears, and what it answers                         *)

Tell(c, event) ==
    [c EXCEPT !.told =
        CASE event = "CONNECTED" /\ @ = "nothing"   -> "connected"
          [] event = "DATA"      /\ @ = "connected" -> "connected"
          [] event = "END"       /\ @ # "unused"    -> "ended"
          [] OTHER                                  -> "confused"]

Closed(c) == [NoConnection EXCEPT !.told = c.told]

Answers == {"idle", "send", "close", "abort"}

\* The callback may also call uip_stop(), or uip_restart() if it had stopped.
Flows(c) == {"keep", IF c.stopped THEN "restart" ELSE "stop"}
Flow(c, f) == [c EXCEPT !.stopped = (f = "stop") \/ (f = "keep" /\ @)]

\* Mutant: the FIN of uip_close() is not counted as outstanding.
AppSendUncountedFin(c, answer) ==
    CASE answer = "abort" -> Closed([c EXCEPT !.told = "ended"])
      [] answer = "close" -> [c EXCEPT !.state = "FIN_WAIT_1", !.stopped = FALSE,
                                       !.nrtx = 0, !.told = "closing"]
      [] answer = "send"  -> [c EXCEPT !.len = IF @ = 0 THEN UIP_TCP_MSS ELSE @, !.nrtx = 0]
      [] answer = "idle"  -> [c EXCEPT !.nrtx = 0]

\* Mutant: the length of the data sent is not remembered.
AppSendForgetsLength(c, answer) ==
    CASE answer = "abort" -> Closed([c EXCEPT !.told = "ended"])
      [] answer = "close" -> [c EXCEPT !.state = "FIN_WAIT_1", !.stopped = FALSE,
                                       !.len = 1, !.nrtx = 0, !.told = "closing"]
      [] OTHER            -> [c EXCEPT !.nrtx = 0]

\* The appsend label: the answer's effect on the connection ...
AppSend(c, answer) ==
    CASE answer = "abort" -> Closed([c EXCEPT !.told = "ended"])
      [] answer = "close" -> [c EXCEPT !.state = "FIN_WAIT_1", !.stopped = FALSE,
                                       !.len = 1, !.nrtx = 0, !.told = "closing"]
      [] answer = "send"  -> [c EXCEPT !.len = IF @ = 0 THEN UIP_TCP_MSS ELSE @, !.nrtx = 0]
      [] answer = "idle"  -> [c EXCEPT !.nrtx = 0]

\* ... and what it sends.  newdata: the call had, or got, the NEWDATA flag.
AppSegment(c, answer, newdata) ==
    CASE answer = "abort" -> Send("RST", c, c)
      [] answer = "close" -> Send("FIN", c, c)
      [] answer = "send"  -> Send("DATA", c, c)
      [] answer = "idle"  -> IF newdata THEN Send("ACK", c, c) ELSE NoSegment

\* The application's turn on slot s, whose connection is c when it is called.
\* uip_restart() raises NEWDATA, so that the peer hears of the open window.
AppTurn(s, c, newdata) ==
    \E answer \in Answers, f \in Flows(c), k \in AfterCall([conn EXCEPT ![s] = c]) :
        /\ conn' = [k.conn EXCEPT ![s] = AppSend(Flow(@, f), answer)]
        /\ lastport' = k.lastport
        /\ out' = AppSegment(c, answer, newdata \/ f = "restart")

-----------------------------------------------------------------------------
Init ==
    /\ conn = [s \in Slots |-> NoConnection]
    /\ listenports = [i \in 1 .. UIP_LISTENPORTS |-> NoPort]
    /\ lastport = FirstPort
    /\ out = NoSegment

(* Calls the application makes from the main loop                          *)

\* uip_listen(): the first unused entry; it fails when there is none.
Listen(p) ==
    \E i \in DOMAIN listenports :
        /\ listenports[i] = NoPort
        /\ \A j \in DOMAIN listenports : listenports[j] = NoPort => i <= j
        /\ listenports' = [listenports EXCEPT ![i] = p]
        /\ out' = NoSegment
        /\ UNCHANGED <<conn, lastport>>

\* uip_unlisten(): the first entry that holds the port.
Unlisten(p) ==
    \E i \in DOMAIN listenports :
        /\ listenports[i] = p
        /\ \A j \in DOMAIN listenports : listenports[j] = p => i <= j
        /\ listenports' = [listenports EXCEPT ![i] = NoPort]
        /\ out' = NoSegment
        /\ UNCHANGED <<conn, lastport>>

Connect(r) ==
    \E k \in Connected(conn, lastport, r) :
        /\ Table(k)
        /\ out' = NoSegment
        /\ UNCHANGED listenports

-----------------------------------------------------------------------------
(* uip_process(UIP_TIMER) on one connection.  States without a tick here   *)
(* (CLOSED, or a connection with nothing to do) leave everything alone.    *)

\* Mutant: only TIME_WAIT is timed.
TickWaitTimeWaitOnly(s) ==
    LET t == (conn[s].timer + 1) % 256
    IN  /\ conn[s].state = "TIME_WAIT"
        /\ conn' = [conn EXCEPT ![s] = IF t = UIP_TIME_WAIT_TIMEOUT
                                       THEN Closed(@) ELSE [@ EXCEPT !.timer = t]]
        /\ out' = NoSegment
        /\ UNCHANGED lastport

\* TIME_WAIT and FIN_WAIT_2 only wait for the connection to time out.
TickWait(s) ==
    LET t == (conn[s].timer + 1) % 256
    IN  /\ conn[s].state \in {"TIME_WAIT", "FIN_WAIT_2"}
        /\ conn' = [conn EXCEPT ![s] = IF t = UIP_TIME_WAIT_TIMEOUT
                                       THEN Closed(@) ELSE [@ EXCEPT !.timer = t]]
        /\ out' = NoSegment
        /\ UNCHANGED lastport

Retransmits(c) ==
    /\ c.state \notin {"CLOSED", "TIME_WAIT", "FIN_WAIT_2"}
    /\ Outstanding(c)

TickCountDown(s) ==
    /\ Retransmits(conn[s])
    /\ conn[s].timer > 0
    /\ conn' = [conn EXCEPT ![s].timer = @ - 1]
    /\ out' = NoSegment
    /\ UNCHANGED lastport

\* Mutant: one retransmission too many.
RetriesUsedUpLate(c) ==
    \/ c.nrtx > UIP_MAXRTX
    \/ c.state \in {"SYN_SENT", "SYN_RCVD"} /\ c.nrtx > UIP_MAXSYNRTX

RetriesUsedUp(c) ==
    \/ c.nrtx = UIP_MAXRTX
    \/ c.state \in {"SYN_SENT", "SYN_RCVD"} /\ c.nrtx = UIP_MAXSYNRTX

\* The connection is closed before the application hears of it, and the RST
\* is built from the slot after the callback returned.
TickGiveUp(s) ==
    LET c == conn[s]
    IN  /\ Retransmits(c)
        /\ c.timer = 0
        /\ RetriesUsedUp(c)
        /\ \E k \in AfterCall([conn EXCEPT ![s] = Closed(Tell(c, "END"))]) :
              /\ Table(k)
              /\ out' = Send("RST", IF k.conn[s].state = "CLOSED" THEN c ELSE k.conn[s], c)

Backoff(n) == UIP_RTO * <<1, 2, 4, 8, 16>>[IF n > 4 THEN 5 ELSE n + 1]

Retried(c) == [c EXCEPT !.timer = Backoff(c.nrtx), !.nrtx = @ + 1]

ControlKind ==
    [SYN_RCVD |-> "SYNACK", SYN_SENT |-> "SYN", FIN_WAIT_1 |-> "FIN",
     CLOSING |-> "FIN", LAST_ACK |-> "FIN"]

TimesOut(c) == Retransmits(c) /\ c.timer = 0 /\ ~RetriesUsedUp(c)

TickRetransmit(s) ==
    LET c == conn[s]
    IN  /\ TimesOut(c)
        /\ c.state \in DOMAIN ControlKind
        /\ conn' = [conn EXCEPT ![s] = Retried(c)]
        /\ out' = Send(ControlKind[c.state], c, c)
        /\ UNCHANGED lastport

\* The application produces the data again, or does not; a close or an abort
\* in this call is ignored (label apprexmit).
TickAppRetransmit(s) ==
    LET c == conn[s]
        d == Tell(Retried(c), "DATA")
    IN  /\ TimesOut(c)
        /\ c.state = "ESTABLISHED"
        /\ \E resend \in BOOLEAN, f \in Flows(c), k \in AfterCall([conn EXCEPT ![s] = d]) :
              /\ conn' = [k.conn EXCEPT ![s] = Flow(@, f)]
              /\ lastport' = k.lastport
              /\ out' = IF resend THEN Send("DATA", c, c)
                        ELSE IF f = "restart" THEN Send("ACK", c, c) ELSE NoSegment

Idle(c) == c.state = "ESTABLISHED" /\ ~Outstanding(c)

TickPoll(s) ==
    /\ Idle(conn[s])
    /\ AppTurn(s, Tell(conn[s], "DATA"), FALSE)

Periodic(s) ==
    /\ \/ TickWait(s)
       \/ TickCountDown(s)
       \/ TickGiveUp(s)
       \/ TickRetransmit(s)
       \/ TickAppRetransmit(s)
       \/ TickPoll(s)
    /\ UNCHANGED listenports

\* uip_process(UIP_POLL_REQUEST): uip_poll_conn() on one connection.
PollRequest(s) ==
    /\ \/ Idle(conn[s]) /\ AppTurn(s, Tell(conn[s], "DATA"), FALSE)
       \/ /\ conn[s].state = "SYN_SENT"
          /\ out' = Send("SYN", conn[s], conn[s])
          /\ UNCHANGED <<conn, lastport>>
    /\ UNCHANGED listenports

-----------------------------------------------------------------------------
(* uip_process(UIP_DATA): the arrival of a TCP segment                     *)

Matches(sg, s) ==
    conn[s].state # "CLOSED" /\ conn[s].lport = sg.lport /\ conn[s].peer = sg.peer

\* The first slot that matches the segment's ports and address.
Found(sg, s) == Matches(sg, s) /\ \A u \in Slots : Matches(sg, u) => s <= u

Listening(p) == \E i \in DOMAIN listenports : listenports[i] = p

Reset(sg) == IF "RST" \in sg.flags THEN NoSegment ELSE Send("RST", sg, sg)

\* No connection, and not a SYN for a listening port.
RecvStray(sg) ==
    /\ \A s \in Slots : ~Matches(sg, s)
    /\ sg.flags # {"SYN"} \/ ~Listening(sg.lport)
    /\ out' = Reset(sg)
    /\ UNCHANGED <<conn, lastport>>

\* A SYN for a listening port; it is dropped when there is no slot for it.
RecvSyn(sg) ==
    /\ \A s \in Slots : ~Matches(sg, s)
    /\ sg.flags = {"SYN"}
    /\ Listening(sg.lport)
    /\ \/ /\ SlotFor(conn) = {}
          /\ out' = NoSegment
          /\ UNCHANGED conn
       \/ \E s \in SlotFor(conn) :
             /\ conn' = Refill(conn, s, SynRcvd(sg.lport, sg.peer))
             /\ out' = Send("SYNACK", sg, sg)
    /\ UNCHANGED lastport

\* Mutant: the application is not called on a RST.
RecvResetSilently(s, sg) ==
    /\ "RST" \in sg.flags
    /\ conn' = [conn EXCEPT ![s] = Closed(@)]
    /\ out' = NoSegment
    /\ UNCHANGED lastport

RecvReset(s, sg) ==
    /\ "RST" \in sg.flags
    /\ \E k \in AfterCall([conn EXCEPT ![s] = Closed(Tell(@, "END"))]) : Table(k)
    /\ out' = NoSegment

\* A SYNACK in SYN_SENT and a SYN in SYN_RCVD are looked at whatever their
\* seqno; any other segment that takes sequence space must be the next one.
InSequence(c, sg) ==
    \/ c.state = "SYN_SENT" /\ sg.flags = {"SYN", "ACK"}
    \/ c.state = "SYN_RCVD" /\ sg.flags = {"SYN"}
    \/ ~sg.data /\ sg.flags \cap {"SYN", "FIN"} = {}
    \/ sg.inseq

RecvOutOfSequence(s, sg) ==
    /\ "RST" \notin sg.flags
    /\ ~InSequence(conn[s], sg)
    /\ out' = Send("ACK", conn[s], sg)
    /\ UNCHANGED <<conn, lastport>>

Accepted(s, sg) == "RST" \notin sg.flags /\ InSequence(conn[s], sg)

Acked(c, sg) == sg.acks /\ Outstanding(c)

\* The connection after the acknowledgement was looked at, and what the RTT
\* estimator may have made of it.
AfterAck(c, sg) ==
    IF Acked(c, sg) THEN {[c EXCEPT !.len = 0, !.timer = r] : r \in RtoRange} ELSE {c}

Opened(c) == Tell([c EXCEPT !.state = "ESTABLISHED", !.len = 0], "CONNECTED")

RecvInSynRcvd(s, sg) ==
    /\ conn[s].state = "SYN_RCVD"
    /\ IF Acked(conn[s], sg)
       THEN \E c \in AfterAck(conn[s], sg) : AppTurn(s, Opened(c), sg.data)
       ELSE /\ out' = IF sg.flags = {"SYN"} THEN Send("SYNACK", conn[s], sg) ELSE NoSegment
            /\ UNCHANGED <<conn, lastport>>

\* Anything but the SYNACK of our SYN ends the connection attempt, after the
\* application was told.
RecvInSynSent(s, sg) ==
    /\ conn[s].state = "SYN_SENT"
    /\ \E c \in AfterAck(conn[s], sg) :
          IF Acked(conn[s], sg) /\ sg.flags = {"SYN", "ACK"}
          THEN AppTurn(s, Opened(c), TRUE)
          ELSE /\ \E k \in AfterCall([conn EXCEPT ![s] = Tell(c, "END")]) :
                     /\ conn' = [k.conn EXCEPT ![s] = Closed(@)]
                     /\ lastport' = k.lastport
               /\ out' = Reset(sg)

TakesFin(c, sg) == "FIN" \in sg.flags /\ ~c.stopped

\* The peer's FIN: we close as well, but not over outstanding data.  What the
\* application answers in this call is overridden.
RecvFinInEstablished(s, sg) ==
    /\ conn[s].state = "ESTABLISHED"
    /\ TakesFin(conn[s], sg)
    /\ \E c \in AfterAck(conn[s], sg) :
          IF Outstanding(c)
          THEN UNCHANGED <<conn, lastport>> /\ out' = NoSegment
          ELSE /\ \E k \in AfterCall([conn EXCEPT ![s] = Tell(c, "END")]) :
                     /\ conn' = [k.conn EXCEPT ![s].state = "LAST_ACK", ![s].len = 1,
                                               ![s].nrtx = 0]
                     /\ lastport' = k.lastport
               /\ out' = Send("FIN", c, sg)

\* Data is not taken while the flow is stopped.
RecvInEstablished(s, sg) ==
    LET newdata == sg.data /\ ~conn[s].stopped
    IN  /\ conn[s].state = "ESTABLISHED"
        /\ ~TakesFin(conn[s], sg)
        /\ IF newdata \/ Acked(conn[s], sg)
           THEN \E c \in AfterAck(conn[s], sg) : AppTurn(s, Tell(c, "DATA"), newdata)
           ELSE UNCHANGED <<conn, lastport>> /\ out' = NoSegment

RecvInLastAck(s, sg) ==
    /\ conn[s].state = "LAST_ACK"
    /\ IF Acked(conn[s], sg)
       THEN \E k \in AfterCall([conn EXCEPT ![s] = Closed(Tell(@, "END"))]) : Table(k)
       ELSE UNCHANGED <<conn, lastport>>
    /\ out' = NoSegment

\* The peer's FIN after our own: c is the connection when the application is
\* told, and the ACK is built from the slot after the callback returned.
PeerClosed(s, c, sg) ==
    \E k \in AfterCall([conn EXCEPT ![s] = Tell(c, "END")]) :
        /\ Table(k)
        /\ out' = Send("ACK", k.conn[s], sg)

\* Data before the FIN is acknowledged and thrown away.
AckData(s, sg) == out' = IF sg.data THEN Send("ACK", conn[s], sg) ELSE NoSegment

RecvInFinWait1(s, sg) ==
    /\ conn[s].state = "FIN_WAIT_1"
    /\ \E c \in AfterAck(conn[s], sg) :
          \/ /\ "FIN" \in sg.flags
             /\ Acked(conn[s], sg)
             /\ PeerClosed(s, [c EXCEPT !.state = "TIME_WAIT", !.timer = 0, !.len = 0], sg)
          \/ /\ "FIN" \in sg.flags
             /\ ~Acked(conn[s], sg)
             /\ PeerClosed(s, [c EXCEPT !.state = "CLOSING"], sg)
          \/ /\ "FIN" \notin sg.flags
             /\ Acked(conn[s], sg)
             /\ conn' = [conn EXCEPT ![s] = [c EXCEPT !.state = "FIN_WAIT_2", !.len = 0]]
             /\ out' = NoSegment
             /\ UNCHANGED lastport
          \/ /\ "FIN" \notin sg.flags
             /\ ~Acked(conn[s], sg)
             /\ AckData(s, sg)
             /\ UNCHANGED <<conn, lastport>>

RecvInFinWait2(s, sg) ==
    /\ conn[s].state = "FIN_WAIT_2"
    /\ IF "FIN" \in sg.flags
       THEN PeerClosed(s, [conn[s] EXCEPT !.state = "TIME_WAIT", !.timer = 0], sg)
       ELSE AckData(s, sg) /\ UNCHANGED <<conn, lastport>>

RecvInTimeWait(s, sg) ==
    /\ conn[s].state = "TIME_WAIT"
    /\ out' = Send("ACK", conn[s], sg)
    /\ UNCHANGED <<conn, lastport>>

RecvInClosing(s, sg) ==
    /\ conn[s].state = "CLOSING"
    /\ \E c \in AfterAck(conn[s], sg) :
          conn' = [conn EXCEPT ![s] = IF Acked(@, sg)
                                      THEN [c EXCEPT !.state = "TIME_WAIT", !.timer = 0] ELSE @]
    /\ out' = NoSegment
    /\ UNCHANGED lastport

Recv(s, sg) ==
    \/ RecvReset(s, sg)
    \/ RecvOutOfSequence(s, sg)
    \/ /\ Accepted(s, sg)
       /\ \/ RecvInSynRcvd(s, sg)
          \/ RecvInSynSent(s, sg)
          \/ RecvFinInEstablished(s, sg)
          \/ RecvInEstablished(s, sg)
          \/ RecvInLastAck(s, sg)
          \/ RecvInFinWait1(s, sg)
          \/ RecvInFinWait2(s, sg)
          \/ RecvInTimeWait(s, sg)
          \/ RecvInClosing(s, sg)

Input(sg) ==
    /\ \/ RecvStray(sg)
       \/ RecvSyn(sg)
       \/ \E s \in Slots : Found(sg, s) /\ Recv(s, sg)
    /\ UNCHANGED listenports

-----------------------------------------------------------------------------
Next ==
    \/ \E p \in ServerPorts : Listen(p) \/ Unlisten(p)
    \/ \E r \in Peers : Connect(r)
    \/ \E s \in Slots : Periodic(s) \/ PollRequest(s)
    \/ \E sg \in Segment : Input(sg)

Spec == Init /\ [][Next]_vars

\* The main loop calls uip_periodic() for every slot at every timer tick; the
\* network and the application promise nothing.
FairSpec == Spec /\ \A s \in Slots : WF_vars(Periodic(s))

-----------------------------------------------------------------------------
(* Correctness                                                             *)

\* Every slot holds a connection whose timer fits its byte and whose
\* retransmissions stay within UIP_MAXRTX; a SYN's within UIP_MAXSYNRTX.
TypeOK ==
    /\ conn \in [Slots -> Connection]
    /\ \A s \in Slots :
          conn[s].state \in {"SYN_SENT", "SYN_RCVD"} => conn[s].nrtx <= UIP_MAXSYNRTX
    /\ listenports \in [1 .. UIP_LISTENPORTS -> ServerPorts \cup {NoPort}]
    /\ lastport \in LastPorts

\* Two connections in use never have the same local port and peer, so that a
\* segment has one connection to go to (uip.cpp demultiplexes to the first
\* match), whichever mix of active and passive opens, of TIME_WAIT slots
\* taken over and of opens inside a callback has built the table.
UniqueConnections ==
    \A s, u \in Slots :
        conn[s].state # "CLOSED" /\ conn[u].state # "CLOSED" /\ Tuple(conn[s]) = Tuple(conn[u])
            => s = u

\* A connection that waits for its SYN or FIN to be acknowledged has exactly
\* that byte outstanding, so that the retransmission timer works on it; one
\* that only waits for the other side has nothing outstanding.
LenFits(c) ==
    /\ c.state \in {"SYN_SENT", "SYN_RCVD", "FIN_WAIT_1", "CLOSING", "LAST_ACK"} => c.len = 1
    /\ c.state \in {"FIN_WAIT_2", "TIME_WAIT"} => c.len = 0

OutstandingMatchesState == \A s \in Slots : LenFits(conn[s])

\* What the application has heard of a connection agrees with what the stack
\* does with it: it hears of the opening once and before anything else, gets
\* data events only while the connection is open, and no connection goes away
\* without it having closed it or being told of the end.
ToldFits(c) ==
    /\ c.state = "CLOSED" => c.told \in {"unused", "closing", "ended"}
    /\ c.state \in {"SYN_SENT", "SYN_RCVD"} => c.told = "nothing"
    /\ c.state = "ESTABLISHED" => c.told = "connected"
    /\ c.state \in {"FIN_WAIT_1", "FIN_WAIT_2"} => c.told = "closing"
    /\ c.state \in {"CLOSING", "TIME_WAIT", "LAST_ACK"} => c.told = "ended"

AppKnowsState == \A s \in Slots : ToldFits(conn[s])

\* What takes sequence space when it is sent (a SYN, a FIN, data) is
\* outstanding on a connection to which it belongs, so that it is sent again
\* until it is acknowledged or given up.
SentIsOutstanding ==
    out.kind \in {"SYN", "SYNACK", "FIN", "DATA"} =>
        \E s \in Slots :
            /\ Tuple(conn[s]) = out.to
            /\ Outstanding(conn[s])
            /\ conn[s].state \in
                   CASE out.kind = "SYN"    -> {"SYN_SENT"}
                     [] out.kind = "SYNACK" -> {"SYN_RCVD"}
                     [] out.kind = "DATA"   -> {"ESTABLISHED"}
                     [] out.kind = "FIN"    -> {"FIN_WAIT_1", "CLOSING", "LAST_ACK"}

\* A connection that is being closed, or that waits for an answer to a SYN it
\* has sent again, does not stay so for ever, whatever the peer sends or
\* withholds: it is established or it frees its slot, perhaps for a new one.
InTransit(c) ==
    \/ c.state \in {"FIN_WAIT_1", "FIN_WAIT_2", "CLOSING", "TIME_WAIT", "LAST_ACK"}
    \/ c.state \in {"SYN_SENT", "SYN_RCVD"} /\ c.nrtx > 0

TransitEnds == \A s \in Slots : InTransit(conn[s]) ~> ~InTransit(conn[s])

\* The RST for a connection that timed out goes to the peer of that
\* connection ("We also send a reset packet to the remote host"), never to
\* one whose connection is in use.
NoResetForLive ==
    out.kind = "RST" =>
        \A s \in Slots : Tuple(conn[s]) = out.to => conn[s].state = "CLOSED"

=============================================================================
