---------------------------- MODULE UipTcp_proofs ----------------------------
(***************************************************************************)
(* Proofs about the connection table of UipTcp, for any number of slots,   *)
(* listening ports, peers and timeouts.                                    *)
(*                                                                         *)
(* The application runs inside a step and may open a connection there, so  *)
(* a step goes through tables that the invariant does not describe: the    *)
(* slot being handled is half way (HalfWay).  The proof speaks of tables   *)
(* t, not of the variable conn alone: BeginStep takes a step's first       *)
(* update, CallKeepsTable the callback and EndStep the last update.        *)
(***************************************************************************)
EXTENDS UipTcp, TLAPS

\* One connection, on its own.
GoodConn(c) ==
    /\ c \in Connection
    /\ c.state \in {"SYN_SENT", "SYN_RCVD"} => c.nrtx <= UIP_MAXSYNRTX
    /\ LenFits(c)
    /\ ToldFits(c)

InUse(c) == c.state # "CLOSED"

\* No two connections in use share their tuple.
Distinct(t) ==
    \A s, u \in Slots : InUse(t[s]) /\ InUse(t[u]) /\ Tuple(t[s]) = Tuple(t[u]) => s = u

GoodTable(t) ==
    /\ t \in [Slots -> Connection]
    /\ \A s \in Slots : GoodConn(t[s])
    /\ Distinct(t)

\* The inductive invariant.
IInv ==
    /\ GoodTable(conn)
    /\ listenports \in [1 .. UIP_LISTENPORTS -> ServerPorts \cup {NoPort}]
    /\ lastport \in LastPorts

USE DEF Slots, InUse

-----------------------------------------------------------------------------
(* Connections                                                             *)

LEMMA NoConnectionIsGood == GoodConn(NoConnection) /\ ~InUse(NoConnection)
<1>1. NoConnection \in Connection
  BY TimerAssumption, PortAssumption DEF Connection, NoConnection, States, Tellings
<1> QED
  BY <1>1 DEF GoodConn, NoConnection, LenFits, ToldFits

\* Closing a connection of which the application knows leaves a good slot.
LEMMA ClosedIsGood ==
  ASSUME NEW c, c.told \in {"unused", "closing", "ended"}
  PROVE  GoodConn(Closed(c)) /\ ~InUse(Closed(c))
<1>1. NoConnection \in Connection
  BY NoConnectionIsGood DEF GoodConn
<1>2. Closed(c) \in Connection
  BY <1>1 DEF Closed, Connection, Tellings
<1>3. Closed(c).state = "CLOSED" /\ Closed(c).told = c.told
  BY <1>1 DEF Closed, Connection, NoConnection
<1> QED
  BY <1>2, <1>3 DEF GoodConn, LenFits, ToldFits

LEMMA SynSentIsGood ==
  ASSUME NEW p \in Ports, NEW r \in Peers
  PROVE  GoodConn(SynSent(p, r))
<1>1. SynSent(p, r) \in Connection
  BY TimerAssumption, PortAssumption DEF Connection, SynSent, States, Tellings
<1> QED
  BY <1>1, TimerAssumption DEF GoodConn, SynSent, LenFits, ToldFits

LEMMA SynRcvdIsGood ==
  ASSUME NEW p \in Ports, NEW r \in Peers
  PROVE  GoodConn(SynRcvd(p, r))
<1>1. SynRcvd(p, r) \in Connection
  BY TimerAssumption, PortAssumption DEF Connection, SynRcvd, States, Tellings
<1> QED
  BY <1>1, TimerAssumption DEF GoodConn, SynRcvd, LenFits, ToldFits

\* The backoff of the retransmission timer never overflows its byte.
LEMMA BackoffFits ==
  ASSUME NEW n \in Nat
  PROVE  Backoff(n) \in 0 .. 255
<1>1. PICK m \in {1, 2, 4, 8, 16} : Backoff(n) = UIP_RTO * m
  BY DEF Backoff
<1> QED
  BY <1>1, TimerAssumption

-----------------------------------------------------------------------------
(* Tables                                                                  *)

\* Slot s of table t may be half way through a step: everything else is in
\* order, and s itself is if the callback of this step may take it.
HalfWay(t, s) ==
    /\ t \in [Slots -> Connection]
    /\ Distinct(t)
    /\ \A u \in Slots : u # s \/ t[s].state \in {"CLOSED", "TIME_WAIT"} => GoodConn(t[u])

\* Connection d may follow connection c in its slot.
Succeeds(c, d) == InUse(d) => InUse(c) /\ d.lport = c.lport /\ d.peer = c.peer

LEMMA BeginStep ==
  ASSUME NEW t, NEW s \in Slots, NEW c \in Connection,
         GoodTable(t), Succeeds(t[s], c),
         c.state \in {"CLOSED", "TIME_WAIT"} => GoodConn(c)
  PROVE  HalfWay([t EXCEPT ![s] = c], s)
  BY DEF HalfWay, GoodTable, Distinct, Tuple, Succeeds

LEMMA EndStep ==
  ASSUME NEW t, NEW s \in Slots, NEW d, GoodConn(d), HalfWay(t, s), Succeeds(t[s], d)
  PROVE  GoodTable([t EXCEPT ![s] = d])
<1>1. d \in Connection
  BY DEF GoodConn
<1> QED
  BY <1>1 DEF HalfWay, GoodTable, Distinct, Tuple, Succeeds

LEMMA LeaveStep ==
  ASSUME NEW t, NEW s \in Slots, HalfWay(t, s), t[s].state \in {"CLOSED", "TIME_WAIT"}
  PROVE  GoodTable(t)
  BY DEF HalfWay, GoodTable, GoodConn

LEMMA OneStep ==
  ASSUME NEW t, NEW s \in Slots, NEW d, GoodConn(d), GoodTable(t), Succeeds(t[s], d)
  PROVE  GoodTable([t EXCEPT ![s] = d])
<1>1. d \in Connection
  BY DEF GoodConn
<1> QED
  BY <1>1 DEF GoodTable, Distinct, Tuple, Succeeds

\* A slot that may be refilled holds nothing the application believes alive,
\* and the new connection shares its tuple with no other.
LEMMA RefillKeepsTable ==
  ASSUME NEW t, NEW s \in Slots, NEW v \in SlotFor(t), NEW c,
         HalfWay(t, s), GoodConn(c),
         \A u \in Slots : InUse(t[u]) => t[u].lport # c.lport \/ t[u].peer # c.peer
  PROVE  /\ Refill(t, v, c) = [t EXCEPT ![v] = c]
         /\ HalfWay(Refill(t, v, c), s)
         /\ v \in Slots
         /\ t[v].state \in {"CLOSED", "TIME_WAIT"}
<1>1. v \in Slots /\ t[v].state \in {"CLOSED", "TIME_WAIT"}
  BY DEF SlotFor, FirstClosed, OldestTimeWait
<1>2. GoodConn(t[v])
  BY <1>1 DEF HalfWay
<1>3. t[v].told \notin {"nothing", "connected"}
  BY <1>1, <1>2 DEF GoodConn, ToldFits
<1>4. Refill(t, v, c) = [t EXCEPT ![v] = c]
  BY <1>3, <1>1 DEF Refill, HalfWay
<1>5. c \in Connection
  BY DEF GoodConn
<1>6. HalfWay([t EXCEPT ![v] = c], s)
  BY <1>1, <1>5 DEF HalfWay, Distinct, Tuple
<1> QED
  BY <1>1, <1>4, <1>6

\* uip_connect() keeps a table half way, and leaves the slot being handled
\* alone if that is still in use.
LEMMA ConnectedKeepsTable ==
  ASSUME NEW t, NEW s \in Slots, NEW lp, NEW r \in Peers, NEW k \in Connected(t, lp, r),
         HalfWay(t, s)
  PROVE  /\ HalfWay(k.conn, s)
         /\ k.lastport \in LastPorts
         /\ t[s].state \notin {"CLOSED", "TIME_WAIT"} => k.conn[s] = t[s]
         /\ t[s].state \in {"CLOSED", "TIME_WAIT"} => GoodConn(k.conn[s])
<1>0. PICK p \in NextPorts(t, lp) :
          k \in {[conn |-> u, lastport |-> p] : u \in Seated(t, SynSent(p, r))}
  BY DEF Connected
<1>1. PICK u \in Seated(t, SynSent(p, r)) : k = [conn |-> u, lastport |-> p]
  BY <1>0
<1>2. p \in LastPorts /\ PortFree(t, p) /\ p \in Ports
  BY <1>0, PortAssumption DEF NextPorts, SearchedPorts, Ports, EphPorts, LastPorts
<1>3. CASE SlotFor(t) = {}
  <2>1. u = t
    BY <1>1, <1>3 DEF Seated
  <2> QED
    BY <1>1, <1>2, <2>1 DEF HalfWay
<1>4. CASE SlotFor(t) # {}
  <2>1. PICK v \in SlotFor(t) : u = Refill(t, v, SynSent(p, r))
    BY <1>1, <1>4 DEF Seated
  <2>2. GoodConn(SynSent(p, r)) /\ SynSent(p, r).lport = p
    BY <1>2, SynSentIsGood DEF SynSent
  <2>3. \A w \in Slots : InUse(t[w]) => t[w].lport # p
    BY <1>2 DEF PortFree
  <2>4. /\ Refill(t, v, SynSent(p, r)) = [t EXCEPT ![v] = SynSent(p, r)]
        /\ HalfWay(Refill(t, v, SynSent(p, r)), s)
        /\ v \in Slots
        /\ t[v].state \in {"CLOSED", "TIME_WAIT"}
    BY <2>2, <2>3, RefillKeepsTable
  <2> QED
    BY <1>1, <1>2, <2>1, <2>2, <2>4 DEF HalfWay
<1> QED
  BY <1>3, <1>4

LEMMA CallKeepsTable ==
  ASSUME NEW t, NEW s \in Slots, NEW k \in AfterCall(t), HalfWay(t, s), lastport \in LastPorts
  PROVE  /\ HalfWay(k.conn, s)
         /\ k.lastport \in LastPorts
         /\ t[s].state \notin {"CLOSED", "TIME_WAIT"} => k.conn[s] = t[s]
         /\ t[s].state \in {"CLOSED", "TIME_WAIT"} => GoodConn(k.conn[s])
<1>1. CASE k = [conn |-> t, lastport |-> lastport]
  BY <1>1 DEF HalfWay
<1>2. CASE \E r \in Peers : k \in Connected(t, lastport, r)
  BY <1>2, ConnectedKeepsTable
<1> QED
  BY <1>1, <1>2 DEF AfterCall

-----------------------------------------------------------------------------
(* Steps                                                                   *)

GoodNext == GoodTable(conn') /\ lastport' \in LastPorts

\* What the invariant says of one slot.
LEMMA SlotFacts ==
  ASSUME IInv, NEW s \in Slots
  PROVE  /\ conn \in [Slots -> Connection]
         /\ conn[s] \in Connection
         /\ conn[s].nrtx \in 0 .. UIP_MAXRTX
         /\ conn[s].timer \in 0 .. 255
         /\ conn[s].len \in 0 .. UIP_TCP_MSS
         /\ conn[s].told \in Tellings
         /\ conn[s].state \in States
         /\ conn[s].stopped \in BOOLEAN
         /\ GoodConn(conn[s])
         /\ HalfWay(conn, s)
<1>1. conn \in [Slots -> Connection] /\ Distinct(conn) /\ \A u \in Slots : GoodConn(conn[u])
  BY DEF IInv, GoodTable
<1>2. conn[s] \in Connection
  BY <1>1
<1> HIDE DEF Slots
<1>3. HalfWay(conn, s)
  BY <1>1, Zenon DEF HalfWay
<1> QED
  BY <1>1, <1>2, <1>3 DEF Connection

LEMMA Bounds ==
  /\ 0 \in 0 .. UIP_TCP_MSS /\ 1 \in 0 .. UIP_TCP_MSS /\ UIP_TCP_MSS \in 0 .. UIP_TCP_MSS
  /\ 0 \in 0 .. UIP_MAXRTX
  /\ 0 \in 0 .. 255
  BY TimerAssumption, PortAssumption

\* uip_stop() and uip_restart() change the flow only.
LEMMA FlowFacts ==
  ASSUME NEW c \in Connection, NEW f
  PROVE  /\ Flow(c, f) \in Connection
         /\ Flow(c, f).state = c.state /\ Flow(c, f).told = c.told
         /\ Flow(c, f).lport = c.lport /\ Flow(c, f).peer = c.peer
         /\ Flow(c, f).len = c.len /\ Flow(c, f).nrtx = c.nrtx
<1> DEFINE x == (f = "stop") \/ (f = "keep" /\ c.stopped)
<1>1. Flow(c, f) = [c EXCEPT !.stopped = x]
  BY DEF Flow
<1>2. x \in BOOLEAN
  OBVIOUS
<1> HIDE DEF x
<1>3. /\ [c EXCEPT !.stopped = x] \in Connection
  BY <1>2, Zenon DEF Connection
<1> QED
  BY <1>1, <1>3 DEF Connection

\* The connection after an AppSend answer, from an established one.
LEMMA AppSendIsGood ==
  ASSUME NEW c \in Connection, c.state = "ESTABLISHED", c.told = "connected",
         NEW answer \in Answers, NEW f \in Flows(c)
  PROVE  /\ GoodConn(AppSend(Flow(c, f), answer))
         /\ Succeeds(c, AppSend(Flow(c, f), answer))
<1> DEFINE d == Flow(c, f)
<1>1. d \in Connection /\ d.state = "ESTABLISHED" /\ d.told = "connected"
      /\ d.lport = c.lport /\ d.peer = c.peer
  BY FlowFacts
<1> HIDE DEF d
<1>2. CASE answer = "abort"
  <2> DEFINE e == [d EXCEPT !.told = "ended"]
  <2>1. e.told = "ended"
    BY <1>1 DEF Connection
  <2>2. AppSend(d, answer) = Closed(e)
    BY <1>2 DEF AppSend
  <2> HIDE DEF e
  <2>3. GoodConn(Closed(e)) /\ ~InUse(Closed(e))
    BY <2>1, ClosedIsGood
  <2> QED
    BY <2>2, <2>3 DEF Succeeds, d
<1>3. CASE answer = "close"
  <2> DEFINE e == [d EXCEPT !.state = "FIN_WAIT_1", !.stopped = FALSE,
                            !.len = 1, !.nrtx = 0, !.told = "closing"]
  <2>1. e \in Connection
    BY <1>1, Bounds, Zenon DEF Connection, States, Tellings
  <2>2. e.state = "FIN_WAIT_1" /\ e.len = 1 /\ e.told = "closing"
        /\ e.lport = c.lport /\ e.peer = c.peer
    BY <1>1 DEF Connection
  <2>3. AppSend(d, answer) = e
    BY <1>3 DEF AppSend
  <2> HIDE DEF e
  <2>4. GoodConn(e) /\ Succeeds(c, e)
    BY <2>1, <2>2 DEF GoodConn, LenFits, ToldFits, Succeeds
  <2> QED
    BY <2>3, <2>4 DEF d
<1>4. CASE answer \in {"send", "idle"}
  <2> DEFINE l == IF answer = "send" /\ d.len = 0 THEN UIP_TCP_MSS ELSE d.len
             e == [d EXCEPT !.len = l, !.nrtx = 0]
             g == [d EXCEPT !.nrtx = 0]
             h == IF answer = "send" THEN e ELSE g
  <2>1. d.len \in 0 .. UIP_TCP_MSS
    BY <1>1 DEF Connection
  <2>2. l \in 0 .. UIP_TCP_MSS
    BY <2>1, Bounds
  <2>3. AppSend(d, answer) = h
    BY <1>4, Zenon DEF AppSend
  <2> HIDE DEF l
  <2>4. e \in Connection /\ g \in Connection
    BY <1>1, <2>2, Bounds, Zenon DEF Connection
  <2>5. /\ e.state = d.state /\ e.told = d.told /\ e.lport = d.lport /\ e.peer = d.peer
        /\ g.state = d.state /\ g.told = d.told /\ g.lport = d.lport /\ g.peer = d.peer
    BY <1>1 DEF Connection
  <2> HIDE DEF e, g
  <2>6. GoodConn(h) /\ Succeeds(c, h)
    BY <1>1, <2>4, <2>5 DEF GoodConn, LenFits, ToldFits, Succeeds
  <2> QED
    BY <2>3, <2>6 DEF d
<1> QED
  BY <1>2, <1>3, <1>4 DEF Answers

\* The application's turn keeps the table in order, whatever it answers and
\* whether or not it opens a connection meanwhile.
LEMMA AppTurnKeeps ==
  ASSUME IInv, NEW s \in Slots, NEW c \in Connection, NEW newdata,
         c.state = "ESTABLISHED", c.told = "connected", Succeeds(conn[s], c),
         AppTurn(s, c, newdata)
  PROVE  GoodNext
<1> DEFINE t == [conn EXCEPT ![s] = c]
<1>1. PICK answer \in Answers, f \in Flows(c), k \in AfterCall(t) :
         /\ conn' = [k.conn EXCEPT ![s] = AppSend(Flow(k.conn[s], f), answer)]
         /\ lastport' = k.lastport
  <2>1. PICK answer \in Answers, f \in Flows(c), k \in AfterCall(t) :
         /\ conn' = [k.conn EXCEPT ![s] = AppSend(Flow(@, f), answer)]
         /\ lastport' = k.lastport
    BY DEF AppTurn
  <2> QED
    BY <2>1
<1>2. HalfWay(t, s) /\ t[s] = c
  BY BeginStep DEF IInv, GoodTable
<1> HIDE DEF t
<1>3. /\ HalfWay(k.conn, s)
      /\ k.lastport \in LastPorts
      /\ k.conn[s] = c
  BY <1>2, CallKeepsTable DEF IInv
<1>4. GoodConn(AppSend(Flow(c, f), answer)) /\ Succeeds(c, AppSend(Flow(c, f), answer))
  BY AppSendIsGood
<1> QED
  BY <1>1, <1>3, <1>4, EndStep DEF GoodNext

\* The table after a callback that ended with slot s in a state of its own.
LEMMA ClosingCallKeeps ==
  ASSUME IInv, NEW s \in Slots, NEW c,
         GoodConn(c), Succeeds(conn[s], c), c.state \in {"CLOSED", "TIME_WAIT"},
         \E k \in AfterCall([conn EXCEPT ![s] = c]) : Table(k)
  PROVE  GoodNext
<1> DEFINE t == [conn EXCEPT ![s] = c]
<1>1. PICK k \in AfterCall(t) : conn' = k.conn /\ lastport' = k.lastport
  BY DEF Table
<1>2. HalfWay(t, s) /\ t[s] = c
  BY BeginStep DEF IInv, GoodTable, GoodConn
<1> HIDE DEF t
<1>3. HalfWay(k.conn, s) /\ k.lastport \in LastPorts /\ GoodConn(k.conn[s])
  BY <1>2, CallKeepsTable DEF IInv
<1>4. GoodTable(k.conn)
  BY <1>3 DEF HalfWay, GoodTable, GoodConn
<1> QED
  BY <1>1, <1>3, <1>4 DEF GoodNext

LEMMA OneSlotKeeps ==
  ASSUME IInv, NEW s \in Slots, NEW d, GoodConn(d), Succeeds(conn[s], d),
         conn' = [conn EXCEPT ![s] = d], lastport' = lastport
  PROVE  GoodNext
  BY OneStep DEF IInv, GoodNext

LEMMA NoSlotKeeps ==
  ASSUME IInv, conn' = conn, lastport' = lastport
  PROVE  GoodNext
  BY DEF IInv, GoodNext

\* What an event changes: the history, and nothing else.
LEMMA TellFacts ==
  ASSUME NEW c \in Connection, NEW event
  PROVE  /\ Tell(c, event) \in Connection
         /\ Tell(c, event).state = c.state
         /\ Tell(c, event).len = c.len
         /\ Tell(c, event).nrtx = c.nrtx
         /\ Tell(c, event).lport = c.lport /\ Tell(c, event).peer = c.peer
         /\ event = "END" /\ c.told # "unused" => Tell(c, event).told = "ended"
         /\ event = "DATA" /\ c.told = "connected" => Tell(c, event).told = "connected"
         /\ event = "CONNECTED" /\ c.told = "nothing" => Tell(c, event).told = "connected"
<1> DEFINE w == CASE event = "CONNECTED" /\ c.told = "nothing"   -> "connected"
                  [] event = "DATA"      /\ c.told = "connected" -> "connected"
                  [] event = "END"       /\ c.told # "unused"    -> "ended"
                  [] OTHER                                       -> "confused"
<1>1. Tell(c, event) = [c EXCEPT !.told = w]
  BY Zenon DEF Tell
<1>2. w \in Tellings
  BY DEF Tellings
<1>3. /\ event = "END" /\ c.told # "unused" => w = "ended"
      /\ event = "DATA" /\ c.told = "connected" => w = "connected"
      /\ event = "CONNECTED" /\ c.told = "nothing" => w = "connected"
  OBVIOUS
<1> HIDE DEF w
<1> QED
  BY <1>1, <1>2, <1>3 DEF Connection

LEMMA AfterAckFacts ==
  ASSUME NEW c \in Connection, NEW sg, NEW d \in AfterAck(c, sg)
  PROVE  /\ d \in Connection
         /\ d.state = c.state /\ d.told = c.told /\ d.nrtx = c.nrtx
         /\ d.lport = c.lport /\ d.peer = c.peer
         /\ d.len = IF Acked(c, sg) THEN 0 ELSE c.len
<1>1. CASE Acked(c, sg)
  <2>1. PICK r \in RtoRange : d = [c EXCEPT !.len = 0, !.timer = r]
    BY <1>1 DEF AfterAck
  <2>2. r \in 0 .. 255
    BY TimerAssumption
  <2>3. d \in Connection
    BY <2>1, <2>2, Bounds, Zenon DEF Connection
  <2> QED
    BY <1>1, <2>1, <2>3 DEF Connection
<1>2. CASE ~Acked(c, sg)
  BY <1>2 DEF AfterAck
<1> QED
  BY <1>1, <1>2

-----------------------------------------------------------------------------
(* Calls from the main loop and ticks                                      *)

LEMMA ConnectKeeps ==
  ASSUME IInv, NEW r \in Peers, Connect(r)
  PROVE  GoodNext
<1>1. PICK k \in Connected(conn, lastport, r) : conn' = k.conn /\ lastport' = k.lastport
  BY DEF Connect, Table
<1>2. 1 \in Slots
  BY TableAssumption
<1>3. HalfWay(conn, 1)
  BY <1>2, SlotFacts
<1>4. HalfWay(k.conn, 1) /\ k.lastport \in LastPorts
      /\ (conn[1].state \notin {"CLOSED", "TIME_WAIT"} => k.conn[1] = conn[1])
      /\ (conn[1].state \in {"CLOSED", "TIME_WAIT"} => GoodConn(k.conn[1]))
  BY <1>2, <1>3, ConnectedKeepsTable
<1>5. GoodConn(k.conn[1])
  BY <1>2, <1>4, SlotFacts
<1> QED
  BY <1>1, <1>4, <1>5 DEF GoodNext, GoodTable, HalfWay

LEMMA TickWaitKeeps ==
  ASSUME IInv, NEW s \in Slots, TickWait(s)
  PROVE  GoodNext
<1> DEFINE t == (conn[s].timer + 1) % 256
           e == [conn[s] EXCEPT !.timer = t]
           d == IF t = UIP_TIME_WAIT_TIMEOUT THEN Closed(conn[s]) ELSE e
<1>1. conn' = [conn EXCEPT ![s] = d] /\ lastport' = lastport
  BY DEF TickWait
<1>0. conn[s].timer \in 0 .. 255
  BY SlotFacts
<1>2. t \in 0 .. 255
  BY <1>0
<1> HIDE DEF t
<1>b. conn[s] \in Connection
  BY SlotFacts
<1>a. e \in Connection
  BY <1>2, <1>b, Zenon DEF Connection
<1>3. e \in Connection /\ e.state = conn[s].state /\ e.told = conn[s].told
      /\ e.len = conn[s].len /\ e.lport = conn[s].lport /\ e.peer = conn[s].peer
  BY <1>a, SlotFacts DEF Connection
<1>4. conn[s].state \in {"TIME_WAIT", "FIN_WAIT_2"}
  BY DEF TickWait
<1> HIDE DEF e
<1>5. GoodConn(e) /\ Succeeds(conn[s], e)
  BY <1>3, <1>4, SlotFacts DEF GoodConn, LenFits, ToldFits, Succeeds
<1>6. conn[s].told \in {"closing", "ended"}
  BY <1>4, SlotFacts DEF GoodConn, ToldFits
<1>7. GoodConn(Closed(conn[s])) /\ Succeeds(conn[s], Closed(conn[s]))
  BY <1>6, ClosedIsGood DEF Succeeds
<1>8. GoodConn(d) /\ Succeeds(conn[s], d)
  BY <1>5, <1>7
<1> HIDE DEF d
<1> QED
  BY <1>1, <1>8, OneSlotKeeps

LEMMA TickCountDownKeeps ==
  ASSUME IInv, NEW s \in Slots, TickCountDown(s)
  PROVE  GoodNext
<1> DEFINE t == conn[s].timer - 1
           d == [conn[s] EXCEPT !.timer = t]
<1>1. conn' = [conn EXCEPT ![s] = d] /\ lastport' = lastport
  BY SlotFacts DEF TickCountDown
<1>2. t \in 0 .. 255
  BY SlotFacts DEF TickCountDown
<1> HIDE DEF t
<1>b. conn[s] \in Connection
  BY SlotFacts
<1>a. d \in Connection
  BY <1>2, <1>b, Zenon DEF Connection
<1>3. d \in Connection /\ d.state = conn[s].state /\ d.told = conn[s].told
      /\ d.len = conn[s].len /\ d.nrtx = conn[s].nrtx
      /\ d.lport = conn[s].lport /\ d.peer = conn[s].peer
  BY <1>a, SlotFacts DEF Connection
<1> HIDE DEF d
<1>4. GoodConn(d) /\ Succeeds(conn[s], d)
  BY <1>3, SlotFacts DEF GoodConn, LenFits, ToldFits, Succeeds
<1> QED
  BY <1>1, <1>4, OneSlotKeeps

\* A connection that is closed and whose application hears of it.
LEMMA EndedIsGood ==
  ASSUME IInv, NEW s \in Slots, conn[s].state # "CLOSED"
  PROVE  /\ conn[s].told \in {"nothing", "connected", "closing", "ended"}
         /\ GoodConn(Closed(Tell(conn[s], "END")))
         /\ ~InUse(Closed(Tell(conn[s], "END")))
<1>1. conn[s].told \in {"nothing", "connected", "closing", "ended"}
  BY SlotFacts DEF GoodConn, ToldFits, States
<1>2. Tell(conn[s], "END").told = "ended"
  BY <1>1, SlotFacts, TellFacts
<1> QED
  BY <1>1, <1>2, ClosedIsGood

LEMMA EndKeeps ==
  ASSUME IInv, NEW s \in Slots, conn[s].state # "CLOSED",
         \E k \in AfterCall([conn EXCEPT ![s] = Closed(Tell(conn[s], "END"))]) : Table(k)
  PROVE  GoodNext
<1>1. GoodConn(Closed(Tell(conn[s], "END"))) /\ ~InUse(Closed(Tell(conn[s], "END")))
  BY EndedIsGood
<1> QED
  BY <1>1, ClosingCallKeeps DEF Succeeds

LEMMA TickGiveUpKeeps ==
  ASSUME IInv, NEW s \in Slots, TickGiveUp(s)
  PROVE  GoodNext
<1>1. conn[s].state # "CLOSED"
  BY DEF TickGiveUp, Retransmits
<1>2. \E k \in AfterCall([conn EXCEPT ![s] = Closed(Tell(conn[s], "END"))]) : Table(k)
  BY DEF TickGiveUp
<1> QED
  BY <1>1, <1>2, EndKeeps

\* A retransmission is counted, and still within bounds.
LEMMA RetriedFacts ==
  ASSUME IInv, NEW s \in Slots, TimesOut(conn[s])
  PROVE  /\ Retried(conn[s]) \in Connection
         /\ GoodConn(Retried(conn[s]))
         /\ Retried(conn[s]).state = conn[s].state
         /\ Retried(conn[s]).told = conn[s].told
         /\ Retried(conn[s]).lport = conn[s].lport
         /\ Retried(conn[s]).peer = conn[s].peer
<1> DEFINE n == conn[s].nrtx + 1
           b == Backoff(conn[s].nrtx)
           d == [conn[s] EXCEPT !.timer = b, !.nrtx = n]
<1>0. /\ conn[s] \in Connection
      /\ conn[s].nrtx \in 0 .. UIP_MAXRTX
      /\ conn[s].state \in {"SYN_SENT", "SYN_RCVD"} => conn[s].nrtx <= UIP_MAXSYNRTX
  BY SlotFacts DEF GoodConn
<1>a. /\ conn[s].nrtx # UIP_MAXRTX
      /\ conn[s].state \in {"SYN_SENT", "SYN_RCVD"} => conn[s].nrtx # UIP_MAXSYNRTX
  BY DEF TimesOut, RetriesUsedUp
<1>1. n \in 0 .. UIP_MAXRTX
      /\ (conn[s].state \in {"SYN_SENT", "SYN_RCVD"} => n <= UIP_MAXSYNRTX)
  BY <1>0, <1>a, TimerAssumption
<1>b. conn[s].nrtx \in Nat
  BY <1>0, TimerAssumption
<1>2. b \in 0 .. 255
  BY <1>b, BackoffFits
<1>3. Retried(conn[s]) = d
  BY Zenon DEF Retried
<1> HIDE DEF n, b
<1>4. d \in Connection
  BY <1>0, <1>1, <1>2, Zenon DEF Connection
<1>5. /\ d.state = conn[s].state /\ d.told = conn[s].told /\ d.nrtx = n
      /\ d.len = conn[s].len /\ d.lport = conn[s].lport /\ d.peer = conn[s].peer
  BY SlotFacts DEF Connection
<1> HIDE DEF d
<1>6. GoodConn(d)
  BY <1>1, <1>4, <1>5, SlotFacts DEF GoodConn, LenFits, ToldFits
<1> QED
  BY <1>3, <1>4, <1>5, <1>6

LEMMA TickRetransmitKeeps ==
  ASSUME IInv, NEW s \in Slots, TickRetransmit(s)
  PROVE  GoodNext
<1>1. TimesOut(conn[s]) /\ conn' = [conn EXCEPT ![s] = Retried(conn[s])]
      /\ lastport' = lastport
  BY SlotFacts DEF TickRetransmit
<1>2. GoodConn(Retried(conn[s])) /\ Succeeds(conn[s], Retried(conn[s]))
  BY <1>1, RetriedFacts DEF Succeeds
<1> QED
  BY <1>1, <1>2, OneSlotKeeps

LEMMA TickAppRetransmitKeeps ==
  ASSUME IInv, NEW s \in Slots, TickAppRetransmit(s)
  PROVE  GoodNext
<1> DEFINE d == Tell(Retried(conn[s]), "DATA")
           t == [conn EXCEPT ![s] = d]
<1>1. TimesOut(conn[s]) /\ conn[s].state = "ESTABLISHED"
  BY DEF TickAppRetransmit
<1>2. \E f \in Flows(conn[s]), k \in AfterCall(t) :
         conn' = [k.conn EXCEPT ![s] = Flow(k.conn[s], f)] /\ lastport' = k.lastport
  <2>1. \E f \in Flows(conn[s]), k \in AfterCall(t) :
           conn' = [k.conn EXCEPT ![s] = Flow(@, f)] /\ lastport' = k.lastport
    BY Zenon DEF TickAppRetransmit
  <2> QED
    BY <2>1
<1>3. PICK f \in Flows(conn[s]), k \in AfterCall(t) :
         conn' = [k.conn EXCEPT ![s] = Flow(k.conn[s], f)] /\ lastport' = k.lastport
  BY <1>2
<1>4. conn[s].told = "connected"
  BY <1>1, SlotFacts DEF GoodConn, ToldFits
<1>5. /\ d \in Connection /\ d.state = "ESTABLISHED" /\ d.told = "connected"
      /\ d.lport = conn[s].lport /\ d.peer = conn[s].peer
  BY <1>1, <1>4, RetriedFacts, TellFacts
<1> HIDE DEF d
<1>6. HalfWay(t, s) /\ t[s] = d
  BY <1>1, <1>5, BeginStep DEF IInv, GoodTable, Succeeds
<1> HIDE DEF t
<1>7. HalfWay(k.conn, s) /\ k.lastport \in LastPorts /\ k.conn[s] = d
  BY <1>5, <1>6, CallKeepsTable DEF IInv
<1> DEFINE e == Flow(d, f)
<1>8. /\ e \in Connection /\ e.state = "ESTABLISHED" /\ e.told = "connected"
      /\ e.lport = d.lport /\ e.peer = d.peer
  BY <1>5, FlowFacts
<1> HIDE DEF e
<1>9. GoodConn(e) /\ Succeeds(d, e)
  BY <1>5, <1>8 DEF GoodConn, LenFits, ToldFits, Succeeds
<1>10. GoodTable([k.conn EXCEPT ![s] = e])
  BY <1>7, <1>9, EndStep
<1> QED
  BY <1>3, <1>7, <1>10 DEF GoodNext, e

\* A poll is the application's turn on an established connection.
LEMMA PollKeeps ==
  ASSUME IInv, NEW s \in Slots, Idle(conn[s]), AppTurn(s, Tell(conn[s], "DATA"), FALSE)
  PROVE  GoodNext
<1> DEFINE c == Tell(conn[s], "DATA")
<1>1. conn[s].state = "ESTABLISHED" /\ conn[s].told = "connected"
  BY SlotFacts DEF Idle, GoodConn, ToldFits
<1>2. c \in Connection /\ c.state = "ESTABLISHED" /\ c.told = "connected"
      /\ Succeeds(conn[s], c)
  BY <1>1, SlotFacts, TellFacts DEF Succeeds
<1> QED
  BY <1>2, AppTurnKeeps

LEMMA PeriodicKeeps ==
  ASSUME IInv, NEW s \in Slots, Periodic(s)
  PROVE  GoodNext
<1>1. CASE TickWait(s)
  BY <1>1, TickWaitKeeps
<1>2. CASE TickCountDown(s)
  BY <1>2, TickCountDownKeeps
<1>3. CASE TickGiveUp(s)
  BY <1>3, TickGiveUpKeeps
<1>4. CASE TickRetransmit(s)
  BY <1>4, TickRetransmitKeeps
<1>5. CASE TickAppRetransmit(s)
  BY <1>5, TickAppRetransmitKeeps
<1>6. CASE TickPoll(s)
  BY <1>6, PollKeeps DEF TickPoll
<1> QED
  BY <1>1, <1>2, <1>3, <1>4, <1>5, <1>6 DEF Periodic

LEMMA PollRequestKeeps ==
  ASSUME IInv, NEW s \in Slots, PollRequest(s)
  PROVE  GoodNext
<1>1. CASE Idle(conn[s]) /\ AppTurn(s, Tell(conn[s], "DATA"), FALSE)
  BY <1>1, PollKeeps
<1>2. CASE UNCHANGED <<conn, lastport>>
  BY <1>2, NoSlotKeeps
<1> QED
  BY <1>1, <1>2 DEF PollRequest

-----------------------------------------------------------------------------
(* Segments                                                                *)

LEMMA RecvSynKeeps ==
  ASSUME IInv, NEW sg \in Segment, RecvSyn(sg)
  PROVE  GoodNext
<1> DEFINE c == SynRcvd(sg.lport, sg.peer)
<1>1. CASE UNCHANGED conn
  BY <1>1, NoSlotKeeps DEF RecvSyn
<1>2. CASE \E s \in SlotFor(conn) : conn' = Refill(conn, s, c)
  <2>1. PICK s \in SlotFor(conn) : conn' = Refill(conn, s, c)
    BY <1>2
  <2>2. s \in Slots
    BY DEF SlotFor
  <2>3. HalfWay(conn, s)
    BY <2>2, SlotFacts
  <2>4. GoodConn(c) /\ c.lport = sg.lport /\ c.peer = sg.peer
    BY SynRcvdIsGood DEF Segment, SynRcvd
  <2>5. \A u \in Slots : InUse(conn[u]) => conn[u].lport # c.lport \/ conn[u].peer # c.peer
    BY <2>4 DEF RecvSyn, Matches
  <2> HIDE DEF c
  <2>6. /\ Refill(conn, s, c) = [conn EXCEPT ![s] = c]
        /\ HalfWay(Refill(conn, s, c), s)
    BY <2>2, <2>3, <2>4, <2>5, RefillKeepsTable
  <2>7. conn'[s] = c
    BY <2>1, <2>2, <2>6, SlotFacts
  <2>8. GoodTable(conn')
    BY <2>1, <2>4, <2>6, <2>7 DEF GoodTable, HalfWay
  <2> QED
    BY <2>8 DEF GoodNext, RecvSyn, IInv
<1> QED
  BY <1>1, <1>2 DEF RecvSyn

LEMMA RecvResetKeeps ==
  ASSUME IInv, NEW s \in Slots, NEW sg, conn[s].state # "CLOSED", RecvReset(s, sg)
  PROVE  GoodNext
<1>1. \E k \in AfterCall([conn EXCEPT ![s] = Closed(Tell(conn[s], "END"))]) : Table(k)
  BY SlotFacts DEF RecvReset
<1> QED
  BY <1>1, EndKeeps

\* The connection that has just been opened is one the application may use.
LEMMA OpenedFacts ==
  ASSUME IInv, NEW s \in Slots, conn[s].state \in {"SYN_RCVD", "SYN_SENT"},
         NEW sg, NEW c \in AfterAck(conn[s], sg)
  PROVE  /\ Opened(c) \in Connection
         /\ Opened(c).state = "ESTABLISHED" /\ Opened(c).told = "connected"
         /\ Succeeds(conn[s], Opened(c))
<1> DEFINE d == [c EXCEPT !.state = "ESTABLISHED", !.len = 0]
<1>1. conn[s] \in Connection /\ conn[s].told = "nothing"
  BY SlotFacts DEF GoodConn, ToldFits
<1>2. /\ c \in Connection /\ c.told = "nothing"
      /\ c.lport = conn[s].lport /\ c.peer = conn[s].peer
  BY <1>1, AfterAckFacts
<1>3. d \in Connection
  BY <1>2, Bounds, Zenon DEF Connection, States
<1>4. d.state = "ESTABLISHED" /\ d.told = "nothing" /\ d.lport = c.lport /\ d.peer = c.peer
  BY <1>2 DEF Connection
<1>5. Opened(c) = Tell(d, "CONNECTED")
  BY DEF Opened
<1> HIDE DEF d
<1> QED
  BY <1>2, <1>3, <1>4, <1>5, TellFacts DEF Succeeds

LEMMA RecvInSynRcvdKeeps ==
  ASSUME IInv, NEW s \in Slots, NEW sg, RecvInSynRcvd(s, sg)
  PROVE  GoodNext
<1>1. CASE Acked(conn[s], sg)
  <2>1. PICK c \in AfterAck(conn[s], sg) : AppTurn(s, Opened(c), sg.data)
    BY <1>1 DEF RecvInSynRcvd
  <2>2. conn[s].state \in {"SYN_RCVD", "SYN_SENT"}
    BY DEF RecvInSynRcvd
  <2> QED
    BY <2>1, <2>2, OpenedFacts, AppTurnKeeps
<1>2. CASE ~Acked(conn[s], sg)
  BY <1>2, NoSlotKeeps DEF RecvInSynRcvd
<1> QED
  BY <1>1, <1>2

LEMMA RecvInSynSentKeeps ==
  ASSUME IInv, NEW s \in Slots, NEW sg, RecvInSynSent(s, sg)
  PROVE  GoodNext
<1>1. conn[s].state = "SYN_SENT" /\ conn[s].told = "nothing" /\ conn[s] \in Connection
  BY SlotFacts DEF RecvInSynSent, GoodConn, ToldFits
<1>2. PICK c \in AfterAck(conn[s], sg) :
         IF Acked(conn[s], sg) /\ sg.flags = {"SYN", "ACK"}
         THEN AppTurn(s, Opened(c), TRUE)
         ELSE \E k \in AfterCall([conn EXCEPT ![s] = Tell(c, "END")]) :
                 conn' = [k.conn EXCEPT ![s] = Closed(k.conn[s])] /\ lastport' = k.lastport
  <2>1. PICK c \in AfterAck(conn[s], sg) :
         IF Acked(conn[s], sg) /\ sg.flags = {"SYN", "ACK"}
         THEN AppTurn(s, Opened(c), TRUE)
         ELSE \E k \in AfterCall([conn EXCEPT ![s] = Tell(c, "END")]) :
                 conn' = [k.conn EXCEPT ![s] = Closed(@)] /\ lastport' = k.lastport
    BY DEF RecvInSynSent
  <2> QED
    BY <2>1
<1>3. CASE Acked(conn[s], sg) /\ sg.flags = {"SYN", "ACK"}
  BY <1>1, <1>2, <1>3, OpenedFacts, AppTurnKeeps
<1>4. CASE ~(Acked(conn[s], sg) /\ sg.flags = {"SYN", "ACK"})
  <2> DEFINE d == Tell(c, "END")
             t == [conn EXCEPT ![s] = d]
  <2>1. PICK k \in AfterCall(t) :
           conn' = [k.conn EXCEPT ![s] = Closed(k.conn[s])] /\ lastport' = k.lastport
    BY <1>2, <1>4
  <2>2. /\ d \in Connection /\ d.state = "SYN_SENT" /\ d.told = "ended"
        /\ d.lport = conn[s].lport /\ d.peer = conn[s].peer
    BY <1>1, AfterAckFacts, TellFacts
  <2> HIDE DEF d
  <2>3. HalfWay(t, s) /\ t[s] = d
    BY <1>1, <2>2, BeginStep DEF IInv, GoodTable, Succeeds
  <2> HIDE DEF t
  <2>4. HalfWay(k.conn, s) /\ k.lastport \in LastPorts /\ k.conn[s] = d
    BY <2>2, <2>3, CallKeepsTable DEF IInv
  <2>5. GoodConn(Closed(d)) /\ Succeeds(d, Closed(d))
    BY <2>2, ClosedIsGood DEF Succeeds
  <2> QED
    BY <2>1, <2>4, <2>5, EndStep DEF GoodNext
<1> QED
  BY <1>3, <1>4

LEMMA RecvFinInEstablishedKeeps ==
  ASSUME IInv, NEW s \in Slots, NEW sg, RecvFinInEstablished(s, sg)
  PROVE  GoodNext
<1>1. conn[s].state = "ESTABLISHED" /\ conn[s].told = "connected" /\ conn[s] \in Connection
  BY SlotFacts DEF RecvFinInEstablished, GoodConn, ToldFits
<1>2. CASE UNCHANGED <<conn, lastport>>
  BY <1>2, NoSlotKeeps
<1>3. CASE \E c \in AfterAck(conn[s], sg) : \E k \in AfterCall([conn EXCEPT ![s] = Tell(c, "END")]) :
              /\ conn' = [k.conn EXCEPT ![s].state = "LAST_ACK", ![s].len = 1, ![s].nrtx = 0]
              /\ lastport' = k.lastport
  <2>1. PICK c \in AfterAck(conn[s], sg) : \E k \in AfterCall([conn EXCEPT ![s] = Tell(c, "END")]) :
              /\ conn' = [k.conn EXCEPT ![s].state = "LAST_ACK", ![s].len = 1, ![s].nrtx = 0]
              /\ lastport' = k.lastport
    BY <1>3
  <2> DEFINE d == Tell(c, "END")
             t == [conn EXCEPT ![s] = d]
             e == [d EXCEPT !.state = "LAST_ACK", !.len = 1, !.nrtx = 0]
  <2>2. PICK k \in AfterCall(t) :
              /\ conn' = [k.conn EXCEPT ![s].state = "LAST_ACK", ![s].len = 1, ![s].nrtx = 0]
              /\ lastport' = k.lastport
    BY <2>1
  <2>3. /\ d \in Connection /\ d.state = "ESTABLISHED" /\ d.told = "ended"
        /\ d.lport = conn[s].lport /\ d.peer = conn[s].peer
    BY <1>1, AfterAckFacts, TellFacts
  <2> HIDE DEF d
  <2>4. HalfWay(t, s) /\ t[s] = d
    BY <1>1, <2>3, BeginStep DEF IInv, GoodTable, Succeeds
  <2> HIDE DEF t
  <2>5. HalfWay(k.conn, s) /\ k.lastport \in LastPorts /\ k.conn[s] = d
    BY <2>3, <2>4, CallKeepsTable DEF IInv
  <2>6. e \in Connection
    BY <2>3, Bounds, Zenon DEF Connection, States
  <2>7. e.state = "LAST_ACK" /\ e.len = 1 /\ e.told = "ended"
        /\ e.lport = d.lport /\ e.peer = d.peer
    BY <2>3 DEF Connection
  <2>8. conn' = [k.conn EXCEPT ![s] = e]
    BY <2>2, <2>5 DEF HalfWay
  <2> HIDE DEF e
  <2>9. GoodConn(e) /\ Succeeds(d, e)
    BY <2>3, <2>6, <2>7 DEF GoodConn, LenFits, ToldFits, Succeeds
  <2> QED
    BY <2>2, <2>5, <2>8, <2>9, EndStep DEF GoodNext
<1> QED
  BY <1>2, <1>3 DEF RecvFinInEstablished

LEMMA RecvInEstablishedKeeps ==
  ASSUME IInv, NEW s \in Slots, NEW sg, RecvInEstablished(s, sg)
  PROVE  GoodNext
<1>1. conn[s].state = "ESTABLISHED" /\ conn[s].told = "connected" /\ conn[s] \in Connection
  BY SlotFacts DEF RecvInEstablished, GoodConn, ToldFits
<1>2. CASE UNCHANGED <<conn, lastport>>
  BY <1>2, NoSlotKeeps
<1>3. CASE \E c \in AfterAck(conn[s], sg) :
              AppTurn(s, Tell(c, "DATA"), sg.data /\ ~conn[s].stopped)
  <2>1. PICK c \in AfterAck(conn[s], sg) :
           AppTurn(s, Tell(c, "DATA"), sg.data /\ ~conn[s].stopped)
    BY <1>3
  <2>2. /\ Tell(c, "DATA") \in Connection
        /\ Tell(c, "DATA").state = "ESTABLISHED" /\ Tell(c, "DATA").told = "connected"
        /\ Succeeds(conn[s], Tell(c, "DATA"))
    BY <1>1, AfterAckFacts, TellFacts DEF Succeeds
  <2> QED
    BY <2>1, <2>2, AppTurnKeeps
<1> QED
  BY <1>2, <1>3 DEF RecvInEstablished

LEMMA RecvInLastAckKeeps ==
  ASSUME IInv, NEW s \in Slots, NEW sg, RecvInLastAck(s, sg)
  PROVE  GoodNext
<1>1. CASE UNCHANGED <<conn, lastport>>
  BY <1>1, NoSlotKeeps
<1>2. CASE \E k \in AfterCall([conn EXCEPT ![s] = Closed(Tell(conn[s], "END"))]) : Table(k)
  BY <1>2, EndKeeps DEF RecvInLastAck
<1>3. \/ UNCHANGED <<conn, lastport>>
      \/ \E k \in AfterCall([conn EXCEPT ![s] = Closed(Tell(conn[s], "END"))]) : Table(k)
  BY SlotFacts DEF RecvInLastAck
<1> QED
  BY <1>1, <1>2, <1>3

\* The application hears of the peer's FIN when the connection is in state
\* CLOSING, which no callback can take away, or in TIME_WAIT, which it can.
LEMMA PeerClosedKeeps ==
  ASSUME IInv, NEW s \in Slots, NEW sg, NEW c \in Connection,
         c.told # "unused", conn[s].state # "CLOSED",
         c.lport = conn[s].lport, c.peer = conn[s].peer,
         \/ c.state = "CLOSING" /\ c.len = 1
         \/ c.state = "TIME_WAIT" /\ c.len = 0,
         PeerClosed(s, c, sg)
  PROVE  GoodNext
<1> DEFINE d == Tell(c, "END")
           t == [conn EXCEPT ![s] = d]
<1>1. PICK k \in AfterCall(t) : conn' = k.conn /\ lastport' = k.lastport
  BY DEF PeerClosed, Table
<1>2. /\ d \in Connection /\ d.state = c.state /\ d.len = c.len /\ d.told = "ended"
      /\ d.lport = c.lport /\ d.peer = c.peer
  BY TellFacts
<1> HIDE DEF d
<1>3. GoodConn(d) /\ Succeeds(conn[s], d)
  BY <1>2 DEF GoodConn, LenFits, ToldFits, Succeeds
<1>4. HalfWay(t, s) /\ t[s] = d
  BY <1>2, <1>3, BeginStep DEF IInv, GoodTable
<1> HIDE DEF t
<1>5. HalfWay(k.conn, s) /\ k.lastport \in LastPorts /\ GoodConn(k.conn[s])
  BY <1>3, <1>4, CallKeepsTable DEF IInv
<1>6. GoodTable(k.conn)
  BY <1>5 DEF HalfWay, GoodTable
<1> QED
  BY <1>1, <1>5, <1>6 DEF GoodNext

LEMMA RecvInFinWait1Keeps ==
  ASSUME IInv, NEW s \in Slots, NEW sg, RecvInFinWait1(s, sg)
  PROVE  GoodNext
<1>1. /\ conn[s].state = "FIN_WAIT_1" /\ conn[s].told = "closing" /\ conn[s].len = 1
      /\ conn[s] \in Connection
  BY SlotFacts DEF RecvInFinWait1, GoodConn, ToldFits, LenFits
<1>2. PICK c \in AfterAck(conn[s], sg) :
          \/ /\ Acked(conn[s], sg)
             /\ PeerClosed(s, [c EXCEPT !.state = "TIME_WAIT", !.timer = 0, !.len = 0], sg)
          \/ /\ ~Acked(conn[s], sg)
             /\ PeerClosed(s, [c EXCEPT !.state = "CLOSING"], sg)
          \/ /\ conn' = [conn EXCEPT ![s] = [c EXCEPT !.state = "FIN_WAIT_2", !.len = 0]]
             /\ UNCHANGED lastport
          \/ UNCHANGED <<conn, lastport>>
  BY DEF RecvInFinWait1
<1>3. /\ c \in Connection /\ c.told = "closing"
      /\ c.lport = conn[s].lport /\ c.peer = conn[s].peer
      /\ ~Acked(conn[s], sg) => c.len = 1
  BY <1>1, AfterAckFacts
<1>4. CASE PeerClosed(s, [c EXCEPT !.state = "TIME_WAIT", !.timer = 0, !.len = 0], sg)
  <2> DEFINE d == [c EXCEPT !.state = "TIME_WAIT", !.timer = 0, !.len = 0]
  <2>1. d \in Connection
    BY <1>3, Bounds, Zenon DEF Connection, States
  <2>2. d.state = "TIME_WAIT" /\ d.len = 0 /\ d.told = "closing"
        /\ d.lport = c.lport /\ d.peer = c.peer
    BY <1>3 DEF Connection
  <2> HIDE DEF d
  <2>3. PeerClosed(s, d, sg)
    BY <1>4 DEF d
  <2> QED
    BY <1>1, <1>3, <2>1, <2>2, <2>3, PeerClosedKeeps
<1>5. CASE ~Acked(conn[s], sg) /\ PeerClosed(s, [c EXCEPT !.state = "CLOSING"], sg)
  <2> DEFINE d == [c EXCEPT !.state = "CLOSING"]
  <2>1. d \in Connection
    BY <1>3, Zenon DEF Connection, States
  <2>2. d.state = "CLOSING" /\ d.len = 1 /\ d.told = "closing"
        /\ d.lport = c.lport /\ d.peer = c.peer
    BY <1>3, <1>5 DEF Connection
  <2> HIDE DEF d
  <2>3. PeerClosed(s, d, sg)
    BY <1>5 DEF d
  <2> QED
    BY <1>1, <1>3, <2>1, <2>2, <2>3, PeerClosedKeeps
<1>6. CASE /\ conn' = [conn EXCEPT ![s] = [c EXCEPT !.state = "FIN_WAIT_2", !.len = 0]]
           /\ UNCHANGED lastport
  <2> DEFINE d == [c EXCEPT !.state = "FIN_WAIT_2", !.len = 0]
  <2>1. d \in Connection
    BY <1>3, Bounds, Zenon DEF Connection, States
  <2>2. d.state = "FIN_WAIT_2" /\ d.len = 0 /\ d.told = "closing"
        /\ d.lport = c.lport /\ d.peer = c.peer
    BY <1>3 DEF Connection
  <2> HIDE DEF d
  <2>3. GoodConn(d) /\ Succeeds(conn[s], d)
    BY <1>1, <1>3, <2>1, <2>2 DEF GoodConn, LenFits, ToldFits, Succeeds
  <2> QED
    BY <1>6, <2>3, OneSlotKeeps DEF d
<1>7. CASE UNCHANGED <<conn, lastport>>
  BY <1>7, NoSlotKeeps
<1> QED
  BY <1>2, <1>4, <1>5, <1>6, <1>7

LEMMA TimeWaitTyped ==
  ASSUME NEW c \in Connection
  PROVE  [c EXCEPT !.state = "TIME_WAIT", !.timer = 0] \in Connection
<1>1. 0 \in 0 .. 255
  OBVIOUS
<1> QED
  BY <1>1, ZenonT(30) DEF Connection, States

LEMMA RecvInFinWait2Keeps ==
  ASSUME IInv, NEW s \in Slots, NEW sg, RecvInFinWait2(s, sg)
  PROVE  GoodNext
<1> DEFINE d == [conn[s] EXCEPT !.state = "TIME_WAIT", !.timer = 0]
<1>1. /\ conn[s].state = "FIN_WAIT_2" /\ conn[s].told = "closing" /\ conn[s].len = 0
      /\ conn[s] \in Connection
  BY SlotFacts DEF RecvInFinWait2, GoodConn, ToldFits, LenFits
<1>2. PeerClosed(s, d, sg) \/ UNCHANGED <<conn, lastport>>
  BY DEF RecvInFinWait2
<1>3. CASE PeerClosed(s, d, sg)
  <2>1. d \in Connection
    BY <1>1, TimeWaitTyped
  <2>2. d.state = "TIME_WAIT" /\ d.len = 0 /\ d.told = "closing"
        /\ d.lport = conn[s].lport /\ d.peer = conn[s].peer
    BY <1>1 DEF Connection
  <2> HIDE DEF d
  <2> QED
    BY <1>1, <1>3, <2>1, <2>2, PeerClosedKeeps
<1>4. CASE UNCHANGED <<conn, lastport>>
  BY <1>4, NoSlotKeeps
<1> QED
  BY <1>2, <1>3, <1>4

LEMMA RecvInClosingKeeps ==
  ASSUME IInv, NEW s \in Slots, NEW sg, RecvInClosing(s, sg)
  PROVE  GoodNext
<1>1. /\ conn[s].state = "CLOSING" /\ conn[s].told = "ended" /\ conn[s] \in Connection
      /\ conn \in [Slots -> Connection]
  BY SlotFacts DEF RecvInClosing, GoodConn, ToldFits
<1>2. PICK c \in AfterAck(conn[s], sg) :
          conn' = [conn EXCEPT ![s] = IF Acked(conn[s], sg)
                                      THEN [c EXCEPT !.state = "TIME_WAIT", !.timer = 0]
                                      ELSE conn[s]]
  <2>1. PICK c \in AfterAck(conn[s], sg) :
          conn' = [conn EXCEPT ![s] = IF Acked(@, sg)
                                      THEN [c EXCEPT !.state = "TIME_WAIT", !.timer = 0] ELSE @]
    BY DEF RecvInClosing
  <2> QED
    BY <2>1
<1>3. lastport' = lastport
  BY DEF RecvInClosing
<1>4. CASE Acked(conn[s], sg)
  <2> DEFINE d == [c EXCEPT !.state = "TIME_WAIT", !.timer = 0]
  <2>1. /\ c \in Connection /\ c.told = "ended" /\ c.len = 0
        /\ c.lport = conn[s].lport /\ c.peer = conn[s].peer
    BY <1>1, <1>4, AfterAckFacts
  <2>2. d \in Connection
    BY <2>1, TimeWaitTyped
  <2>3. d.state = "TIME_WAIT" /\ d.len = 0 /\ d.told = "ended"
        /\ d.lport = conn[s].lport /\ d.peer = conn[s].peer
    BY <2>1 DEF Connection
  <2>4. conn' = [conn EXCEPT ![s] = d]
    BY <1>2, <1>4
  <2> HIDE DEF d
  <2>5. GoodConn(d) /\ Succeeds(conn[s], d)
    BY <1>1, <2>2, <2>3 DEF GoodConn, LenFits, ToldFits, Succeeds
  <2> QED
    BY <1>3, <2>4, <2>5, OneSlotKeeps
<1>5. CASE ~Acked(conn[s], sg)
  <2>1. conn' = conn
    BY <1>1, <1>2, <1>5
  <2> QED
    BY <1>3, <2>1, NoSlotKeeps
<1> QED
  BY <1>4, <1>5

LEMMA RecvKeeps ==
  ASSUME IInv, NEW s \in Slots, NEW sg, conn[s].state # "CLOSED", Recv(s, sg)
  PROVE  GoodNext
<1>1. CASE RecvReset(s, sg)
  BY <1>1, RecvResetKeeps
<1>2. CASE RecvOutOfSequence(s, sg)
  BY <1>2, NoSlotKeeps DEF RecvOutOfSequence
<1>3. CASE RecvInSynRcvd(s, sg)
  BY <1>3, RecvInSynRcvdKeeps
<1>4. CASE RecvInSynSent(s, sg)
  BY <1>4, RecvInSynSentKeeps
<1>5. CASE RecvFinInEstablished(s, sg)
  BY <1>5, RecvFinInEstablishedKeeps
<1>6. CASE RecvInEstablished(s, sg)
  BY <1>6, RecvInEstablishedKeeps
<1>7. CASE RecvInLastAck(s, sg)
  BY <1>7, RecvInLastAckKeeps
<1>8. CASE RecvInFinWait1(s, sg)
  BY <1>8, RecvInFinWait1Keeps
<1>9. CASE RecvInFinWait2(s, sg)
  BY <1>9, RecvInFinWait2Keeps
<1>10. CASE RecvInTimeWait(s, sg)
  BY <1>10, NoSlotKeeps DEF RecvInTimeWait
<1>11. CASE RecvInClosing(s, sg)
  BY <1>11, RecvInClosingKeeps
<1> QED
  BY <1>1, <1>2, <1>3, <1>4, <1>5, <1>6, <1>7, <1>8, <1>9, <1>10, <1>11 DEF Recv

LEMMA InputKeeps ==
  ASSUME IInv, NEW sg \in Segment, Input(sg)
  PROVE  GoodNext
<1>1. CASE RecvStray(sg)
  BY <1>1, NoSlotKeeps DEF RecvStray
<1>2. CASE RecvSyn(sg)
  BY <1>2, RecvSynKeeps
<1>3. CASE \E s \in Slots : Found(sg, s) /\ Recv(s, sg)
  BY <1>3, RecvKeeps DEF Found, Matches
<1> QED
  BY <1>1, <1>2, <1>3 DEF Input

-----------------------------------------------------------------------------
(* What a step sends                                                       *)

TakesSpace == {"SYN", "SYNACK", "FIN", "DATA"}

\* Connection c waits for the acknowledgement of a segment of this kind.
Awaits(c, kind) ==
    /\ Outstanding(c)
    /\ kind = "SYN"    => c.state = "SYN_SENT"
    /\ kind = "SYNACK" => c.state = "SYN_RCVD"
    /\ kind = "DATA"   => c.state = "ESTABLISHED"
    /\ kind = "FIN"    => c.state \in {"FIN_WAIT_1", "CLOSING", "LAST_ACK"}

SentIsAwaited ==
    out.kind \in TakesSpace => \E s \in Slots : Tuple(conn[s]) = out.to /\ Awaits(conn[s], out.kind)

LEMMA AwaitedIsOutstanding == SentIsAwaited => SentIsOutstanding
<1> SUFFICES ASSUME SentIsAwaited, out.kind \in TakesSpace PROVE SentIsOutstanding
  BY DEF SentIsOutstanding, TakesSpace
<1>1. PICK s \in Slots : Tuple(conn[s]) = out.to /\ Awaits(conn[s], out.kind)
  BY DEF SentIsAwaited
<1>2. CASE out.kind = "SYN"
  BY <1>1, <1>2 DEF SentIsOutstanding, Awaits
<1>3. CASE out.kind = "SYNACK"
  BY <1>1, <1>3 DEF SentIsOutstanding, Awaits
<1>4. CASE out.kind = "DATA"
  BY <1>1, <1>4 DEF SentIsOutstanding, Awaits
<1>5. CASE out.kind = "FIN"
  BY <1>1, <1>5 DEF SentIsOutstanding, Awaits
<1> QED
  BY <1>2, <1>3, <1>4, <1>5 DEF TakesSpace

LEMMA SendFacts ==
  ASSUME NEW kind, NEW c, NEW about
  PROVE  Send(kind, c, about).kind = kind /\ Send(kind, c, about).to = Tuple(c)
  BY DEF Send

\* The step sends nothing, or nothing that takes sequence space.
LEMMA QuietSends ==
  ASSUME \/ out' = NoSegment
         \/ \E kind \in {"ACK", "RST"} : \E c : \E about : out' = Send(kind, c, about)
  PROVE  SentIsAwaited'
<1>1. out'.kind \in {"none", "ACK", "RST"}
  BY SendFacts DEF NoSegment
<1> QED
  BY <1>1 DEF SentIsAwaited, TakesSpace

\* The step sends a segment of connection c, which slot s holds afterwards.
LEMMA SlotSends ==
  ASSUME NEW s \in Slots, NEW kind, NEW c, NEW about, out' = Send(kind, c, about),
         conn'[s].lport = c.lport, conn'[s].peer = c.peer, Awaits(conn'[s], kind)
  PROVE  SentIsAwaited'
<1>1. out'.kind = kind /\ out'.to = Tuple(c)
  BY SendFacts
<1>2. Tuple(conn'[s]) = out'.to
  BY <1>1 DEF Tuple
<1> QED
  BY <1>1, <1>2 DEF SentIsAwaited

\* The data or the FIN of the application's answer is outstanding when sent.
LEMMA AppSendAwaits ==
  ASSUME NEW c \in Connection, c.state = "ESTABLISHED", NEW f
  PROVE  /\ Awaits(AppSend(Flow(c, f), "close"), "FIN")
         /\ Awaits(AppSend(Flow(c, f), "send"), "DATA")
         /\ \A answer \in {"close", "send"} :
               /\ AppSend(Flow(c, f), answer).lport = c.lport
               /\ AppSend(Flow(c, f), answer).peer = c.peer
<1> DEFINE d == Flow(c, f)
           l == IF d.len = 0 THEN UIP_TCP_MSS ELSE d.len
           e == [d EXCEPT !.state = "FIN_WAIT_1", !.stopped = FALSE,
                          !.len = 1, !.nrtx = 0, !.told = "closing"]
           g == [d EXCEPT !.len = l, !.nrtx = 0]
<1>1. d \in Connection /\ d.state = "ESTABLISHED" /\ d.lport = c.lport /\ d.peer = c.peer
  BY FlowFacts
<1> HIDE DEF d
<1>2. AppSend(d, "close") = e /\ AppSend(d, "send") = g
  BY DEF AppSend
<1>3. l > 0
  BY <1>1, PortAssumption DEF Connection
<1> HIDE DEF l
<1>4. /\ e.state = "FIN_WAIT_1" /\ e.len = 1 /\ e.lport = c.lport /\ e.peer = c.peer
      /\ g.state = "ESTABLISHED" /\ g.len = l /\ g.lport = c.lport /\ g.peer = c.peer
  BY <1>1 DEF Connection
<1> HIDE DEF e, g
<1>5. Awaits(e, "FIN") /\ Awaits(g, "DATA")
  BY <1>3, <1>4 DEF Awaits, Outstanding
<1> QED
  BY <1>2, <1>4, <1>5 DEF d

LEMMA AppTurnSends ==
  ASSUME IInv, NEW s \in Slots, NEW c \in Connection, NEW newdata,
         c.state = "ESTABLISHED", Succeeds(conn[s], c), AppTurn(s, c, newdata)
  PROVE  SentIsAwaited'
<1> DEFINE t == [conn EXCEPT ![s] = c]
<1>1. PICK answer \in Answers, f \in Flows(c), k \in AfterCall(t) :
         /\ conn' = [k.conn EXCEPT ![s] = AppSend(Flow(@, f), answer)]
         /\ out' = AppSegment(c, answer, newdata \/ f = "restart")
  BY DEF AppTurn
<1>2. HalfWay(t, s) /\ t[s] = c
  BY BeginStep DEF IInv, GoodTable
<1> HIDE DEF t
<1>3. k.conn \in [Slots -> Connection] /\ k.conn[s] = c
  BY <1>2, CallKeepsTable DEF IInv, HalfWay
<1>4. conn'[s] = AppSend(Flow(c, f), answer)
  BY <1>1, <1>3
<1>5. CASE answer = "close"
  <2>1. out' = Send("FIN", c, c)
    BY <1>1, <1>5 DEF AppSegment
  <2> QED
    BY <1>4, <1>5, <2>1, AppSendAwaits, SlotSends
<1>6. CASE answer = "send"
  <2>1. out' = Send("DATA", c, c)
    BY <1>1, <1>6 DEF AppSegment
  <2> QED
    BY <1>4, <1>6, <2>1, AppSendAwaits, SlotSends
<1>7. CASE answer = "abort"
  <2>1. out' = Send("RST", c, c)
    BY <1>1, <1>7 DEF AppSegment
  <2> QED
    BY <2>1, QuietSends
<1>8. CASE answer = "idle"
  <2>1. out' = NoSegment \/ out' = Send("ACK", c, c)
    BY <1>1, <1>8, Zenon DEF AppSegment
  <2> QED
    BY <2>1, QuietSends
<1> QED
  BY <1>5, <1>6, <1>7, <1>8 DEF Answers

LEMMA PollSends ==
  ASSUME IInv, NEW s \in Slots, Idle(conn[s]), AppTurn(s, Tell(conn[s], "DATA"), FALSE)
  PROVE  SentIsAwaited'
<1> DEFINE c == Tell(conn[s], "DATA")
<1>1. conn[s].state = "ESTABLISHED"
  BY DEF Idle
<1>2. c \in Connection /\ c.state = "ESTABLISHED" /\ Succeeds(conn[s], c)
  BY <1>1, SlotFacts, TellFacts DEF Succeeds
<1> QED
  BY <1>2, AppTurnSends

\* A segment the stack sends again is still outstanding.
LEMMA TickRetransmitSends ==
  ASSUME IInv, NEW s \in Slots, TickRetransmit(s)
  PROVE  SentIsAwaited'
<1> DEFINE c == conn[s]
<1>1. /\ TimesOut(c) /\ c.state \in DOMAIN ControlKind
      /\ out' = Send(ControlKind[c.state], c, c)
      /\ conn'[s] = Retried(c)
  BY SlotFacts DEF TickRetransmit
<1>2. /\ Retried(c).state = c.state /\ Retried(c).len = c.len
      /\ Retried(c).lport = c.lport /\ Retried(c).peer = c.peer
  BY SlotFacts DEF Connection, Retried
<1>3. Outstanding(Retried(c))
  BY <1>1, <1>2 DEF TimesOut, Retransmits, Outstanding
<1>4. Awaits(Retried(c), ControlKind[c.state])
  BY <1>1, <1>2, <1>3 DEF Awaits, ControlKind
<1> QED
  BY <1>1, <1>2, <1>4, SlotSends

LEMMA TickAppRetransmitSends ==
  ASSUME IInv, NEW s \in Slots, TickAppRetransmit(s)
  PROVE  SentIsAwaited'
<1> DEFINE d == Tell(Retried(conn[s]), "DATA")
           t == [conn EXCEPT ![s] = d]
<1>1. TimesOut(conn[s]) /\ conn[s].state = "ESTABLISHED"
  BY DEF TickAppRetransmit
<1>2. PICK f \in Flows(conn[s]), k \in AfterCall(t) :
         /\ conn' = [k.conn EXCEPT ![s] = Flow(@, f)]
         /\ \/ out' = Send("DATA", conn[s], conn[s])
            \/ out' = Send("ACK", conn[s], conn[s])
            \/ out' = NoSegment
  BY Zenon DEF TickAppRetransmit
<1>3. /\ Retried(conn[s]) \in Connection /\ Retried(conn[s]).state = conn[s].state
      /\ Retried(conn[s]).lport = conn[s].lport /\ Retried(conn[s]).peer = conn[s].peer
  BY <1>1, RetriedFacts
<1>4. Retried(conn[s]).len = conn[s].len
  BY SlotFacts DEF Connection, Retried
<1>5. /\ d \in Connection /\ d.state = "ESTABLISHED" /\ d.len = conn[s].len
      /\ d.lport = conn[s].lport /\ d.peer = conn[s].peer
  BY <1>1, <1>3, <1>4, TellFacts
<1> HIDE DEF d
<1>6. HalfWay(t, s) /\ t[s] = d
  BY <1>1, <1>5, BeginStep DEF IInv, GoodTable, Succeeds
<1> HIDE DEF t
<1>7. k.conn \in [Slots -> Connection] /\ k.conn[s] = d
  BY <1>5, <1>6, CallKeepsTable DEF IInv, HalfWay
<1>8. conn'[s] = Flow(d, f)
  BY <1>2, <1>7
<1>9. /\ Flow(d, f).state = "ESTABLISHED" /\ Flow(d, f).len = conn[s].len
      /\ Flow(d, f).lport = conn[s].lport /\ Flow(d, f).peer = conn[s].peer
  BY <1>5, FlowFacts
<1>10. Awaits(Flow(d, f), "DATA")
  BY <1>1, <1>9 DEF Awaits, TimesOut, Retransmits, Outstanding
<1> QED
  BY <1>2, <1>8, <1>9, <1>10, SlotSends, QuietSends

LEMMA PeriodicSends ==
  ASSUME IInv, NEW s \in Slots, Periodic(s)
  PROVE  SentIsAwaited'
<1>1. CASE TickWait(s) \/ TickCountDown(s)
  BY <1>1, QuietSends DEF TickWait, TickCountDown
<1>2. CASE TickGiveUp(s)
  <2>1. \E c : \E about : out' = Send("RST", c, about)
    BY <1>2 DEF TickGiveUp
  <2> QED
    BY <2>1, QuietSends
<1>3. CASE TickRetransmit(s)
  BY <1>3, TickRetransmitSends
<1>4. CASE TickAppRetransmit(s)
  BY <1>4, TickAppRetransmitSends
<1>5. CASE TickPoll(s)
  BY <1>5, PollSends DEF TickPoll
<1> QED
  BY <1>1, <1>2, <1>3, <1>4, <1>5 DEF Periodic

\* A SYN is outstanding for as long as its connection waits in SYN_SENT.
LEMMA PollRequestSends ==
  ASSUME IInv, NEW s \in Slots, PollRequest(s)
  PROVE  SentIsAwaited'
<1>1. CASE Idle(conn[s]) /\ AppTurn(s, Tell(conn[s], "DATA"), FALSE)
  BY <1>1, PollSends
<1>2. CASE /\ conn[s].state = "SYN_SENT"
           /\ out' = Send("SYN", conn[s], conn[s])
           /\ UNCHANGED <<conn, lastport>>
  <2>1. conn'[s] = conn[s] /\ Awaits(conn[s], "SYN")
    BY <1>2, SlotFacts DEF Awaits, Outstanding, GoodConn, LenFits
  <2> QED
    BY <1>2, <2>1, SlotSends
<1> QED
  BY <1>1, <1>2 DEF PollRequest

LEMMA RecvSynSends ==
  ASSUME IInv, NEW sg \in Segment, RecvSyn(sg)
  PROVE  SentIsAwaited'
<1> DEFINE c == SynRcvd(sg.lport, sg.peer)
<1>1. CASE out' = NoSegment
  BY <1>1, QuietSends
<1>2. CASE \E s \in SlotFor(conn) : conn' = Refill(conn, s, c) /\ out' = Send("SYNACK", sg, sg)
  <2>1. PICK s \in SlotFor(conn) : conn' = Refill(conn, s, c) /\ out' = Send("SYNACK", sg, sg)
    BY <1>2
  <2>2. s \in Slots
    BY DEF SlotFor
  <2>3. HalfWay(conn, s)
    BY <2>2, SlotFacts
  <2>4. GoodConn(c) /\ c.lport = sg.lport /\ c.peer = sg.peer /\ Awaits(c, "SYNACK")
    BY SynRcvdIsGood DEF Segment, SynRcvd, Awaits, Outstanding
  <2>5. \A u \in Slots : InUse(conn[u]) => conn[u].lport # c.lport \/ conn[u].peer # c.peer
    BY <2>4 DEF RecvSyn, Matches
  <2> HIDE DEF c
  <2>6. Refill(conn, s, c) = [conn EXCEPT ![s] = c]
    BY <2>2, <2>3, <2>4, <2>5, RefillKeepsTable
  <2>7. conn'[s] = c
    BY <2>1, <2>2, <2>6, SlotFacts
  <2> QED
    BY <2>1, <2>2, <2>4, <2>7, SlotSends
<1> QED
  BY <1>1, <1>2 DEF RecvSyn

LEMMA RecvInSynRcvdSends ==
  ASSUME IInv, NEW s \in Slots, NEW sg \in Segment, Matches(sg, s), RecvInSynRcvd(s, sg)
  PROVE  SentIsAwaited'
<1>1. CASE Acked(conn[s], sg)
  <2>1. PICK c \in AfterAck(conn[s], sg) : AppTurn(s, Opened(c), sg.data)
    BY <1>1 DEF RecvInSynRcvd
  <2>2. conn[s].state \in {"SYN_RCVD", "SYN_SENT"}
    BY DEF RecvInSynRcvd
  <2> QED
    BY <2>1, <2>2, OpenedFacts, AppTurnSends
<1>2. CASE ~Acked(conn[s], sg)
  <2>1. /\ conn[s].state = "SYN_RCVD" /\ conn' = conn
        /\ out' = Send("SYNACK", conn[s], sg) \/ out' = NoSegment
    BY <1>2 DEF RecvInSynRcvd
  <2>2. Awaits(conn[s], "SYNACK") /\ conn'[s] = conn[s]
    BY <2>1, SlotFacts DEF Awaits, Outstanding, GoodConn, LenFits
  <2> QED
    BY <2>1, <2>2, SlotSends, QuietSends
<1> QED
  BY <1>1, <1>2

LEMMA RecvInSynSentSends ==
  ASSUME IInv, NEW s \in Slots, NEW sg, RecvInSynSent(s, sg)
  PROVE  SentIsAwaited'
<1>1. conn[s].state \in {"SYN_SENT", "SYN_RCVD"}
  BY DEF RecvInSynSent
<1>2. CASE \E c \in AfterAck(conn[s], sg) : AppTurn(s, Opened(c), TRUE)
  BY <1>1, <1>2, OpenedFacts, AppTurnSends
<1>3. CASE out' = Reset(sg)
  BY <1>3, QuietSends DEF Reset
<1> QED
  BY <1>2, <1>3 DEF RecvInSynSent

LEMMA RecvFinInEstablishedSends ==
  ASSUME IInv, NEW s \in Slots, NEW sg, RecvFinInEstablished(s, sg)
  PROVE  SentIsAwaited'
<1>1. conn[s].state = "ESTABLISHED" /\ conn[s].told = "connected" /\ conn[s] \in Connection
  BY SlotFacts DEF RecvFinInEstablished, GoodConn, ToldFits
<1>2. CASE out' = NoSegment
  BY <1>2, QuietSends
<1>3. CASE \E c \in AfterAck(conn[s], sg) :
              /\ out' = Send("FIN", c, sg)
              /\ \E k \in AfterCall([conn EXCEPT ![s] = Tell(c, "END")]) :
                    conn' = [k.conn EXCEPT ![s].state = "LAST_ACK", ![s].len = 1, ![s].nrtx = 0]
  <2>1. PICK c \in AfterAck(conn[s], sg) :
              /\ out' = Send("FIN", c, sg)
              /\ \E k \in AfterCall([conn EXCEPT ![s] = Tell(c, "END")]) :
                    conn' = [k.conn EXCEPT ![s].state = "LAST_ACK", ![s].len = 1, ![s].nrtx = 0]
    BY <1>3
  <2> DEFINE d == Tell(c, "END")
             t == [conn EXCEPT ![s] = d]
             e == [d EXCEPT !.state = "LAST_ACK", !.len = 1, !.nrtx = 0]
  <2>2. PICK k \in AfterCall(t) :
              conn' = [k.conn EXCEPT ![s].state = "LAST_ACK", ![s].len = 1, ![s].nrtx = 0]
    BY <2>1
  <2>3. c.lport = conn[s].lport /\ c.peer = conn[s].peer
    BY <1>1, AfterAckFacts
  <2>4. /\ d \in Connection /\ d.state = "ESTABLISHED"
        /\ d.lport = c.lport /\ d.peer = c.peer
    BY <1>1, AfterAckFacts, TellFacts
  <2> HIDE DEF d
  <2>5. HalfWay(t, s) /\ t[s] = d
    BY <1>1, <2>3, <2>4, BeginStep DEF IInv, GoodTable, Succeeds
  <2> HIDE DEF t
  <2>6. k.conn \in [Slots -> Connection] /\ k.conn[s] = d
    BY <2>4, <2>5, CallKeepsTable DEF IInv, HalfWay
  <2>7. e.state = "LAST_ACK" /\ e.len = 1 /\ e.lport = d.lport /\ e.peer = d.peer
    BY <2>4 DEF Connection
  <2>8. conn'[s] = e
    BY <2>2, <2>6
  <2> HIDE DEF e
  <2>9. Awaits(e, "FIN")
    BY <2>7 DEF Awaits, Outstanding
  <2> QED
    BY <2>1, <2>4, <2>7, <2>8, <2>9, SlotSends
<1> QED
  BY <1>2, <1>3, Zenon DEF RecvFinInEstablished

LEMMA RecvInEstablishedSends ==
  ASSUME IInv, NEW s \in Slots, NEW sg, RecvInEstablished(s, sg)
  PROVE  SentIsAwaited'
<1>1. conn[s].state = "ESTABLISHED" /\ conn[s] \in Connection
  BY SlotFacts DEF RecvInEstablished
<1>2. CASE out' = NoSegment
  BY <1>2, QuietSends
<1>3. CASE \E c \in AfterAck(conn[s], sg) :
              AppTurn(s, Tell(c, "DATA"), sg.data /\ ~conn[s].stopped)
  <2>1. PICK c \in AfterAck(conn[s], sg) :
           AppTurn(s, Tell(c, "DATA"), sg.data /\ ~conn[s].stopped)
    BY <1>3
  <2>2. /\ Tell(c, "DATA") \in Connection
        /\ Tell(c, "DATA").state = "ESTABLISHED"
        /\ Succeeds(conn[s], Tell(c, "DATA"))
    BY <1>1, AfterAckFacts, TellFacts DEF Succeeds
  <2> QED
    BY <2>1, <2>2, AppTurnSends
<1> QED
  BY <1>2, <1>3 DEF RecvInEstablished

\* From FIN_WAIT_1 on a segment is answered by an ACK or not at all.
LEMMA ClosingStatesSend ==
  ASSUME NEW s \in Slots, NEW sg,
         \/ RecvInLastAck(s, sg) \/ RecvInFinWait1(s, sg) \/ RecvInFinWait2(s, sg)
         \/ RecvInTimeWait(s, sg) \/ RecvInClosing(s, sg)
  PROVE  SentIsAwaited'
<1>1. \/ out' = NoSegment
      \/ \E c : \E about : out' = Send("ACK", c, about)
  <2>1. CASE RecvInLastAck(s, sg)
    BY <2>1 DEF RecvInLastAck
  <2>2. CASE RecvInFinWait1(s, sg)
    BY <2>2, Zenon DEF RecvInFinWait1, PeerClosed, AckData
  <2>3. CASE RecvInFinWait2(s, sg)
    BY <2>3, Zenon DEF RecvInFinWait2, PeerClosed, AckData
  <2>4. CASE RecvInTimeWait(s, sg)
    BY <2>4 DEF RecvInTimeWait
  <2>5. CASE RecvInClosing(s, sg)
    BY <2>5 DEF RecvInClosing
  <2> QED
    BY <2>1, <2>2, <2>3, <2>4, <2>5
<1> QED
  BY <1>1, QuietSends

LEMMA InputSends ==
  ASSUME IInv, NEW sg \in Segment, Input(sg)
  PROVE  SentIsAwaited'
<1>1. CASE RecvStray(sg)
  BY <1>1, QuietSends DEF RecvStray, Reset
<1>2. CASE RecvSyn(sg)
  BY <1>2, RecvSynSends
<1>3. ASSUME NEW s \in Slots, Found(sg, s), Recv(s, sg)
      PROVE  SentIsAwaited'
  <2>1. CASE RecvReset(s, sg)
    BY <2>1, QuietSends DEF RecvReset
  <2>2. CASE RecvOutOfSequence(s, sg)
    BY <2>2, QuietSends DEF RecvOutOfSequence
  <2>3. CASE RecvInSynRcvd(s, sg)
    BY <1>3, <2>3, RecvInSynRcvdSends DEF Found
  <2>4. CASE RecvInSynSent(s, sg)
    BY <2>4, RecvInSynSentSends
  <2>5. CASE RecvFinInEstablished(s, sg)
    BY <2>5, RecvFinInEstablishedSends
  <2>6. CASE RecvInEstablished(s, sg)
    BY <2>6, RecvInEstablishedSends
  <2>7. CASE \/ RecvInLastAck(s, sg) \/ RecvInFinWait1(s, sg) \/ RecvInFinWait2(s, sg)
             \/ RecvInTimeWait(s, sg) \/ RecvInClosing(s, sg)
    BY <2>7, ClosingStatesSend
  <2> QED
    BY <1>3, <2>1, <2>2, <2>3, <2>4, <2>5, <2>6, <2>7 DEF Recv
<1> QED
  BY <1>1, <1>2, <1>3 DEF Input

-----------------------------------------------------------------------------
(* The specification                                                       *)

LEMMA InitGood == Init => IInv
<1> SUFFICES ASSUME Init PROVE IInv
  OBVIOUS
<1>1. \A s \in Slots : conn[s] = NoConnection
  BY DEF Init
<1>2. NoConnection \in Connection
  BY NoConnectionIsGood DEF GoodConn
<1>3. conn \in [Slots -> Connection]
  BY <1>2 DEF Init
<1>4. GoodTable(conn)
  BY <1>1, <1>3, NoConnectionIsGood DEF GoodTable, Distinct
<1>5. FirstPort \in LastPorts
  BY PortAssumption DEF LastPorts
<1> QED
  BY <1>4, <1>5 DEF Init, IInv

LEMMA ListenportsGood ==
  ASSUME IInv, Next
  PROVE  listenports' \in [1 .. UIP_LISTENPORTS -> ServerPorts \cup {NoPort}]
<1> DEFINE L == [1 .. UIP_LISTENPORTS -> ServerPorts \cup {NoPort}]
<1>1. listenports \in L
  BY DEF IInv
<1>2. ASSUME NEW p \in ServerPorts, Listen(p) \/ Unlisten(p)
      PROVE  listenports' \in L
  BY <1>1, <1>2 DEF Listen, Unlisten
<1>3. ASSUME UNCHANGED listenports
      PROVE  listenports' \in L
  BY <1>1, <1>3
<1> QED
  BY <1>2, <1>3 DEF Next, Connect, Periodic, PollRequest, Input

LEMMA StepGood == IInv /\ [Next]_vars => IInv'
<1> SUFFICES ASSUME IInv, [Next]_vars PROVE IInv'
  OBVIOUS
<1>1. CASE UNCHANGED vars
  BY <1>1 DEF vars, IInv, GoodTable, Distinct
<1>2. CASE Next
  <2>1. ASSUME NEW p \in ServerPorts, Listen(p) \/ Unlisten(p)
        PROVE  GoodNext
    BY <2>1, NoSlotKeeps DEF Listen, Unlisten
  <2>2. ASSUME NEW r \in Peers, Connect(r)
        PROVE  GoodNext
    BY <2>2, ConnectKeeps
  <2>3. ASSUME NEW s \in Slots, Periodic(s) \/ PollRequest(s)
        PROVE  GoodNext
    BY <2>3, PeriodicKeeps, PollRequestKeeps
  <2>4. ASSUME NEW sg \in Segment, Input(sg)
        PROVE  GoodNext
    BY <2>4, InputKeeps
  <2>5. GoodNext
    BY <1>2, <2>1, <2>2, <2>3, <2>4 DEF Next
  <2> QED
    BY <1>2, <2>5, ListenportsGood DEF GoodNext, IInv
<1> QED
  BY <1>1, <1>2

LEMMA IInvHolds == Spec => []IInv
<1> QED
  BY InitGood, StepGood, PTL DEF Spec

\* Type correctness for every size of the tables: no timer leaves its byte and
\* no retransmission counter its limit, whatever the peers and the application do.
THEOREM TypeCorrect == Spec => []TypeOK
<1>1. IInv => TypeOK
  BY DEF IInv, GoodTable, GoodConn, TypeOK
<1> QED
  BY <1>1, IInvHolds, PTL

\* The local port and the peer identify a connection in use: uip_process()
\* never has two connections to choose from for a segment.
THEOREM ConnectionsAreUnique == Spec => []UniqueConnections
<1>1. IInv => UniqueConnections
  BY DEF IInv, GoodTable, Distinct, UniqueConnections
<1> QED
  BY <1>1, IInvHolds, PTL

\* A SYN or a FIN that waits for its acknowledgement is the one byte the
\* retransmission timer works on, and a connection that only waits for its
\* peer has nothing outstanding.
THEOREM OutstandingIsRight == Spec => []OutstandingMatchesState
<1>1. IInv => OutstandingMatchesState
  BY DEF IInv, GoodTable, GoodConn, OutstandingMatchesState
<1> QED
  BY <1>1, IInvHolds, PTL

\* The events the application got from a slot always fit what the stack holds
\* there, although the application itself may refill slots inside a callback.
THEOREM AppIsToldRight == Spec => []AppKnowsState
<1>1. IInv => AppKnowsState
  BY DEF IInv, GoodTable, GoodConn, AppKnowsState
<1> QED
  BY <1>1, IInvHolds, PTL

LEMMA StepSends == IInv /\ SentIsAwaited /\ [Next]_vars => SentIsAwaited'
<1> SUFFICES ASSUME IInv, SentIsAwaited, [Next]_vars PROVE SentIsAwaited'
  OBVIOUS
<1>1. CASE UNCHANGED vars
  BY <1>1 DEF vars, SentIsAwaited
<1>2. ASSUME NEW p \in ServerPorts, Listen(p) \/ Unlisten(p)
      PROVE  SentIsAwaited'
  BY <1>2, QuietSends DEF Listen, Unlisten
<1>3. ASSUME NEW r \in Peers, Connect(r)
      PROVE  SentIsAwaited'
  BY <1>3, QuietSends DEF Connect
<1>4. ASSUME NEW s \in Slots, Periodic(s) \/ PollRequest(s)
      PROVE  SentIsAwaited'
  BY <1>4, PeriodicSends, PollRequestSends
<1>5. ASSUME NEW sg \in Segment, Input(sg)
      PROVE  SentIsAwaited'
  BY <1>5, InputSends
<1> QED
  BY <1>1, <1>2, <1>3, <1>4, <1>5 DEF Next

\* A SYN, a FIN or data is outstanding on its connection from the moment it is
\* sent, first or again, so that the timer sends it until it is acknowledged;
\* a callback that opens connections meanwhile cannot take the slot away.
THEOREM SentStaysOutstanding == Spec => []SentIsOutstanding
<1>1. Init => SentIsAwaited
  BY DEF Init, NoSegment, SentIsAwaited, TakesSpace
<1> QED
  BY <1>1, StepSends, IInvHolds, AwaitedIsOutstanding, PTL DEF Spec

=============================================================================
