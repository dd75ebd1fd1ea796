----------------------------- MODULE Node_proofs -----------------------------
(***************************************************************************)
(* The timers of poll() keep time, uip_udp_new() shares no port and only   *)
(* what a call built itself is sent: for every clock width, interval,      *)
(* number of connections and ports that NodeAssumption and ClockAssumption *)
(* allow.                                                                  *)
(***************************************************************************)
EXTENDS Node, TLAPS

\* The clock and a timer's start are as far apart, counted round the wrap, as
\* time has really passed; that distance never reaches the width of the clock.
LagIsTrue == \A t \in {"periodic", "arp"} : Minus(clock, timers[t].start) = lag[t]

\* No interval is longer than what poll() may fall behind.
IntervalsFit == \A t \in {"periodic", "arp"} : timers[t].interval <= MaxLag

Distinct(t) ==
    \A i, j \in UdpSlots :
        i # j /\ t[i].lport = t[j].lport /\ t[i].lport # NoPort => t[i].bound \/ t[j].bound

IInv == TypeOK /\ LagIsTrue /\ IntervalsFit /\ Distinct(udp)

-----------------------------------------------------------------------------
(* The clock                                                               *)

\* One tick moves a timer one tick further from the clock.
LEMMA TickCounts ==
    ASSUME NEW now \in Moments, NEW start \in Moments, Minus(now, start) < MaxLag
    PROVE  /\ Plus(now, 1) \in Moments
           /\ Minus(Plus(now, 1), start) = Minus(now, start) + 1
BY NodeAssumption, ClockAssumption, SMT DEF Moments, Minus, Plus

\* The next interval of a timer that is due starts that much closer.
LEMMA ResetCounts ==
    ASSUME NEW now \in Moments, NEW start \in Moments, NEW interval \in Moments,
           interval <= Minus(now, start)
    PROVE  /\ Plus(start, interval) \in Moments
           /\ Minus(now, Plus(start, interval)) = Minus(now, start) - interval
BY ClockAssumption, SMT DEF Moments, Minus, Plus

\* timer_expired() is the comparison it stands for.
LEMMA ExpiredIsLate ==
    ASSUME NEW now \in Moments, NEW t \in Timers, Minus(now, t.start) <= MaxLag
    PROVE  TimerExpired(t, now) <=> Minus(now, t.start) >= t.interval
<1>1. t.start \in Moments /\ t.interval \in Moments
  BY DEF Timers
<1>2. Minus(now, t.start) \in Int
  BY <1>1, ClockAssumption, SMT DEF Moments, Minus
<1>3. Plus(Minus(now, t.start), 1) = Minus(now, t.start) + 1
  BY <1>2, NodeAssumption, ClockAssumption, SMT DEF Plus
<1> QED
  BY <1>1, <1>2, <1>3, ClockAssumption, SMT DEF TimerExpired, Moments

-----------------------------------------------------------------------------
(* UDP connections                                                         *)

\* The search for a port stays in the range of lastport.
LEMMA PortInRange ==
    ASSUME NEW p \in StartPort .. LastPort, NEW k \in 1 .. UIP_UDP_CONNS + 1
    PROVE  PortAfter(p, k) \in StartPort .. LastPort
BY NodeAssumption, SMT DEF PortAfter

\* A connection that is bound, or has a port nobody has or none, keeps the ports
\* distinct.
LEMMA NewIsDistinct ==
    ASSUME NEW t \in [UdpSlots -> UdpConn], Distinct(t), NEW i \in UdpSlots,
           NEW c \in UdpConn, c.bound \/ c.lport = NoPort \/ ~PortUsed(t, c.lport)
    PROVE  /\ [t EXCEPT ![i] = c] \in [UdpSlots -> UdpConn]
           /\ Distinct([t EXCEPT ![i] = c])
<1> DEFINE u == [t EXCEPT ![i] = c]
<1>1. u \in [UdpSlots -> UdpConn]
  OBVIOUS
<1>2. ASSUME NEW j \in UdpSlots, NEW k \in UdpSlots, j # k, u[j].lport = u[k].lport,
             u[j].lport # NoPort
      PROVE  u[j].bound \/ u[k].bound
  <2>1. CASE j = i
    BY <1>2, <2>1 DEF PortUsed
  <2>2. CASE k = i
    BY <1>2, <2>2 DEF PortUsed
  <2>3. CASE j # i /\ k # i
    BY <1>2, <2>3 DEF Distinct
  <2> QED
    BY <2>1, <2>2, <2>3
<1> QED
  BY <1>1, <1>2 DEF Distinct

\* Closing a connection does, too.
LEMMA RemovedIsDistinct ==
    ASSUME NEW t \in [UdpSlots -> UdpConn], Distinct(t), NEW i \in UdpSlots
    PROVE  UdpRemove(t, i) \in [UdpSlots -> UdpConn] /\ Distinct(UdpRemove(t, i))
<1>1. Unused \in UdpConn /\ Unused.lport = NoPort
  BY DEF Unused, UdpConn
<1> QED
  BY <1>1, NewIsDistinct DEF UdpRemove

\* And so does binding one.
LEMMA BoundIsDistinct ==
    ASSUME NEW t \in [UdpSlots -> UdpConn], Distinct(t), NEW i \in UdpSlots, NEW port \in Ports
    PROVE  UdpBind(t, i, port) \in [UdpSlots -> UdpConn] /\ Distinct(UdpBind(t, i, port))
<1> DEFINE c == [t[i] EXCEPT !.lport = port, !.bound = TRUE]
<1>1. t[i] \in UdpConn
  OBVIOUS
<1>2. c \in UdpConn /\ c.bound
  BY <1>1 DEF UdpConn
<1>3. UdpBind(t, i, port) = [t EXCEPT ![i] = c]
  BY DEF UdpBind
<1> HIDE DEF c
<1>4. [t EXCEPT ![i] = c] \in [UdpSlots -> UdpConn] /\ Distinct([t EXCEPT ![i] = c])
  BY <1>2, NewIsDistinct
<1> QED
  BY <1>3, <1>4

\* A new connection, and that of the DHCP client, in any table.
LEMMA OpenedKeeps ==
    ASSUME NEW t \in [UdpSlots -> UdpConn], Distinct(t), NEW p \in Ports, NEW c \in UdpConn,
           c.bound \/ c.lport = p,
           lastport \in StartPort .. LastPort, Opened(t, p, c)
    PROVE  /\ udp' \in [UdpSlots -> UdpConn] /\ Distinct(udp')
           /\ lastport' \in StartPort .. LastPort
<1>1. /\ lastport' = p
      /\ udp' = t \/ \E i \in UdpSlots : udp' = [t EXCEPT ![i] = c]
  BY DEF Opened
<1>2. p \in StartPort .. LastPort /\ ~PortUsed(t, p)
  BY PortInRange DEF Opened, NewPort
<1>3. ASSUME NEW i \in UdpSlots, udp' = [t EXCEPT ![i] = c]
      PROVE  udp' \in [UdpSlots -> UdpConn] /\ Distinct(udp')
  BY <1>2, <1>3, NewIsDistinct
<1> QED
  BY <1>1, <1>2, <1>3

LEMMA UdpNewKeeps ==
    ASSUME NEW t \in [UdpSlots -> UdpConn], Distinct(t), NEW peer \in Peers,
           lastport \in StartPort .. LastPort, UdpNew(t, peer)
    PROVE  /\ udp' \in [UdpSlots -> UdpConn] /\ Distinct(udp')
           /\ lastport' \in StartPort .. LastPort
<1> DEFINE Conn(p) == [lport |-> p, peer |-> peer, bound |-> FALSE]
<1>1. PICK p \in Ports : Opened(t, p, Conn(p))
  BY DEF UdpNew
<1>2. Conn(p) \in UdpConn /\ Conn(p).lport = p
  BY DEF UdpConn
<1> HIDE DEF Conn
<1> QED
  BY <1>1, <1>2, OpenedKeeps

LEMMA DhcpInitKeeps ==
    ASSUME NEW t \in [UdpSlots -> UdpConn], Distinct(t),
           lastport \in StartPort .. LastPort, DhcpInit(t)
    PROVE  /\ udp' \in [UdpSlots -> UdpConn] /\ Distinct(udp')
           /\ lastport' \in StartPort .. LastPort
<1>1. PICK p \in Ports : Opened(t, p, DhcpConn)
  BY DEF DhcpInit
<1>2. DhcpConn \in UdpConn /\ DhcpConn.bound
  BY DEF DhcpConn, UdpConn, Ports
<1> QED
  BY <1>1, <1>2, OpenedKeeps

\* Whatever the program does with the connections, inside a callback or not.
LEMMA UsesKeeps ==
    ASSUME udp \in [UdpSlots -> UdpConn], Distinct(udp),
           lastport \in StartPort .. LastPort, Uses(udp)
    PROVE  /\ udp' \in [UdpSlots -> UdpConn] /\ Distinct(udp')
           /\ lastport' \in StartPort .. LastPort
<1>1. CASE udp' = udp /\ UNCHANGED lastport
  BY <1>1
<1>2. CASE \E peer \in Peers : UdpNew(udp, peer)
  BY <1>2, UdpNewKeeps
<1>3. CASE DhcpInit(udp)
  BY <1>3, DhcpInitKeeps
<1>4. ASSUME NEW i \in UdpSlots, udp' = UdpRemove(udp, i), UNCHANGED lastport
      PROVE  /\ udp' \in [UdpSlots -> UdpConn] /\ Distinct(udp')
             /\ lastport' \in StartPort .. LastPort
  BY <1>4, RemovedIsDistinct
<1>5. ASSUME NEW i \in UdpSlots, NEW peer \in Peers, UdpNew(UdpRemove(udp, i), peer)
      PROVE  /\ udp' \in [UdpSlots -> UdpConn] /\ Distinct(udp')
             /\ lastport' \in StartPort .. LastPort
  BY <1>5, RemovedIsDistinct, UdpNewKeeps
<1>7. ASSUME NEW i \in UdpSlots, NEW port \in Ports, udp' = UdpBind(udp, i, port), UNCHANGED lastport
      PROVE  /\ udp' \in [UdpSlots -> UdpConn] /\ Distinct(udp')
             /\ lastport' \in StartPort .. LastPort
  BY <1>7, BoundIsDistinct
<1>6. CASE udp' = udp /\ lastport' \in StartPort .. LastPort
  BY <1>6
<1> QED
  BY <1>1, <1>2, <1>3, <1>4, <1>5, <1>6, <1>7 DEF Uses

-----------------------------------------------------------------------------
(* Steps                                                                   *)

\* What is said of the lengths and of what poll() sends when a call is over.
OwnOut(len, slen, o) ==
    /\ len \in Lengths /\ slen \in Lengths /\ o \in Packet \cup {NoPacket}
    /\ o # NoPacket => o.packet = "built" /\ o.data # "left"

\* uip_process() may end in drop or with headers whatever uip_slen is.
LEMMA EndsAreOwn ==
    ASSUME NEW slen \in {"none", "left", "queued"}, Drop(slen) \/ SendHeader(slen)
    PROVE  OwnOut(uip_len', uip_slen', out')
BY DEF Drop, SendHeader, Return, Kept, OwnOut, Lengths, Packet, NoPacket

\* It sends data only where uip_slen was cleared before the callback.
LEMMA DataIsOwn ==
    ASSUME NEW slen \in Callback("none"), AppSend(slen) \/ SendData("queued")
    PROVE  OwnOut(uip_len', uip_slen', out')
<1>1. slen = "none" \/ slen = "queued"
  BY DEF Callback
<1>2. CASE SendData("queued")
  BY <1>2 DEF SendData, Return, Kept, OwnOut, Lengths, Packet, NoPacket
<1>3. CASE AppSend(slen)
  BY <1>1, <1>2, <1>3, EndsAreOwn DEF AppSend
<1> QED
  BY <1>2, <1>3

\* What a segment, the periodic call of a connection and a datagram leave.
LEMMA TcpIsOwn ==
    ASSUME uip_slen \in Lengths, TcpInput \/ TcpTimer
    PROVE  /\ OwnOut(uip_len', uip_slen', out')
           /\ AppCall \/ UNCHANGED <<udp, lastport, configured>>
<1>1. uip_slen \in {"none", "left", "queued"}
  BY DEF Lengths
<1>2. \A s \in Callback(uip_slen) \cup Callback("none") : s \in {"none", "left", "queued"}
  BY DEF Callback, Lengths
<1>3. AppCall \/ UNCHANGED <<udp, lastport, configured>>
  BY DEF TcpInput, TcpTimer
<1>4. \/ \E s \in {"none", "left", "queued"} : Drop(s) \/ SendHeader(s)
      \/ \E s \in Callback("none") : AppSend(s)
  BY <1>1, <1>2 DEF TcpInput, TcpTimer
<1> QED
  BY <1>3, <1>4, EndsAreOwn, DataIsOwn

LEMMA UdpIsOwn ==
    ASSUME NEW i \in UdpSlots, UdpCall(i)
    PROVE  OwnOut(uip_len', uip_slen', out') /\ UdpAppCall(i)
<1>1. PICK slen \in Callback("none") : IF slen = "none" THEN Drop(slen) ELSE SendData(slen)
  BY DEF UdpCall
<1>2. slen = "none" \/ slen = "queued"
  BY DEF Callback
<1>3. Drop(slen) \/ (slen = "queued" /\ SendData("queued"))
  BY <1>1, <1>2
<1>4. OwnOut(uip_len', uip_slen', out')
  BY <1>2, <1>3, EndsAreOwn, DataIsOwn
<1> QED
  BY <1>4 DEF UdpCall

\* A frame is handled: whichever way it goes, the application may be called.
LEMMA FrameKeeps ==
    ASSUME udp \in [UdpSlots -> UdpConn], Distinct(udp), uip_slen \in Lengths,
           lastport \in StartPort .. LastPort, configured \in BOOLEAN,
           NEW f \in Frame, FrameIp(f) \/ FrameArp(f) \/ FrameOther(f)
    PROVE  /\ udp' \in [UdpSlots -> UdpConn] /\ Distinct(udp')
           /\ lastport' \in StartPort .. LastPort /\ configured' \in BOOLEAN
           /\ OwnOut(uip_len', uip_slen', out')
<1>1. uip_slen \in {"none", "left", "queued"}
  BY DEF Lengths
<1>2. CASE FrameOther(f)
  <2>1. OwnOut(uip_len', uip_slen', out')
    BY <1>2 DEF FrameOther, OwnOut, Lengths
  <2> QED
    BY <1>2, <2>1 DEF FrameOther
<1>3. CASE FrameArp(f)
  <2>1. OwnOut(uip_len', uip_slen', out')
    BY <1>1, <1>3, EndsAreOwn DEF FrameArp
  <2> QED
    BY <1>3, <2>1 DEF FrameArp
<1>4. CASE FrameIp(f)
  <2>1. \/ /\ Drop(uip_slen) \/ SendHeader(uip_slen)
           /\ UNCHANGED <<udp, lastport, configured>>
        \/ TcpInput
        \/ \E i \in UdpSlots : UdpCall(i)
    BY <1>4 DEF FrameIp
  <2>2. OwnOut(uip_len', uip_slen', out')
    BY <1>1, <2>1, EndsAreOwn, TcpIsOwn, UdpIsOwn
  <2>3. UNCHANGED <<udp, lastport, configured>> \/ (Uses(udp) /\ configured' \in {configured, TRUE})
    BY <2>1, TcpIsOwn, UdpIsOwn DEF AppCall, UdpAppCall
  <2> QED
    BY <2>2, <2>3, UsesKeeps
<1> QED
  BY <1>2, <1>3, <1>4

\* The application, called for a TCP connection or for UDP connection i.
LEMMA AppKeeps ==
    ASSUME udp \in [UdpSlots -> UdpConn], Distinct(udp),
           lastport \in StartPort .. LastPort, configured \in BOOLEAN,
           AppCall \/ \E i \in UdpSlots : UdpAppCall(i)
    PROVE  /\ udp' \in [UdpSlots -> UdpConn] /\ Distinct(udp')
           /\ lastport' \in StartPort .. LastPort /\ configured' \in BOOLEAN
BY UsesKeeps DEF AppCall, UdpAppCall

\* timer_reset() of a timer that has expired.
LEMMA ResetKeeps ==
    ASSUME IInv, NEW t \in {"periodic", "arp"}, TimerExpired(timers[t], clock), ResetTimer(t),
           clock' = clock
    PROVE  /\ timers' \in [{"periodic", "arp"} -> Timers]
           /\ lag' \in [{"periodic", "arp"} -> 0 .. MaxLag]
           /\ LagIsTrue' /\ IntervalsFit'
<1> DEFINE T == timers[t]
           N == [start |-> Plus(T.start, T.interval), interval |-> T.interval]
           L == lag[t] - T.interval
<1>1. /\ clock \in Moments /\ T \in Timers /\ T.start \in Moments /\ T.interval \in Moments
      /\ lag[t] \in 0 .. MaxLag /\ Minus(clock, T.start) = lag[t]
  BY DEF IInv, TypeOK, LagIsTrue, Timers
<1>2. T.interval <= Minus(clock, T.start)
  BY <1>1, ExpiredIsLate, NodeAssumption, SMT DEF Moments
<1>3. /\ N \in Timers /\ N.interval = T.interval
      /\ Minus(clock, N.start) = L
  BY <1>1, <1>2, ResetCounts DEF Timers
<1>4. L \in 0 .. MaxLag
  BY <1>1, <1>2, NodeAssumption, SMT DEF Moments
<1>5. T = [start |-> T.start, interval |-> T.interval]
  BY <1>1 DEF Timers
<1>6. [T EXCEPT !.start = Plus(T.start, T.interval)] = N
  BY <1>5
<1>7. timers' = [timers EXCEPT ![t] = N] /\ lag' = [lag EXCEPT ![t] = L]
  BY <1>6 DEF ResetTimer, TimerReset, IInv, TypeOK
<1> HIDE DEF N, L
<1>8. /\ timers' \in [{"periodic", "arp"} -> Timers] /\ timers'[t] = N
      /\ lag' \in [{"periodic", "arp"} -> 0 .. MaxLag] /\ lag'[t] = L
      /\ \A u \in {"periodic", "arp"} : u # t => timers'[u] = timers[u] /\ lag'[u] = lag[u]
  BY <1>3, <1>4, <1>7 DEF IInv, TypeOK
<1>9. LagIsTrue'
  BY <1>3, <1>8 DEF LagIsTrue, IInv
<1>10. IntervalsFit'
  BY <1>3, <1>8 DEF IntervalsFit, IInv
<1> QED
  BY <1>8, <1>9, <1>10

-----------------------------------------------------------------------------
(* The invariant                                                           *)

LEMMA InitGood == Init => IInv
<1> SUFFICES ASSUME Init PROVE IInv
  OBVIOUS
<1>1. /\ PERIODIC \in Moments /\ ARP_PERIOD \in Moments
      /\ clock \in Moments /\ Minus(clock, clock) = 0
  BY NodeAssumption, ClockAssumption, SMT DEF Init, Moments, Minus
<1>2. /\ timers \in [{"periodic", "arp"} -> Timers]
      /\ timers["periodic"].start = clock /\ timers["arp"].start = clock
      /\ timers["periodic"].interval = PERIODIC /\ timers["arp"].interval = ARP_PERIOD
  BY <1>1 DEF Init, TimerSet, Timers
<1>3. /\ lag \in [{"periodic", "arp"} -> 0 .. MaxLag]
      /\ lag["periodic"] = 0 /\ lag["arp"] = 0
  BY NodeAssumption, SMT DEF Init
<1>4. /\ udp \in [UdpSlots -> UdpConn] /\ lastport \in StartPort .. LastPort
      /\ Distinct(udp)
  <2>1. Unused \in UdpConn /\ Unused.lport = NoPort
    BY DEF Unused, UdpConn
  <2>2. DhcpConn \in UdpConn
    BY DEF DhcpConn, UdpConn, Ports
  <2>3. StartPort \in StartPort .. LastPort /\ StartPort + 1 \in StartPort .. LastPort
    BY NodeAssumption, SMT
  <2>4. CASE InitConfigured
    BY <2>1, <2>3, <2>4 DEF InitConfigured, Distinct
  <2>5. CASE InitDhcp
    BY <2>1, <2>2, <2>3, <2>5 DEF InitDhcp, Distinct
  <2> QED
    BY <2>4, <2>5 DEF Init
<1>5. 0 \in 0 .. ArpVisit
  BY NodeAssumption, SMT DEF ArpVisit
<1>6. TypeOK
  BY <1>1, <1>2, <1>3, <1>4, <1>5 DEF Init, InitConfigured, InitDhcp, Lengths, TypeOK
<1>7. LagIsTrue
  BY <1>1, <1>2, <1>3 DEF LagIsTrue
<1>8. IntervalsFit
  BY <1>2, NodeAssumption DEF IntervalsFit
<1> QED
  BY <1>4, <1>6, <1>7, <1>8 DEF IInv

\* A step that leaves the clock and the timers alone keeps what is said of them.
LEMMA TimersStay ==
    ASSUME IInv, UNCHANGED <<clock, timers, lag>>
    PROVE  /\ clock' \in Moments /\ timers' \in [{"periodic", "arp"} -> Timers]
           /\ lag' \in [{"periodic", "arp"} -> 0 .. MaxLag] /\ LagIsTrue' /\ IntervalsFit'
BY DEF IInv, TypeOK, LagIsTrue, IntervalsFit

\* What each step sends is its own; and the invariant is kept.
LEMMA StepGood ==
    ASSUME IInv, Next
    PROVE  IInv' /\ OwnOut(uip_len', uip_slen', out')
<1> USE DEF IInv
<1>0. TypeOK /\ 0 \in 0 .. ArpVisit /\ 1 \in 0 .. ArpVisit
  BY NodeAssumption, SMT DEF ArpVisit
<1>1. CASE PollFrame
  <2>1. /\ pos = 0 /\ waiting' = FALSE /\ UNCHANGED <<clock, timers, lag, pos>>
        /\ \E f \in Frame : FrameIp(f) \/ FrameArp(f) \/ FrameOther(f)
    BY <1>1 DEF PollFrame
  <2>2. /\ udp' \in [UdpSlots -> UdpConn] /\ Distinct(udp')
        /\ lastport' \in StartPort .. LastPort /\ configured' \in BOOLEAN
        /\ OwnOut(uip_len', uip_slen', out')
    BY <1>0, <2>1, FrameKeeps DEF TypeOK
  <2>3. /\ clock' \in Moments /\ timers' \in [{"periodic", "arp"} -> Timers]
        /\ lag' \in [{"periodic", "arp"} -> 0 .. MaxLag] /\ LagIsTrue' /\ IntervalsFit'
    BY <2>1, TimersStay
  <2> QED
    BY <1>0, <2>1, <2>2, <2>3 DEF TypeOK, OwnOut
<1>2. CASE PollNothing
  <2>1. /\ clock' \in Moments /\ timers' \in [{"periodic", "arp"} -> Timers]
        /\ lag' \in [{"periodic", "arp"} -> 0 .. MaxLag] /\ LagIsTrue' /\ IntervalsFit'
    BY <1>2, TimersStay DEF PollNothing
  <2> QED
    BY <1>0, <1>2, <2>1 DEF PollNothing, TypeOK, Distinct, OwnOut, Lengths
<1>3. CASE PollTimer
  <2>1. /\ timers' \in [{"periodic", "arp"} -> Timers]
        /\ lag' \in [{"periodic", "arp"} -> 0 .. MaxLag] /\ LagIsTrue' /\ IntervalsFit'
    BY <1>3, ResetKeeps DEF PollTimer
  <2> QED
    BY <1>0, <1>3, <2>1 DEF PollTimer, TypeOK, Distinct, OwnOut, Lengths
<1>4. CASE VisitTcp /\ UNCHANGED <<clock, waiting>>
  <2>2. OwnOut(uip_len', uip_slen', out') /\ (AppCall \/ UNCHANGED <<udp, lastport, configured>>)
    BY <1>0, <1>4, TcpIsOwn DEF VisitTcp, TypeOK
  <2>1. /\ udp' \in [UdpSlots -> UdpConn] /\ Distinct(udp')
        /\ lastport' \in StartPort .. LastPort /\ configured' \in BOOLEAN
    BY <1>0, <2>2, AppKeeps DEF TypeOK
  <2>3. pos' \in 0 .. ArpVisit
    BY <1>4, NodeAssumption, SMT DEF VisitTcp, TcpSlots, ArpVisit
  <2>4. /\ clock' \in Moments /\ timers' \in [{"periodic", "arp"} -> Timers]
        /\ lag' \in [{"periodic", "arp"} -> 0 .. MaxLag] /\ LagIsTrue' /\ IntervalsFit'
    BY <1>4, TimersStay DEF VisitTcp
  <2> QED
    BY <1>0, <1>4, <2>1, <2>2, <2>3, <2>4 DEF TypeOK, OwnOut
<1>5. CASE VisitUdp /\ UNCHANGED <<clock, waiting>>
  <2>1. pos' \in 0 .. ArpVisit /\ pos - UIP_CONNS \in UdpSlots
    BY <1>5, NodeAssumption, SMT DEF VisitUdp, FirstUdp, UdpSlots, ArpVisit
  <2>2. /\ udp' \in [UdpSlots -> UdpConn] /\ Distinct(udp')
        /\ lastport' \in StartPort .. LastPort /\ configured' \in BOOLEAN
    <3>1. \/ UNCHANGED <<udp, lastport, configured>>
          \/ UdpAppCall(pos - UIP_CONNS)
      BY <1>5 DEF VisitUdp, UdpCall
    <3>2. CASE UNCHANGED <<udp, lastport, configured>>
      BY <1>0, <3>2 DEF TypeOK
    <3>3. CASE UdpAppCall(pos - UIP_CONNS)
      BY <1>0, <2>1, <3>3, AppKeeps DEF TypeOK
    <3> QED
      BY <3>1, <3>2, <3>3
  <2>3. OwnOut(uip_len', uip_slen', out')
    <3>1. uip_slen \in {"none", "left", "queued"}
      BY <1>0 DEF TypeOK, Lengths
    <3>2. Drop(uip_slen) \/ UdpCall(pos - UIP_CONNS)
      BY <1>5 DEF VisitUdp
    <3> QED
      BY <2>1, <3>1, <3>2, EndsAreOwn, UdpIsOwn
  <2>4. /\ clock' \in Moments /\ timers' \in [{"periodic", "arp"} -> Timers]
        /\ lag' \in [{"periodic", "arp"} -> 0 .. MaxLag] /\ LagIsTrue' /\ IntervalsFit'
    BY <1>5, TimersStay DEF VisitUdp
  <2> QED
    BY <1>0, <1>5, <2>1, <2>2, <2>3, <2>4 DEF TypeOK, OwnOut
<1>6. CASE VisitArp /\ UNCHANGED <<clock, waiting>>
  <2>1. /\ clock' \in Moments /\ timers' \in [{"periodic", "arp"} -> Timers]
        /\ lag' \in [{"periodic", "arp"} -> 0 .. MaxLag] /\ LagIsTrue' /\ IntervalsFit'
    <3>1. CASE TimerExpired(timers["arp"], clock)
      BY <1>0, <1>6, <3>1, ResetKeeps DEF VisitArp, TypeOK
    <3>2. CASE ~TimerExpired(timers["arp"], clock)
      BY <1>6, <3>2, TimersStay DEF VisitArp
    <3> QED
      BY <3>1, <3>2
  <2> QED
    BY <1>0, <1>6, <2>1 DEF VisitArp, TypeOK, Distinct, OwnOut
<1>7. CASE Sketch
  <2>1. /\ udp' \in [UdpSlots -> UdpConn] /\ Distinct(udp')
        /\ lastport' \in StartPort .. LastPort
    BY <1>0, <1>7, UsesKeeps DEF Sketch, TypeOK
  <2>2. /\ clock' \in Moments /\ timers' \in [{"periodic", "arp"} -> Timers]
        /\ lag' \in [{"periodic", "arp"} -> 0 .. MaxLag] /\ LagIsTrue' /\ IntervalsFit'
    BY <1>7, TimersStay DEF Sketch
  <2> QED
    BY <1>0, <1>7, <2>1, <2>2 DEF Sketch, TypeOK, OwnOut
<1>8. CASE Elapse
  <2>1. ASSUME NEW t \in {"periodic", "arp"}
        PROVE  /\ clock' \in Moments /\ Minus(clock', timers[t].start) = lag[t] + 1
               /\ lag[t] + 1 \in 0 .. MaxLag
    <3>1. /\ clock \in Moments /\ timers[t].start \in Moments /\ lag[t] \in 0 .. MaxLag
          /\ Minus(clock, timers[t].start) = lag[t] /\ lag[t] < MaxLag /\ clock' = Plus(clock, 1)
      BY <1>0, <1>8 DEF Elapse, TypeOK, Timers, LagIsTrue
    <3>2. lag[t] + 1 \in 0 .. MaxLag
      BY <3>1, NodeAssumption, SMT
    <3> QED
      BY <3>1, <3>2, TickCounts
  <2>2. /\ lag' = [t \in {"periodic", "arp"} |-> lag[t] + 1] /\ timers' = timers
        /\ UNCHANGED <<waiting, pos, uip_len, uip_slen, udp, lastport, configured>> /\ out' = NoPacket
    BY <1>0, <1>8 DEF Elapse, TypeOK
  <2>3. LagIsTrue' /\ IntervalsFit'
    BY <2>1, <2>2 DEF LagIsTrue, IntervalsFit
  <2> QED
    BY <1>0, <2>1, <2>2, <2>3 DEF TypeOK, Distinct, OwnOut
<1>9. CASE Arrive
  <2>1. /\ clock' \in Moments /\ timers' \in [{"periodic", "arp"} -> Timers]
        /\ lag' \in [{"periodic", "arp"} -> 0 .. MaxLag] /\ LagIsTrue' /\ IntervalsFit'
    BY <1>9, TimersStay DEF Arrive
  <2> QED
    BY <1>0, <1>9, <2>1 DEF Arrive, TypeOK, Distinct, OwnOut
<1> QED
  BY <1>1, <1>2, <1>3, <1>4, <1>5, <1>6, <1>7, <1>8, <1>9 DEF Next, Visit

\* The invariant holds in every state of every behaviour.
THEOREM InvariantHolds == Spec => []IInv
<1>1. IInv /\ UNCHANGED vars => IInv'
  BY DEF IInv, TypeOK, LagIsTrue, IntervalsFit, Distinct, vars
<1> QED
  BY InitGood, StepGood, <1>1, PTL DEF Spec

-----------------------------------------------------------------------------
(* What it says                                                            *)

\* The clock, the timers, the packet buffer and the UDP connections have their
\* types, whatever frames come and whatever the callbacks do.
THEOREM TypeCorrect == Spec => []TypeOK
BY InvariantHolds, PTL DEF IInv

\* timer_expired() is right while the clock wraps around, for every width of the
\* clock, every interval and however late poll() looks, as long as it is not a
\* whole turn of the clock.
THEOREM TimersAreRight == Spec => []TimersKeepTime
<1>1. IInv => TimersKeepTime
  <2> SUFFICES ASSUME IInv, NEW t \in {"periodic", "arp"}
               PROVE  TimerExpired(timers[t], clock) <=> lag[t] >= timers[t].interval
    BY DEF IInv, TypeOK, TimersKeepTime
  <2>1. /\ clock \in Moments /\ timers[t] \in Timers /\ lag[t] \in 0 .. MaxLag
        /\ Minus(clock, timers[t].start) = lag[t]
    BY DEF IInv, TypeOK, LagIsTrue
  <2>2. lag[t] <= MaxLag
    BY <2>1, NodeAssumption, SMT
  <2> QED
    BY <2>1, <2>2, ExpiredIsLate
<1> QED
  BY <1>1, InvariantHolds, PTL

\* Two UDP connections share a local port only if the program bound one of them
\* to it, in whichever order callbacks and the sketch open, bind and close them:
\* uip_udp_new() itself never gives a port twice, for any size of the table.
THEOREM PortsAreDistinct == Spec => []UdpPortsDistinct
<1>1. IInv => UdpPortsDistinct
  BY DEF IInv, Distinct, UdpPortsDistinct
<1> QED
  BY <1>1, InvariantHolds, PTL

\* Whatever poll() sends was built in that call of uip_process(), of data queued
\* in it, though callbacks leave uip_slen set for the next call.
THEOREM OwnPacketsOnly == Spec => SentIsOwn
<1>1. IInv /\ Next => (out' # NoPacket => out'.packet = "built" /\ out'.data # "left")
  BY StepGood DEF OwnOut
<1> QED
  BY <1>1, InvariantHolds, PTL DEF Spec, SentIsOwn

=============================================================================
