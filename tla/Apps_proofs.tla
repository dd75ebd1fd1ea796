----------------------------- MODULE Apps_proofs ----------------------------
(***************************************************************************)
(* What is proved of the applications, for any servers, commands, files,   *)
(* data and limits, each alone with its connections: the DHCP client, the  *)
(* telnet server, the SMTP client, the web server and the web client; and  *)
(* of all of them, that they send the same again.  Httpd_proofs goes on    *)
(* with the pages of the web server.                                       *)
(***************************************************************************)
EXTENDS MCApps, SequenceTheorems, FiniteSetTheorems, TLAPS

-----------------------------------------------------------------------------
(* The DHCP client never configures an address that the server it names    *)
(* has not acknowledged.                                                   *)

\* Until the client is bound the host has no address.
UnboundIsUnconfigured == dhcp.at # "bound" => hostaddr = NoAddr

DhcpInv == DhcpcTypeOK /\ UnboundIsUnconfigured /\ ConfiguredIsGranted

\* The messages handle_dhcp() may be called with: none, a datagram that is not a
\* reply to this host, or a reply.
Datagrams == {Silence, NotAReply} \cup Reply

-----------------------------------------------------------------------------
\* A host's answer is a reply; it does not acknowledge what it was not asked.
LEMMA AnswerIsReply ==
    ASSUME NEW host \in DhcpServers, NEW q \in Messages, NEW m \in Answers(host, q)
    PROVE  m \in Reply
<1>1. NoAddr \in Addrs \cup {NoAddr} /\ host \in DhcpServers \cup {NoServer}
  OBVIOUS
<1>2. CASE q = Discover
  <2>1. PICK a \in DhcpOffers[host] :
          m = [type |-> "OFFER", lease |-> [server |-> host, addr |-> a]]
    BY <1>2 DEF Answers
  <2>2. a \in Addrs
    BY DEF Addrs
  <2> QED
    BY <2>1, <2>2 DEF Reply, Lease
<1>3. CASE q # Discover
  <2>1. q.lease \in Lease
    BY <1>3 DEF Messages
  <2>2. \/ m = [type |-> "NAK", lease |-> [server |-> host, addr |-> NoAddr]]
        \/ m = [type |-> "ACK", lease |-> q.lease]
    BY <1>3 DEF Answers
  <2> QED
    BY <2>1, <2>2 DEF Reply, Lease
<1> QED
  BY <1>2, <1>3

\* parse_msg() stores whatever address and host a reply names, and only those.
LEMMA ParsedIsTyped ==
    ASSUME NEW s \in DhcpState, NEW m \in Datagrams
    PROVE  /\ Parsed(s, m) \in DhcpState
           /\ Parsed(s, m).ticks = s.ticks /\ Parsed(s, m).left = s.left
           /\ m \in Reply => /\ Parsed(s, m).ipaddr = m.lease.addr
                             /\ Parsed(s, m).serverid = m.lease.server
<1>1. CASE m \in Reply
  <2> DEFINE p == [s EXCEPT !.ipaddr = m.lease.addr, !.serverid = m.lease.server]
  <2>1. m.lease.addr \in Addrs \cup {NoAddr} /\ m.lease.server \in DhcpServers \cup {NoServer}
    BY <1>1 DEF Reply, Lease
  <2>2. /\ p \in DhcpState /\ p.ticks = s.ticks /\ p.left = s.left
        /\ p.ipaddr = m.lease.addr /\ p.serverid = m.lease.server
    BY <2>1 DEF DhcpState
  <2> QED
    BY <1>1, <2>2 DEF Parsed
<1>2. CASE m \notin Reply
  BY <1>2 DEF Parsed
<1> QED
  BY <1>1, <1>2

\* The state at the next PT_WAIT_UNTIL.
LEMMA WaitsIsTyped ==
    ASSUME NEW s \in DhcpState, NEW at \in {"discover", "request"}, NEW n \in 1 .. MaxTicks
    PROVE  Waits(s, at, n) \in DhcpState /\ Waits(s, at, n).at = at
<1>1. n \in 0 .. MaxTicks
  BY DhcpcAssumption, SMT DEF MaxTicks
<1> QED
  BY <1>1 DEF Waits, DhcpState

LEMMA RequestIsTyped ==
    ASSUME NEW s \in DhcpState
    PROVE  RequestOf(s) \in Messages
BY DEF RequestOf, Messages, DhcpState, Lease

\* Until it is acknowledged the client has no address, whatever it is told; if
\* it is, it takes that address.
LEMMA HandleDhcpKeeps ==
    ASSUME DhcpInv, NEW m \in Datagrams, HandleDhcp(m)
    PROVE  /\ dhcp' \in DhcpState /\ hostaddr' \in Addrs \cup {NoAddr}
           /\ messages' \subseteq Messages /\ asking' \in Messages \cup {Silence}
           /\ \/ UNCHANGED hostaddr /\ dhcp.at = "bound" /\ dhcp' = dhcp
              \/ hostaddr' = NoAddr /\ dhcp'.at # "bound"
              \/ /\ m \in Reply /\ m.type = "ACK" /\ dhcp'.at = "bound"
                 /\ hostaddr' = m.lease.addr /\ dhcp'.serverid = m.lease.server
<1>1. /\ dhcp \in DhcpState /\ hostaddr \in Addrs \cup {NoAddr}
      /\ messages \subseteq Messages /\ dhcp.ticks \in 1 .. MaxTicks
      /\ dhcp.at # "bound" => hostaddr = NoAddr
  BY DEF DhcpInv, DhcpcTypeOK, UnboundIsUnconfigured, DhcpState
<1>2. 1 \in 1 .. MaxTicks
  BY DhcpcAssumption, SMT DEF MaxTicks
<1>3. Discover \in Messages /\ Silence \in Messages \cup {Silence}
  BY DEF Messages
<1> DEFINE P == Parsed(dhcp, m)
<1>4. /\ P \in DhcpState
      /\ m \in Reply => P.ipaddr = m.lease.addr /\ P.serverid = m.lease.server
  BY <1>1, ParsedIsTyped
<1>5. RequestOf(P) \in Messages
  BY <1>4, RequestIsTyped
<1> HIDE DEF P
<1>6. CASE Starts(dhcp)
  <2>1. Waits(dhcp, "discover", 1) \in DhcpState /\ Waits(dhcp, "discover", 1).at = "discover"
    BY <1>1, <1>2, WaitsIsTyped
  <2> QED
    BY <1>1, <1>3, <1>6, <2>1 DEF Starts, Asks
<1>7. CASE Bound(dhcp)
  BY <1>1, <1>3, <1>7 DEF Bound, Yields
<1>8. CASE InDiscover(dhcp, m)
  <2>1. NextDiscover(dhcp) \in 1 .. MaxTicks
    BY <1>1, DhcpcAssumption, SMT DEF NextDiscover, MaxTicks
  <2>2. /\ Waits(P, "request", 1) \in DhcpState /\ Waits(P, "request", 1).at = "request"
        /\ Waits(P, "discover", NextDiscover(dhcp)) \in DhcpState
        /\ Waits(P, "discover", NextDiscover(dhcp)).at = "discover"
    BY <1>2, <1>4, <2>1, WaitsIsTyped
  <2> QED
    BY <1>1, <1>3, <1>5, <1>8, <2>2 DEF InDiscover, Asks, P
<1>9. CASE InRequest(dhcp, m)
  <2>1. CASE m.type # "ACK" /\ dhcp.ticks <= REQUEST_LIMIT
               /\ Asks(Waits(P, "request", NextRequest(dhcp)), RequestOf(P))
    <3>1. NextRequest(dhcp) \in 1 .. MaxTicks
      BY <1>1, <2>1, DhcpcAssumption, SMT DEF NextRequest, MaxTicks
    <3>2. /\ Waits(P, "request", NextRequest(dhcp)) \in DhcpState
          /\ Waits(P, "request", NextRequest(dhcp)).at = "request"
      BY <1>4, <3>1, WaitsIsTyped
    <3> QED
      BY <1>1, <1>5, <1>9, <2>1, <3>2 DEF InRequest, Asks
  <2>2. CASE m.type # "ACK" /\ Yields([P EXCEPT !.at = "start"])
    <3>1. [P EXCEPT !.at = "start"] \in DhcpState /\ [P EXCEPT !.at = "start"].at = "start"
      BY <1>4 DEF DhcpState
    <3> QED
      BY <1>1, <1>3, <1>9, <2>2, <3>1 DEF InRequest, Yields
  <2>3. CASE /\ m.type = "ACK" /\ dhcp' = [P EXCEPT !.at = "bound"] /\ hostaddr' = P.ipaddr
             /\ asking' = Silence /\ UNCHANGED messages
    <3>1. /\ dhcp' \in DhcpState /\ dhcp'.at = "bound"
          /\ dhcp'.serverid = P.serverid /\ P.ipaddr \in Addrs \cup {NoAddr}
      BY <1>4, <2>3 DEF DhcpState
    <3>2. m \in Reply
      BY <2>3 DEF Datagrams, Silence, NotAReply
    <3> QED
      BY <1>1, <1>4, <2>3, <3>1, <3>2
  <2> QED
    BY <1>9, <2>1, <2>2, <2>3 DEF InRequest, P
<1>10. CASE dhcp.at \in {"discover", "request"} /\ Yields(dhcp)
  BY <1>1, <1>3, <1>10 DEF Yields
<1> QED
  BY <1>6, <1>7, <1>8, <1>9, <1>10 DEF HandleDhcp

-----------------------------------------------------------------------------
LEMMA DhcpInitGood == DhcpcInit => DhcpInv
<1>1. ASSUME DhcpcInit PROVE dhcp \in DhcpState
  <2>1. 1 \in 1 .. MaxTicks /\ 0 \in 0 .. MaxTicks
    BY DhcpcAssumption, SMT DEF MaxTicks
  <2> QED
    BY <1>1, <2>1 DEF DhcpcInit, DhcpState
<1> QED
  BY <1>1 DEF DhcpcInit, DhcpInv, DhcpcTypeOK, UnboundIsUnconfigured, ConfiguredIsGranted

LEMMA DhcpStepGood ==
    ASSUME DhcpInv, DhcpcNext
    PROVE  DhcpInv'
<1> USE DEF DhcpInv
<1>1. CASE DhcpPoll
  <2>1. Silence \in Datagrams /\ Silence \notin Reply
    BY DEF Datagrams, Silence, Reply
  <2> QED
    BY <1>1, <2>1, HandleDhcpKeeps
    DEF DhcpPoll, DhcpcTypeOK, UnboundIsUnconfigured, ConfiguredIsGranted
<1>2. CASE HandleDhcp(NotAReply) /\ UNCHANGED granted
  <2>1. NotAReply \in Datagrams /\ NotAReply \notin Reply
    BY DEF Datagrams, NotAReply, Reply
  <2> QED
    BY <1>2, <2>1, HandleDhcpKeeps
    DEF DhcpcTypeOK, UnboundIsUnconfigured, ConfiguredIsGranted
<1>3. ASSUME NEW host \in DhcpServers, NEW q \in messages, NEW m \in Answers(host, q),
             HandleDhcp(m),
             granted' = IF m.type = "ACK" THEN granted \cup {m.lease} ELSE granted
      PROVE  DhcpInv'
  <2>1. m \in Reply /\ m \in Datagrams
    BY AnswerIsReply DEF DhcpcTypeOK, Datagrams
  <2>2. m.lease \in Lease /\ m.lease = [server |-> m.lease.server, addr |-> m.lease.addr]
    BY <2>1 DEF Reply, Lease
  <2>3. granted \subseteq granted' /\ granted' \subseteq Lease
    BY <1>3, <2>2 DEF DhcpcTypeOK
  <2>4. m.type = "ACK" => [server |-> m.lease.server, addr |-> m.lease.addr] \in granted'
    BY <1>3, <2>2
  <2> QED
    BY <1>3, <2>1, <2>3, <2>4, HandleDhcpKeeps
    DEF DhcpcTypeOK, UnboundIsUnconfigured, ConfiguredIsGranted
<1>4. CASE DhcpElapse
  <2>1. dhcp \in DhcpState /\ dhcp.left \in 0 .. MaxTicks
    BY DEF DhcpcTypeOK, DhcpState
  <2>2. dhcp.left - 1 \in 0 .. MaxTicks
    BY <1>4, <2>1, DhcpcAssumption, SMT DEF DhcpElapse, MaxTicks
  <2>3. dhcp' \in DhcpState /\ dhcp'.at = dhcp.at /\ dhcp'.serverid = dhcp.serverid
    BY <1>4, <2>1, <2>2 DEF DhcpElapse, DhcpState
  <2> QED
    BY <1>4, <2>3
    DEF DhcpElapse, DhcpcTypeOK, UnboundIsUnconfigured, ConfiguredIsGranted
<1> QED
  BY <1>1, <1>2, <1>3, <1>4 DEF DhcpcNext, DhcpNewdata

\* The invariant holds in every state of every behaviour.
THEOREM DhcpInvariantHolds == DhcpcSpec => []DhcpInv
<1>1. DhcpInv /\ UNCHANGED dhcpVars => DhcpInv'
  BY DEF DhcpInv, DhcpcTypeOK, UnboundIsUnconfigured, ConfiguredIsGranted, dhcpVars
<1> QED
  BY DhcpInitGood, DhcpStepGood, <1>1, PTL DEF DhcpcSpec

-----------------------------------------------------------------------------
\* The client's state has its type: its waits stay within their limits, however
\* often it asks.
THEOREM DhcpcTypes == DhcpcSpec => []DhcpcTypeOK
BY DhcpInvariantHolds, PTL DEF DhcpInv

\* The host is configured with an address only if the host the client names has
\* acknowledged it, for any servers, answering any message ever sent, at any time
\* and any number of times.
THEOREM AddressIsGranted == DhcpcSpec => []ConfiguredIsGranted
BY DhcpInvariantHolds, PTL DEF DhcpInv

-----------------------------------------------------------------------------
(* The connection of a TCP application: what the stack makes of an answer, *)
(* and what it leaves outstanding.                                         *)

Kinds == {"poll", "rexmit", "aborted", "timedout", "connected", "input", "closed"}

\* What the events have in common.
LEMMA EventHas ==
    ASSUME NEW inputs, NEW e \in Events(inputs)
    PROVE  /\ e.kind \in Kinds /\ e.acks \in BOOLEAN /\ e.data \in inputs \cup {<<>>}
           /\ e.kind \notin {"input", "closed"} => ~e.acks
           /\ e.kind \notin {"input", "closed", "connected"} => e.data = <<>>
<1>1. ASSUME NEW k \in {"poll", "rexmit", "aborted", "timedout"}, e = Event(k, FALSE, <<>>)
      PROVE  e.kind = k /\ e.acks = FALSE /\ e.data = <<>>
  BY <1>1 DEF Event
<1>2. ASSUME NEW data \in inputs \cup {<<>>}, e = Event("connected", FALSE, data)
      PROVE  e.kind = "connected" /\ e.acks = FALSE /\ e.data = data
  BY <1>2 DEF Event
<1>3. ASSUME NEW k \in {"input", "closed"}, NEW acks \in BOOLEAN, NEW data \in inputs \cup {<<>>},
             e = Event(k, acks, data)
      PROVE  e.kind = k /\ e.acks = acks /\ e.data = data
  BY <1>3 DEF Event
<1>4. \/ \E k \in {"poll", "rexmit", "aborted", "timedout"} : e = Event(k, FALSE, <<>>)
      \/ \E data \in inputs \cup {<<>>} : e = Event("connected", FALSE, data)
      \/ \E k \in {"input", "closed"}, acks \in BOOLEAN, data \in inputs \cup {<<>>} :
             e = Event(k, acks, data)
  <2> DEFINE A == {Event(k, FALSE, <<>>) : k \in {"poll", "rexmit", "aborted", "timedout"}}
             B == {Event("connected", FALSE, data) : data \in inputs \cup {<<>>}}
             C == {Event(k, acks, data) : k \in {"input", "closed"}, acks \in BOOLEAN,
                                          data \in inputs \cup {<<>>}}
  <2>1. Events(inputs) = A \cup B \cup C
    BY DEF Events
  <2>2. e \in A => \E k \in {"poll", "rexmit", "aborted", "timedout"} : e = Event(k, FALSE, <<>>)
    OBVIOUS
  <2>3. e \in B => \E data \in inputs \cup {<<>>} : e = Event("connected", FALSE, data)
    OBVIOUS
  <2>4. e \in C => \E k \in {"input", "closed"}, acks \in BOOLEAN, data \in inputs \cup {<<>>} :
                       e = Event(k, acks, data)
    OBVIOUS
  <2> HIDE DEF A, B, C
  <2>5. e \in A \/ e \in B \/ e \in C
    BY <2>1
  <2> QED
    BY <2>2, <2>3, <2>4, <2>5, Zenon
<1>5. CASE \E k \in {"poll", "rexmit", "aborted", "timedout"} : e = Event(k, FALSE, <<>>)
  BY <1>1, <1>5 DEF Kinds
<1>6. CASE \E data \in inputs \cup {<<>>} : e = Event("connected", FALSE, data)
  BY <1>2, <1>6 DEF Kinds
<1>7. CASE \E k \in {"input", "closed"}, acks \in BOOLEAN, data \in inputs \cup {<<>>} :
             e = Event(k, acks, data)
  <2>1. PICK k \in {"input", "closed"}, acks \in BOOLEAN, data \in inputs \cup {<<>>} :
            e = Event(k, acks, data)
    BY <1>7
  <2>2. e.kind = k /\ e.acks = acks /\ e.data = data
    BY <1>3, <2>1
  <2> QED
    BY <2>2 DEF Kinds
<1> QED
  BY <1>4, <1>5, <1>6, <1>7

\* A connection that carries tokens of a set, and an answer with some of them.
Links(S) == [state : LinkStates, len : 0 .. AppMss, sent : Seq(S), nrtx : Nat]
AnswersOf(S) == [abort : BOOLEAN, close : BOOLEAN, data : Seq(S)]

LEMMA AnswersHave ==
    ASSUME NEW S, NEW data \in Seq(S)
    PROVE  /\ Answer(data) \in AnswersOf(S)
           /\ Answer(data).data = data /\ ~Answer(data).abort /\ ~Answer(data).close
           /\ Silent \in AnswersOf(S) /\ Silent.data = <<>>
           /\ Close \in AnswersOf(S) /\ Close.data = <<>>
           /\ Abort \in AnswersOf(S) /\ Abort.data = <<>>
<1>1. <<>> \in Seq(S)
  OBVIOUS
<1> QED
  BY <1>1 DEF Answer, Silent, Close, Abort, AnswersOf

\* Cutting keeps the front.
LEMMA CutIsFront ==
    ASSUME NEW S, NEW data \in Seq(S), NEW n \in Nat
    PROVE  /\ Cut(data, n) \in Seq(S)
           /\ Len(Cut(data, n)) = IF Len(data) <= n THEN Len(data) ELSE n
           /\ \A i \in 1 .. Len(Cut(data, n)) : Cut(data, n)[i] = data[i]
<1>1. CASE Len(data) <= n
  BY <1>1 DEF Cut
<1>2. CASE ~(Len(data) <= n)
  <2>1. Len(data) \in Nat /\ n <= Len(data) /\ n \in 1 - 1 .. Len(data) /\ 1 \in 1 .. Len(data) + 1
    BY <1>2
  <2>2. /\ SubSeq(data, 1, n) \in Seq(S) /\ Len(SubSeq(data, 1, n)) = n
        /\ \A i \in 1 .. n : SubSeq(data, 1, n)[i] = data[i]
    BY <2>1, SubSeqProperties
  <2> QED
    BY <1>2, <2>2 DEF Cut
<1> QED
  BY <1>1, <1>2

LEMMA LinkIsLink ==
    ASSUME NEW S, NEW state \in LinkStates
    PROVE  /\ Link(state) \in Links(S) /\ Link(state).len = 0
           /\ Link(state).state = state
<1>1. 0 \in 0 .. AppMss /\ <<>> \in Seq(S) /\ 0 \in Nat
  BY AppAssumption
<1> QED
  BY <1>1 DEF Link, Links

LinkFields == {"state", "len", "sent", "nrtx"}

LEMMA LinkHas ==
    ASSUME NEW S, NEW l \in Links(S)
    PROVE  /\ l = [f \in LinkFields |-> l[f]]
           /\ l.state \in LinkStates /\ l.len \in 0 .. AppMss /\ l.len \in Nat
           /\ l.sent \in Seq(S) /\ l.nrtx \in Nat
BY DEF Links, LinkFields

LEMMA MakesLink ==
    ASSUME NEW S, NEW l, l = [f \in LinkFields |-> l[f]],
           l.state \in LinkStates, l.len \in 0 .. AppMss,
           l.sent \in Seq(S), l.nrtx \in Nat
    PROVE  l \in Links(S)
BY DEF Links, LinkFields

\* A segment is outstanding on an open connection only.
OpenIfOutstanding(l) == l.len > 0 => l.state = "open" /\ Len(l.sent) = l.len

\* A step of a connection that is right: what it leaves outstanding it has just
\* sent, or has sent before and not now.
Kept(S, after) ==
    /\ after.link \in Links(S)
    /\ OpenIfOutstanding(after.link)
    /\ after.link.len > 0 => after.wire \in {after.link.sent, <<>>}
    /\ after.wire \in Seq(S)

LEMMA EndsAreKept ==
    ASSUME NEW S, NEW state \in LinkStates
    PROVE  /\ Kept(S, Ends(state))
           /\ Ends(state).link.state = state /\ Ends(state).link.len = 0
           /\ Ends(state).link = Link(state) /\ Ends(state).wire = <<>>
<1>1. /\ Ends(state).link = Link(state) /\ Ends(state).wire = <<>>
  BY DEF Ends
<1>2. <<>> \in Seq(S) /\ ~(0 > 0)
  OBVIOUS
<1>3. Link(state) \in Links(S) /\ Link(state).len = 0 /\ Link(state).state = state
  BY LinkIsLink
<1> QED
  BY <1>1, <1>2, <1>3 DEF Kept, OpenIfOutstanding

LEMMA SendsAreKept ==
    ASSUME NEW S, NEW l \in Links(S), OpenIfOutstanding(l), l.state = "open",
           NEW data \in Seq(S), l.len > 0 => Cut(data, l.len) \in {l.sent, <<>>}
    PROVE  /\ Kept(S, Sends(l, data)) /\ Sends(l, data).link.state = "open"
           /\ l.len > 0 => Sends(l, data).link = l
           /\ l.len = 0 => /\ Sends(l, data).link.sent = Cut(data, AppMss)
                           /\ Sends(l, data).link.len = Len(Cut(data, AppMss))
<1> DEFINE first == Cut(data, AppMss)
           next == [l EXCEPT !.len = Len(first), !.sent = first]
<1>0. AppMss \in Nat
  BY AppAssumption
<1>1. first \in Seq(S) /\ Len(first) \in 0 .. AppMss
  <2>1. first \in Seq(S) /\ Len(first) = IF Len(data) <= AppMss THEN Len(data) ELSE AppMss
    BY <1>0, CutIsFront
  <2>2. Len(data) \in Nat
    OBVIOUS
  <2> QED
    BY <1>0, <2>1, <2>2
<1> HIDE DEF first
<1>2. /\ l = [f \in LinkFields |-> l[f]]
      /\ l.state \in LinkStates /\ l.len \in Nat /\ l.sent \in Seq(S) /\ l.nrtx \in Nat
  BY LinkHas
<1>3. /\ next = [f \in LinkFields |-> next[f]] /\ next.state = l.state
      /\ next.len = Len(first) /\ next.sent = first /\ next.nrtx = l.nrtx
  BY <1>2 DEF LinkFields
<1> HIDE DEF next
<1>4. next \in Links(S)
  BY <1>1, <1>2, <1>3, MakesLink
<1>5. CASE l.len = 0
  <2>1. Sends(l, data).link = next /\ Sends(l, data).wire = first
    BY <1>5 DEF Sends, first, next
  <2> QED
    BY <1>1, <1>3, <1>4, <1>5, <2>1 DEF Kept, OpenIfOutstanding, first
<1>6. CASE l.len # 0
  <2>1. Sends(l, data).link = l /\ Sends(l, data).wire = Cut(data, l.len)
    BY <1>6 DEF Sends
  <2>2. l.len > 0
    BY <1>2, <1>6
  <2>3. Cut(data, l.len) \in Seq(S)
    BY <1>2, CutIsFront
  <2> QED
    BY <1>6, <2>1, <2>2, <2>3 DEF Kept
<1> QED
  BY <1>5, <1>6

LEMMA DoesIsKept ==
    ASSUME NEW S, NEW l \in Links(S), OpenIfOutstanding(l), l.state = "open",
           NEW a \in AnswersOf(S), l.len > 0 => Cut(a.data, l.len) \in {l.sent, <<>>}
    PROVE  /\ Kept(S, Does(l, a))
           /\ Does(l, a).link.len > 0 => Does(l, a) = Sends(l, a.data)
           /\ Does(l, a).link.state \in {"open", "none", "closing"}
           /\ Does(l, a).link.state = "open" => ~a.abort /\ ~a.close
<1>1. a.abort \in BOOLEAN /\ a.close \in BOOLEAN /\ a.data \in Seq(S)
  BY DEF AnswersOf
<1>2. "none" \in LinkStates /\ "closing" \in LinkStates
  BY DEF LinkStates
<1>3. CASE a.abort
  <2>1. Does(l, a) = Ends("none")
    BY <1>3 DEF Does
  <2> QED
    BY <1>2, <2>1, EndsAreKept
<1>4. CASE ~a.abort /\ a.close
  <2>1. Does(l, a) = Ends("closing")
    BY <1>4 DEF Does
  <2> QED
    BY <1>2, <2>1, EndsAreKept
<1>5. CASE ~a.abort /\ ~a.close
  <2>1. Does(l, a) = Sends(l, a.data)
    BY <1>5 DEF Does
  <2>2. Kept(S, Sends(l, a.data)) /\ Sends(l, a.data).link.state = "open"
    BY <1>1, SendsAreKept
  <2> QED
    BY <1>5, <2>1, <2>2
<1> QED
  BY <1>1, <1>3, <1>4, <1>5, Zenon

\* What after, the outcome of event e with answer a, says if the connection is
\* open, and if something is outstanding.
OpenBecause(l, e, a, after) ==
    after.link.state = "open" =>
        /\ ~EndsIt(e)
        /\ l.state = "open" \/ e.kind = "connected"
        /\ e.kind # "rexmit" => ~a.abort /\ ~a.close

OutstandingBecause(l, e, a, after) ==
    after.link.len > 0 =>
        \/ /\ l.len > 0 /\ ~e.acks /\ e.kind # "connected"
           /\ after.link.len = l.len
           /\ after.link.sent = l.sent
        \/ /\ after.link.len = Len(Cut(a.data, AppMss))
           /\ after.link.sent = Cut(a.data, AppMss)

\* Events that leave the connection open are answered with data, which is sent if
\* nothing is outstanding.
LEMMA AfterIsKept ==
    ASSUME NEW S, NEW l \in Links(S), OpenIfOutstanding(l),
           NEW inputs, NEW e \in Events(inputs), CanHappen(l, e),
           NEW a \in AnswersOf(S),
           l.len > 0 /\ ~e.acks /\ e.kind # "connected" => Cut(a.data, l.len) \in {l.sent, <<>>}
    PROVE  /\ Kept(S, After(l, e, a))
           /\ OpenBecause(l, e, a, After(l, e, a))
           /\ OutstandingBecause(l, e, a, After(l, e, a))
<1>0. /\ e.kind \in Kinds /\ e.acks \in BOOLEAN /\ e.data \in inputs \cup {<<>>}
      /\ e.kind \notin {"input", "closed"} => ~e.acks
  BY EventHas
<1>1. /\ l = [f \in LinkFields |-> l[f]]
      /\ l.state \in LinkStates /\ l.len \in 0 .. AppMss /\ l.len \in Nat
      /\ l.sent \in Seq(S) /\ l.nrtx \in Nat
  BY LinkHas
<1>2. "none" \in LinkStates /\ "last ack" \in LinkStates /\ "open" \in LinkStates
  BY DEF LinkStates
<1>3. /\ Link("open") \in Links(S) /\ OpenIfOutstanding(Link("open"))
      /\ Link("open").state = "open" /\ Link("open").len = 0
  <2>1. /\ Link("open") \in Links(S) /\ Link("open").len = 0
        /\ Link("open").state = "open"
    BY <1>2, LinkIsLink
  <2> QED
    BY <2>1 DEF OpenIfOutstanding
<1>4. a.data \in Seq(S)
  BY DEF AnswersOf
<1> DEFINE again == [l EXCEPT !.nrtx = @ + 1]
           fresh == [l EXCEPT !.nrtx = 0]
<1>5. /\ again = [f \in LinkFields |-> again[f]] /\ again.state = l.state
      /\ again.len = l.len /\ again.sent = l.sent /\ again.nrtx = l.nrtx + 1
      /\ fresh = [f \in LinkFields |-> fresh[f]] /\ fresh.state = l.state
      /\ fresh.len = l.len /\ fresh.sent = l.sent /\ fresh.nrtx = 0
  BY <1>1 DEF LinkFields
<1> HIDE DEF again, fresh
<1>6. again \in Links(S) /\ fresh \in Links(S)
  <2>1. l.nrtx + 1 \in Nat /\ 0 \in Nat
    BY <1>1
  <2> QED
    BY <1>1, <1>5, <2>1, MakesLink
<1>7. OpenIfOutstanding(again) /\ OpenIfOutstanding(fresh)
  BY <1>5 DEF OpenIfOutstanding
<1>8. CASE e.kind = "closed"
  <2> DEFINE next == IF l.state = "open" THEN "last ack" ELSE "none"
  <2>1. After(l, e, a) = Ends(next) /\ next \in LinkStates /\ next # "open"
    BY <1>2, <1>8 DEF After
  <2>2. Kept(S, Ends(next)) /\ Ends(next).link.len = 0 /\ Ends(next).link.state = next
    BY <2>1, EndsAreKept
  <2> HIDE DEF next
  <2> QED
    BY <2>1, <2>2 DEF OpenBecause, OutstandingBecause
<1>9. CASE e.kind \in {"aborted", "timedout"}
  <2>1. After(l, e, a) = Ends("none")
    BY <1>9 DEF After
  <2>2. Kept(S, Ends("none")) /\ Ends("none").link.len = 0 /\ Ends("none").link.state = "none"
    BY <1>2, EndsAreKept
  <2> QED
    BY <2>1, <2>2 DEF OpenBecause, OutstandingBecause
<1>10. CASE e.kind = "rexmit"
  <2>1. After(l, e, a).link = again /\ After(l, e, a).wire = Cut(a.data, l.len)
    BY <1>10 DEF After, again
  <2>2. l.state = "open" /\ l.len > 0
    BY <1>10 DEF CanHappen
  <2>3. Cut(a.data, l.len) \in Seq(S) /\ Cut(a.data, l.len) \in {l.sent, <<>>}
    BY <1>0, <1>1, <1>4, <1>10, <2>2, CutIsFront
  <2>4. Kept(S, After(l, e, a))
    BY <1>5, <1>6, <1>7, <2>1, <2>3 DEF Kept
  <2>5. ~EndsIt(e) /\ ~e.acks /\ e.kind # "connected"
    BY <1>0, <1>10 DEF EndsIt, OpenBecause, OutstandingBecause
  <2>6. After(l, e, a).link.len = l.len /\ After(l, e, a).link.sent = l.sent
    BY <1>5, <2>1
  <2>7. OpenBecause(l, e, a, After(l, e, a))
    BY <1>10, <2>2, <2>5 DEF OpenBecause
  <2>8. OutstandingBecause(l, e, a, After(l, e, a))
    BY <2>2, <2>5, <2>6 DEF OutstandingBecause
  <2> QED
    BY <2>4, <2>7, <2>8
<1>11. CASE e.kind = "connected"
  <2>1. After(l, e, a) = Does(Link("open"), a)
    BY <1>11 DEF After
  <2>2. /\ Kept(S, Does(Link("open"), a))
        /\ Does(Link("open"), a).link.len > 0 =>
              Does(Link("open"), a) = Sends(Link("open"), a.data)
        /\ Does(Link("open"), a).link.state = "open" => ~a.abort /\ ~a.close
    BY <1>3, DoesIsKept
  <2>3. /\ Sends(Link("open"), a.data).link.sent = Cut(a.data, AppMss)
        /\ Sends(Link("open"), a.data).link.len = Len(Cut(a.data, AppMss))
    BY <1>3, <1>4, SendsAreKept
  <2> QED
    BY <1>11, <2>1, <2>2, <2>3 DEF EndsIt, OpenBecause, OutstandingBecause
<1>12. CASE e.kind \in {"poll", "input"}
  <2> DEFINE now == IF e.acks THEN Link("open") ELSE fresh
  <2>1. After(l, e, a) = Does(now, a)
    BY <1>12 DEF After, fresh
  <2>2. l.state = "open"
    BY <1>12 DEF CanHappen, CanInput
  <2>3. /\ now \in Links(S) /\ OpenIfOutstanding(now) /\ now.state = "open"
        /\ now.len > 0 => ~e.acks /\ now.len = l.len /\ now.sent = l.sent
    BY <1>3, <1>5, <1>6, <1>7, <2>2
  <2> HIDE DEF now
  <2>4. now.len > 0 => Cut(a.data, now.len) \in {now.sent, <<>>}
    BY <2>3, <1>12
  <2>5. /\ Kept(S, Does(now, a))
        /\ Does(now, a).link.len > 0 => Does(now, a) = Sends(now, a.data)
        /\ Does(now, a).link.state = "open" => ~a.abort /\ ~a.close
    BY <2>3, <2>4, DoesIsKept
  <2>6. /\ now.len > 0 => Sends(now, a.data).link = now
        /\ now.len = 0 => /\ Sends(now, a.data).link.sent = Cut(a.data, AppMss)
                          /\ Sends(now, a.data).link.len = Len(Cut(a.data, AppMss))
    BY <1>4, <2>3, <2>4, SendsAreKept
  <2>7. now.len = 0 \/ now.len > 0
    BY <2>3, LinkHas
  <2> QED
    BY <1>12, <2>1, <2>2, <2>3, <2>5, <2>6, <2>7 DEF EndsIt, OpenBecause, OutstandingBecause
<1> QED
  BY <1>0, <1>8, <1>9, <1>10, <1>11, <1>12 DEF Kinds

-----------------------------------------------------------------------------
(* The telnet server: the lines that wait have a block of memory each, and *)
(* what is sent again is what was sent.                                    *)

TelStates == {"NORMAL", "IAC", "CLOSE"} \cup Verbs
Tels == [state : TelStates, bufptr : 0 .. TELNETD_LINELEN - 1, numsent : 0 .. AppMss - 1]
Heaps == {h \in [lines : Seq(Blocks), count : [Blocks -> 0 .. 1], mem : [Blocks -> Texts]] :
             Len(h.lines) <= TELNETD_NUMLINES}

\* Each line has a block of its own, which is allocated.
Owned(h) ==
    /\ \A i \in 1 .. Len(h.lines) : h.count[h.lines[i]] = 1
    /\ \A i, j \in 1 .. Len(h.lines) : h.lines[i] = h.lines[j] => i = j

\* Heap g has the lines of h, with their texts, and perhaps more.
Grown(h, g) ==
    /\ Len(h.lines) <= Len(g.lines)
    /\ \A i \in 1 .. Len(h.lines) :
          g.lines[i] = h.lines[i] /\ g.mem[g.lines[i]] = h.mem[h.lines[i]]

\* What the queue can become from h, with h's lines in their places.
Longer(h) == {g \in Heaps : Owned(g) /\ Grown(h, g)}

Printed == INSTANCE FoldTheorems WITH Op <- LAMBDA c, h, t : Output(h, t)
Freed == INSTANCE FoldTheorems WITH Op <- LAMBDA c, h, b : MembFree(h, b)
Scanned == INSTANCE FoldTheorems WITH Op <- LAMBDA c, i, ch : NewChar(i, ch)

LEMMA OutputsFolds ==
    ASSUME NEW h, NEW texts
    PROVE  Outputs(h, texts) = Printed!Folded(0, h, texts)
BY DEF Outputs, Printed!Folded, Printed!FoldLeft, FoldLeft, Printed!MapThenFoldSet, MapThenFoldSet,
       Printed!Max, Max

LEMMA FreeFolds ==
    ASSUME NEW h, NEW bs
    PROVE  FoldLeft(MembFree, h, bs) = Freed!Folded(0, h, bs)
BY DEF Freed!Folded, Freed!FoldLeft, FoldLeft, Freed!MapThenFoldSet, MapThenFoldSet,
       Freed!Max, Max

LEMMA ReadFolds ==
    ASSUME NEW i, NEW data
    PROVE  ReadChars(i, data) = Scanned!Folded(0, i, data)
BY DEF ReadChars, Scanned!Folded, Scanned!FoldLeft, FoldLeft, Scanned!MapThenFoldSet, MapThenFoldSet,
       Scanned!Max, Max

-----------------------------------------------------------------------------
HeapFields == {"lines", "count", "mem"}

LEMMA HeapHas ==
    ASSUME NEW h \in Heaps
    PROVE  /\ h = [f \in HeapFields |-> h[f]]
           /\ h.lines \in Seq(Blocks) /\ h.count \in [Blocks -> 0 .. 1]
           /\ h.mem \in [Blocks -> Texts]
           /\ Len(h.lines) \in Nat /\ Len(h.lines) <= TELNETD_NUMLINES
<1>1. h \in [lines : Seq(Blocks), count : [Blocks -> 0 .. 1], mem : [Blocks -> Texts]]
  BY Zenon DEF Heaps
<1>2. Len(h.lines) <= TELNETD_NUMLINES
  BY Zenon DEF Heaps
<1>3. h = [f \in HeapFields |-> h[f]]
  BY <1>1 DEF HeapFields
<1>4. h.lines \in Seq(Blocks) /\ h.count \in [Blocks -> 0 .. 1] /\ h.mem \in [Blocks -> Texts]
  BY <1>1
<1> QED
  BY <1>2, <1>3, <1>4, LenProperties

LEMMA MakesHeap ==
    ASSUME NEW h, h = [f \in HeapFields |-> h[f]],
           h.lines \in Seq(Blocks), h.count \in [Blocks -> 0 .. 1], h.mem \in [Blocks -> Texts],
           Len(h.lines) <= TELNETD_NUMLINES
    PROVE  h \in Heaps
<1>1. h \in [lines : Seq(Blocks), count : [Blocks -> 0 .. 1], mem : [Blocks -> Texts]]
  BY DEF HeapFields
<1> QED
  BY <1>1, Zenon DEF Heaps

\* A free block belongs to no line that waits.
LEMMA MembAllocIsFree ==
    ASSUME NEW h \in Heaps, MembAlloc(h) # {}
    PROVE  (CHOOSE b \in MembAlloc(h) : TRUE) \in {b \in Blocks : h.count[b] = 0}
BY DEF MembAlloc, Free

LEMMA MembFreeIsHeap ==
    ASSUME NEW h \in Heaps, NEW b \in Blocks
    PROVE  /\ MembFree(h, b) \in Heaps
           /\ MembFree(h, b).lines = h.lines /\ MembFree(h, b).mem = h.mem
           /\ MembFree(h, b).count[b] = 0
           /\ \A c \in Blocks \ {b} : MembFree(h, b).count[c] = h.count[c]
<1> DEFINE n == IF h.count[b] > 0 THEN h.count[b] - 1 ELSE 0
           g == [h EXCEPT !.count[b] = n]
<1>1. MembFree(h, b) = g
  BY DEF MembFree
<1>2. /\ h = [f \in HeapFields |-> h[f]]
      /\ h.lines \in Seq(Blocks) /\ h.count \in [Blocks -> 0 .. 1]
      /\ h.mem \in [Blocks -> Texts] /\ Len(h.lines) <= TELNETD_NUMLINES
  BY HeapHas
<1>3. n = 0
  BY <1>2
<1> HIDE DEF n
<1>4. /\ g = [f \in HeapFields |-> g[f]] /\ g.lines = h.lines /\ g.mem = h.mem
      /\ g.count = [h.count EXCEPT ![b] = n]
  BY <1>2 DEF HeapFields
<1> HIDE DEF g
<1>5. g.count \in [Blocks -> 0 .. 1]
  <2>1. n \in 0 .. 1
    BY <1>3
  <2> QED
    BY <1>2, <1>4, <2>1
<1>6. g \in Heaps
  BY <1>2, <1>4, <1>5, MakesHeap
<1> QED
  BY <1>1, <1>2, <1>3, <1>4, <1>6

LEMMA AppendHas ==
    ASSUME NEW S, NEW s \in Seq(S), NEW e \in S
    PROVE  /\ Append(s, e) \in Seq(S) /\ Len(Append(s, e)) = Len(s) + 1
           /\ \A i \in 1 .. Len(s) : Append(s, e)[i] = s[i]
           /\ Append(s, e)[Len(s) + 1] = e
<1>1. Append(s, e) \in Seq(S) /\ Len(Append(s, e)) = Len(s) + 1
  BY AppendProperties
<1>2. ASSUME NEW i \in 1 .. Len(s)
      PROVE  Append(s, e)[i] = s[i]
  BY AppendProperties
<1>3. Append(s, e)[Len(s) + 1] = e
  BY AppendProperties
<1> QED
  BY <1>1, <1>2, <1>3

\* A line is added at the end in a block that was free, or nothing changes for
\* the lines there are.
LEMMA OutputIsHeap ==
    ASSUME NEW h \in Heaps, NEW text \in Texts
    PROVE  /\ Output(h, text) \in Heaps
           /\ Owned(h) => Output(h, text) \in Longer(h)
<1>1. /\ h = [f \in HeapFields |-> h[f]]
      /\ h.lines \in Seq(Blocks) /\ h.count \in [Blocks -> 0 .. 1]
      /\ h.mem \in [Blocks -> Texts] /\ Len(h.lines) <= TELNETD_NUMLINES
      /\ Len(h.lines) \in Nat
  BY HeapHas
<1>2. CASE MembAlloc(h) = {}
  <2>1. Output(h, text) = h
    BY <1>2 DEF Output
  <2> QED
    BY <1>1, <2>1 DEF Longer, Grown
<1>3. CASE MembAlloc(h) # {}
  <2> DEFINE b == CHOOSE b \in MembAlloc(h) : TRUE
             g == [h EXCEPT !.count[b] = @ + 1, !.mem[b] = text]
             added == [g EXCEPT !.lines = Append(@, b)]
  <2>1. b \in Blocks /\ h.count[b] = 0
    BY <1>3, MembAllocIsFree
  <2>2. Output(h, text) = IF Len(h.lines) < TELNETD_NUMLINES THEN added ELSE MembFree(g, b)
    BY <1>3, Zenon DEF Output, SendLine
  <2> HIDE DEF b
  <2>3. /\ g = [f \in HeapFields |-> g[f]] /\ g.lines = h.lines
        /\ g.mem = [h.mem EXCEPT ![b] = text] /\ g.count = [h.count EXCEPT ![b] = h.count[b] + 1]
    BY <1>1 DEF HeapFields
  <2> HIDE DEF g
  <2>4. /\ g.mem \in [Blocks -> Texts] /\ g.count \in [Blocks -> 0 .. 1] /\ g.count[b] = 1
        /\ \A c \in Blocks \ {b} : g.count[c] = h.count[c] /\ g.mem[c] = h.mem[c]
    <3>1. h.count[b] + 1 = 1 /\ 1 \in 0 .. 1
      BY <2>1
    <3>2. g.mem \in [Blocks -> Texts]
      BY <1>1, <2>1, <2>3
    <3>3. g.count = [h.count EXCEPT ![b] = 1]
      BY <2>3, <3>1
    <3>4. g.count \in [Blocks -> 0 .. 1] /\ g.count[b] = 1
      BY <1>1, <2>1, <3>1, <3>3
    <3>5. \A c \in Blocks \ {b} : g.count[c] = h.count[c]
      BY <1>1, <3>3
    <3>6. \A c \in Blocks \ {b} : g.mem[c] = h.mem[c]
      BY <1>1, <2>3
    <3> QED
      BY <3>2, <3>4, <3>5, <3>6
  <2>5. g \in Heaps
    BY <1>1, <2>3, <2>4, MakesHeap
  <2>6. ASSUME Owned(h), NEW i \in 1 .. Len(h.lines)
        PROVE  h.lines[i] \in Blocks \ {b}
    <3>1. h.lines[i] \in Blocks
      BY <1>1, ElementOfSeq
    <3>2. h.count[h.lines[i]] = 1
      BY <2>6 DEF Owned
    <3> QED
      BY <2>1, <3>1, <3>2
  <2>7. CASE Len(h.lines) < TELNETD_NUMLINES
    <3>1. /\ added = [f \in HeapFields |-> added[f]] /\ added.lines = Append(h.lines, b)
          /\ added.mem = g.mem /\ added.count = g.count
      BY <2>3 DEF HeapFields
    <3> HIDE DEF added
    <3>2. /\ added.lines \in Seq(Blocks) /\ Len(added.lines) = Len(h.lines) + 1
          /\ \A i \in 1 .. Len(h.lines) : added.lines[i] = h.lines[i]
          /\ added.lines[Len(h.lines) + 1] = b
      <4>1. /\ Append(h.lines, b) \in Seq(Blocks)
            /\ Len(Append(h.lines, b)) = Len(h.lines) + 1
            /\ \A i \in 1 .. Len(h.lines) : Append(h.lines, b)[i] = h.lines[i]
            /\ Append(h.lines, b)[Len(h.lines) + 1] = b
        BY <1>1, <2>1, AppendHas
      <4> QED
        BY <3>1, <4>1, Zenon
    <3>3. Len(added.lines) <= TELNETD_NUMLINES
      BY <1>1, <2>7, <3>2, TelnetdAssumption
    <3>4. added \in Heaps
      BY <2>4, <3>1, <3>2, <3>3, MakesHeap
    <3>5. ASSUME Owned(h)
          PROVE  Owned(added)
      <4>1. \A i \in 1 .. Len(added.lines) : i \in 1 .. Len(h.lines) \/ i = Len(h.lines) + 1
        BY <1>1, <3>2
      <4>2. ASSUME NEW i \in 1 .. Len(added.lines)
            PROVE  added.count[added.lines[i]] = 1
        <5>1. CASE i = Len(h.lines) + 1
          BY <2>4, <3>1, <3>2, <5>1
        <5>2. CASE i \in 1 .. Len(h.lines)
          <6>1. added.lines[i] = h.lines[i] /\ h.lines[i] \in Blocks \ {b}
            BY <2>6, <3>2, <3>5, <5>2
          <6>2. h.count[h.lines[i]] = 1
            BY <3>5, <5>2 DEF Owned
          <6> QED
            BY <2>4, <3>1, <6>1, <6>2
        <5> QED
          BY <4>1, <5>1, <5>2
      <4>3. \A i, j \in 1 .. Len(added.lines) : added.lines[i] = added.lines[j] => i = j
        BY <2>6, <3>2, <3>5, <4>1 DEF Owned
      <4> QED
        BY <4>2, <4>3 DEF Owned
    <3>6. ASSUME Owned(h)
          PROVE  Grown(h, added)
      <4>1. Len(h.lines) <= Len(added.lines)
        BY <1>1, <3>2
      <4>2. \A i \in 1 .. Len(h.lines) : added.mem[added.lines[i]] = h.mem[h.lines[i]]
        BY <2>4, <2>6, <3>1, <3>2, <3>6
      <4> QED
        BY <3>2, <4>1, <4>2 DEF Grown
    <3>7. Output(h, text) = added
      BY <2>2, <2>7
    <3> QED
      BY <3>4, <3>5, <3>6, <3>7 DEF Longer
  <2>8. CASE ~(Len(h.lines) < TELNETD_NUMLINES)
    <3> DEFINE freed == MembFree(g, b)
    <3>1. /\ freed \in Heaps /\ freed.lines = g.lines /\ freed.mem = g.mem
          /\ \A c \in Blocks \ {b} : freed.count[c] = g.count[c]
      BY <2>1, <2>5, MembFreeIsHeap
    <3>2. Output(h, text) = freed
      BY <2>2, <2>8
    <3> HIDE DEF freed
    <3>3. ASSUME Owned(h)
          PROVE  Owned(freed) /\ Grown(h, freed)
      <4>1. /\ freed.lines = h.lines
            /\ \A i \in 1 .. Len(h.lines) : /\ freed.count[h.lines[i]] = 1
                                            /\ freed.mem[h.lines[i]] = h.mem[h.lines[i]]
        <5>1. freed.lines = h.lines
          BY <2>3, <3>1
        <5>2. ASSUME NEW i \in 1 .. Len(h.lines)
              PROVE  /\ freed.count[h.lines[i]] = 1
                     /\ freed.mem[h.lines[i]] = h.mem[h.lines[i]]
          <6>1. h.lines[i] \in Blocks \ {b} /\ h.count[h.lines[i]] = 1
            BY <2>6, <3>3 DEF Owned
          <6> QED
            BY <2>4, <3>1, <6>1
        <5> QED
          BY <5>1, <5>2
      <4>2. Owned(freed)
        BY <3>3, <4>1 DEF Owned
      <4>3. Len(h.lines) <= Len(freed.lines)
        BY <1>1, <4>1
      <4> QED
        BY <4>1, <4>2, <4>3 DEF Grown
    <3> QED
      BY <1>1, <2>3, <3>1, <3>2, <3>3 DEF Longer
  <2> QED
    BY <2>7, <2>8
<1> QED
  BY <1>2, <1>3

LEMMA LongerIsTransitive ==
    ASSUME NEW h \in Heaps, NEW g \in Longer(h), NEW k \in Longer(g)
    PROVE  k \in Longer(h)
<1>1. /\ g \in Heaps /\ k \in Heaps /\ Owned(k) /\ Grown(h, g) /\ Grown(g, k)
  BY DEF Longer
<1>2. Len(h.lines) \in Nat /\ Len(g.lines) \in Nat /\ Len(k.lines) \in Nat
  BY <1>1, HeapHas
<1>3. Len(h.lines) <= Len(g.lines) /\ Len(g.lines) <= Len(k.lines)
  BY <1>1 DEF Grown
<1>4. ASSUME NEW i \in 1 .. Len(h.lines)
      PROVE  k.lines[i] = h.lines[i] /\ k.mem[k.lines[i]] = h.mem[h.lines[i]]
  <2>1. i \in 1 .. Len(g.lines)
    BY <1>2, <1>3
  <2> QED
    BY <1>1, <2>1 DEF Grown
<1> QED
  BY <1>1, <1>2, <1>3, <1>4 DEF Longer, Grown

LEMMA IsLongerItself ==
    ASSUME NEW h \in Heaps, Owned(h)
    PROVE  h \in Longer(h)
<1>1. Len(h.lines) \in Nat
  BY HeapHas
<1> QED
  BY <1>1 DEF Longer, Grown

LEMMA OutputsAreHeaps ==
    ASSUME NEW h \in Heaps, NEW texts \in Seq(Texts)
    PROVE  Outputs(h, texts) \in Heaps /\ (Owned(h) => Outputs(h, texts) \in Longer(h))
<1>1. Outputs(h, texts) \in Heaps
  <2>1. \A x \in Heaps, t \in Texts : Output(x, t) \in Heaps
    BY OutputIsHeap
  <2>2. Printed!Folded(0, h, texts) \in Heaps
    BY <2>1, Printed!FoldLeftStays, Zenon
  <2> QED
    BY <2>2, OutputsFolds, Zenon
<1>2. ASSUME Owned(h)
      PROVE  Outputs(h, texts) \in Longer(h)
  <2>1. h \in Longer(h)
    BY <1>2, IsLongerItself
  <2>2. ASSUME NEW x \in Longer(h), NEW t \in Texts
        PROVE  Output(x, t) \in Longer(h)
    <3>1. x \in Heaps /\ Owned(x)
      BY DEF Longer
    <3>2. Output(x, t) \in Longer(x)
      BY <3>1, OutputIsHeap
    <3> QED
      BY <3>2, LongerIsTransitive
  <2>3. Printed!Folded(0, h, texts) \in Longer(h)
    BY <2>1, <2>2, Printed!FoldLeftStays, Zenon
  <2> QED
    BY <2>3, OutputsFolds, Zenon
<1> QED
  BY <1>1, <1>2

LEMMA FreedAreFree ==
    ASSUME NEW h \in Heaps, NEW E \in SUBSET Blocks, NEW bs \in Seq(E)
    PROVE  LET g == FoldLeft(MembFree, h, bs)
           IN  /\ g \in Heaps /\ g.lines = h.lines /\ g.mem = h.mem
               /\ \A c \in Blocks \ E : g.count[c] = h.count[c]
<1> DEFINE S == {g \in Heaps : /\ g.lines = h.lines /\ g.mem = h.mem
                               /\ \A c \in Blocks \ E : g.count[c] = h.count[c]}
<1>1. h \in S
  OBVIOUS
<1>2. ASSUME NEW x \in S, NEW b \in E
      PROVE  MembFree(x, b) \in S
  <2>1. /\ MembFree(x, b) \in Heaps
        /\ MembFree(x, b).lines = x.lines /\ MembFree(x, b).mem = x.mem
        /\ \A c \in Blocks \ {b} : MembFree(x, b).count[c] = x.count[c]
    BY MembFreeIsHeap
  <2> QED
    BY <2>1
<1> HIDE DEF S
<1>3. Freed!Folded(0, h, bs) \in S
  BY <1>1, <1>2, Freed!FoldLeftStays, Zenon
<1>4. FoldLeft(MembFree, h, bs) \in S
  BY <1>3, FreeFolds, Zenon
<1> QED
  BY <1>4, Zenon DEF S

LEMMA ClosedIsHeap ==
    ASSUME NEW h \in Heaps
    PROVE  Closed(h) \in Heaps /\ Closed(h).lines = h.lines
<1>1. h.lines \in Seq(Blocks) /\ Blocks \in SUBSET Blocks
  BY HeapHas
<1> QED
  BY <1>1, FreedAreFree, Zenon DEF Closed

\* What follows the first n elements.
LEMMA RestHas ==
    ASSUME NEW S, NEW s \in Seq(S), NEW n \in 0 .. Len(s)
    PROVE  /\ SubSeq(s, n + 1, Len(s)) \in Seq(S)
           /\ Len(SubSeq(s, n + 1, Len(s))) = Len(s) - n
           /\ \A i \in 1 .. Len(s) - n : SubSeq(s, n + 1, Len(s))[i] = s[n + i]
           /\ SubSeq(s, 1, n) \in Seq(S)
           /\ Len(SubSeq(s, 1, n)) = n
           /\ \A i \in 1 .. n : SubSeq(s, 1, n)[i] = s[i]
<1>0. Len(s) \in Nat /\ n \in Nat /\ n <= Len(s)
  OBVIOUS
<1>1. /\ n + 1 \in 1 .. Len(s) + 1 /\ Len(s) \in (n + 1) - 1 .. Len(s)
      /\ 1 \in 1 .. Len(s) + 1 /\ n \in 1 - 1 .. Len(s)
  BY <1>0
<1>2. /\ SubSeq(s, n + 1, Len(s)) \in Seq(S)
      /\ Len(SubSeq(s, n + 1, Len(s))) = Len(s) - (n + 1) + 1
      /\ \A i \in 1 .. Len(s) - (n + 1) + 1 : SubSeq(s, n + 1, Len(s))[i] = s[(n + 1) + i - 1]
  BY <1>1, SubSeqProperties
<1>3. /\ SubSeq(s, 1, n) \in Seq(S) /\ Len(SubSeq(s, 1, n)) = n - 1 + 1
      /\ \A i \in 1 .. n - 1 + 1 : SubSeq(s, 1, n)[i] = s[1 + i - 1]
  BY <1>1, SubSeqProperties
<1>4. Len(s) - (n + 1) + 1 = Len(s) - n /\ n - 1 + 1 = n
  BY <1>0
<1>5. \A i \in 1 .. Len(s) - n : (n + 1) + i - 1 = n + i
  BY <1>0
<1>6. \A i \in 1 .. n : 1 + i - 1 = i
  BY <1>0
<1> QED
  BY <1>2, <1>3, <1>4, <1>5, <1>6

LEMMA AckedIsHeap ==
    ASSUME NEW h \in Heaps, NEW n \in 0 .. Len(h.lines)
    PROVE  Acked(h, n) \in Heaps /\ (Owned(h) => Owned(Acked(h, n)))
<1>1. /\ h.lines \in Seq(Blocks) /\ Len(h.lines) \in Nat /\ n \in Nat /\ n <= Len(h.lines)
  BY HeapHas
<1> DEFINE first == SubSeq(h.lines, 1, n)
           rest == SubSeq(h.lines, n + 1, Len(h.lines))
           E == {h.lines[i] : i \in 1 .. n}
           g == FoldLeft(MembFree, h, first)
           acked == [g EXCEPT !.lines = rest]
<1>2. /\ rest \in Seq(Blocks) /\ Len(rest) = Len(h.lines) - n
      /\ \A i \in 1 .. Len(h.lines) - n : rest[i] = h.lines[n + i]
      /\ first \in Seq(Blocks) /\ Len(first) = n
      /\ \A i \in 1 .. n : first[i] = h.lines[i]
  BY <1>1, RestHas
<1>3. E \in SUBSET Blocks
  <2>1. \A i \in 1 .. n : h.lines[i] \in Blocks
    BY <1>1, ElementOfSeq
  <2> QED
    BY <2>1
<1>4. first \in Seq(E)
  <2>1. \A i \in 1 .. n : first[i] \in E
    BY <1>2
  <2> HIDE DEF first, E
  <2> QED
    BY <1>1, <1>2, <2>1, SeqDef
<1> HIDE DEF first, rest
<1>5. /\ g \in Heaps /\ g.lines = h.lines /\ g.mem = h.mem
      /\ \A c \in Blocks \ E : g.count[c] = h.count[c]
  <2> HIDE DEF E
  <2> QED
    BY <1>3, <1>4, FreedAreFree
<1> HIDE DEF g
<1>6. Acked(h, n) = acked
  <2>1. g.lines = h.lines
    BY <1>5
  <2>2. Acked(h, n) = [g EXCEPT !.lines = SubSeq(g.lines, n + 1, Len(g.lines))]
    BY Zenon DEF Acked, g, first
  <2> QED
    BY <2>1, <2>2, Zenon DEF rest
<1>7. /\ g = [f \in HeapFields |-> g[f]] /\ g.count \in [Blocks -> 0 .. 1]
      /\ g.mem \in [Blocks -> Texts] /\ Len(g.lines) <= TELNETD_NUMLINES
  BY <1>5, HeapHas
<1>8. /\ acked = [f \in HeapFields |-> acked[f]] /\ acked.lines = rest
      /\ acked.count = g.count /\ acked.mem = g.mem
  BY <1>7 DEF HeapFields
<1> HIDE DEF acked
<1>9. Len(rest) <= TELNETD_NUMLINES
  BY <1>1, <1>2, <1>5, <1>7, TelnetdAssumption
<1>10. acked \in Heaps
  BY <1>2, <1>7, <1>8, <1>9, MakesHeap
<1>11. ASSUME Owned(h)
       PROVE  Owned(acked)
  <2>1. ASSUME NEW i \in 1 .. Len(rest)
        PROVE  rest[i] \in Blocks \ E /\ h.count[rest[i]] = 1 /\ rest[i] = h.lines[n + i]
    <3>1. n + i \in 1 .. Len(h.lines) /\ \A j \in 1 .. n : j \in 1 .. Len(h.lines) /\ j # n + i
      BY <1>1, <1>2
    <3>2. rest[i] = h.lines[n + i]
      BY <1>2
    <3>3. h.lines[n + i] \in Blocks /\ h.count[h.lines[n + i]] = 1
      BY <1>1, <1>11, <3>1, ElementOfSeq DEF Owned
    <3>4. \A j \in 1 .. n : h.lines[j] # h.lines[n + i]
      BY <1>11, <3>1 DEF Owned
    <3> QED
      BY <3>2, <3>3, <3>4
  <2>2. ASSUME NEW i \in 1 .. Len(rest)
        PROVE  acked.count[rest[i]] = 1
    BY <1>5, <1>8, <2>1
  <2>3. ASSUME NEW i \in 1 .. Len(rest), NEW j \in 1 .. Len(rest), rest[i] = rest[j]
        PROVE  i = j
    <3>1. h.lines[n + i] = h.lines[n + j]
      BY <2>1, <2>3
    <3>2. n + i \in 1 .. Len(h.lines) /\ n + j \in 1 .. Len(h.lines)
      BY <1>1, <1>2
    <3>3. n + i = n + j
      BY <1>11, <3>1, <3>2 DEF Owned
    <3> QED
      BY <1>1, <1>2, <3>3
  <2> QED
    BY <1>8, <2>2, <2>3 DEF Owned
<1> QED
  BY <1>6, <1>10, <1>11

LEMMA TelHas ==
    ASSUME NEW t \in Tels
    PROVE  /\ t.state \in TelStates /\ t.bufptr \in 0 .. TELNETD_LINELEN - 1
           /\ t.numsent \in 0 .. AppMss - 1
           /\ \A s \in TelStates : [t EXCEPT !.state = s] \in Tels
           /\ \A p \in 0 .. TELNETD_LINELEN - 1 : [t EXCEPT !.bufptr = p] \in Tels
           /\ \A n \in 0 .. AppMss - 1 : [t EXCEPT !.numsent = n] \in Tels
BY DEF Tels

TelPairs == [tel : Tels, heap : Heaps]

LEMMA MakesPair ==
    ASSUME NEW t \in Tels, NEW h \in Heaps
    PROVE  [tel |-> t, heap |-> h] \in TelPairs
BY DEF TelPairs

LEMMA PairHas ==
    ASSUME NEW i \in TelPairs
    PROVE  /\ i.tel \in Tels /\ i.heap \in Heaps /\ i = [tel |-> i.tel, heap |-> i.heap]
BY DEF TelPairs

\* What the input can make of the parser and the queue: the queue stays right, and
\* grows at its end only.
Reaches(i) == {k \in TelPairs : Owned(i.heap) => k.heap \in Longer(i.heap)}

LEMMA ReachesItself ==
    ASSUME NEW i \in TelPairs, NEW t \in Tels
    PROVE  [tel |-> t, heap |-> i.heap] \in Reaches(i)
<1> DEFINE k == [tel |-> t, heap |-> i.heap]
<1>1. i.heap \in Heaps
  BY PairHas
<1>2. k \in TelPairs /\ k.heap = i.heap
  BY <1>1, MakesPair
<1>3. Owned(i.heap) => i.heap \in Longer(i.heap)
  BY <1>1, IsLongerItself
<1> HIDE DEF k
<1>4. k \in Reaches(i)
  BY <1>2, <1>3 DEF Reaches
<1> QED
  BY <1>4 DEF k

LEMMA ReachesFurther ==
    ASSUME NEW i \in TelPairs, NEW k \in Reaches(i), NEW m \in Reaches(k)
    PROVE  m \in Reaches(i)
<1>1. k \in TelPairs /\ m \in TelPairs /\ i.heap \in Heaps
  BY PairHas DEF Reaches
<1>2. ASSUME Owned(i.heap)
      PROVE  m.heap \in Longer(i.heap)
  <2>1. k.heap \in Longer(i.heap)
    BY <1>2 DEF Reaches
  <2>2. Owned(k.heap)
    BY <2>1 DEF Longer
  <2>3. m.heap \in Longer(k.heap)
    BY <2>2 DEF Reaches
  <2> QED
    BY <1>1, <2>1, <2>3, LongerIsTransitive
<1> QED
  BY <1>1, <1>2 DEF Reaches

LEMMA ShellInputIsText ==
    ASSUME NEW command
    PROVE  ShellInput(command) \in Seq(Texts) /\ ShellStart \in Seq(Texts)
<1>1. "shell" \in Texts /\ "prompt" \in Texts
  BY DEF Texts
<1>2. /\ <<"shell", "shell", "shell", "shell", "shell", "prompt">> \in Seq(Texts)
      /\ <<"prompt">> \in Seq(Texts) /\ <<"shell", "prompt">> \in Seq(Texts)
      /\ <<"shell", "shell", "prompt">> \in Seq(Texts)
  BY <1>1
<1>3. ShellInput(command) \in Seq(Texts)
  BY <1>2, Zenon DEF ShellInput
<1> QED
  BY <1>2, <1>3 DEF ShellStart

LEMMA GetCharReaches ==
    ASSUME NEW i \in TelPairs, NEW c \in Chars
    PROVE  GetChar(i, c) \in Reaches(i)
<1>0. i.tel \in Tels /\ i.heap \in Heaps /\ i = [tel |-> i.tel, heap |-> i.heap]
  BY PairHas
<1>1. CASE c = "cr"
  <2>1. GetChar(i, c) = i
    BY <1>1 DEF GetChar
  <2> QED
    BY <1>0, <2>1, ReachesItself
<1>2. CASE c # "cr" /\ (c \in EndsOfLine \/ BufferFull(i.tel))
  <2> DEFINE command == IF c \in EndsOfLine /\ i.tel.bufptr > 0 THEN c ELSE "other"
             s == IF command = "exit" THEN "CLOSE" ELSE i.tel.state
             t == [i.tel EXCEPT !.bufptr = 0, !.state = s]
             h == Outputs(i.heap, ShellInput(command))
             k == [tel |-> t, heap |-> h]
  <2>1. GetChar(i, c) = k
    BY <1>2, Zenon DEF GetChar
  <2>2. s \in TelStates
    BY <1>0, TelHas DEF TelStates
  <2> HIDE DEF s
  <2>3. t \in Tels
    <3>1. 0 \in 0 .. TELNETD_LINELEN - 1
      BY TelnetdAssumption
    <3> QED
      BY <1>0, <2>2, <3>1 DEF Tels
  <2> HIDE DEF command, t
  <2>4. h \in Heaps /\ (Owned(i.heap) => h \in Longer(i.heap))
    BY <1>0, ShellInputIsText, OutputsAreHeaps
  <2> HIDE DEF h
  <2>5. k \in TelPairs /\ k.heap = h
    BY <2>3, <2>4, MakesPair
  <2> HIDE DEF k
  <2> QED
    BY <2>1, <2>4, <2>5 DEF Reaches
<1>3. CASE c # "cr" /\ ~(c \in EndsOfLine \/ BufferFull(i.tel))
  <2> DEFINE t == [i.tel EXCEPT !.bufptr = i.tel.bufptr + 1]
  <2>1. i.tel.bufptr + 1 \in 0 .. TELNETD_LINELEN - 1
    <3>1. i.tel.bufptr \in 0 .. TELNETD_LINELEN - 1 /\ i.tel.bufptr # TELNETD_LINELEN - 1
      BY <1>0, <1>3, TelHas DEF BufferFull
    <3> QED
      BY <3>1, TelnetdAssumption
  <2>2. t \in Tels
    BY <1>0, <2>1, TelHas
  <2>3. GetChar(i, c) = [tel |-> t, heap |-> i.heap]
    <3>1. GetChar(i, c) = [i EXCEPT !.tel.bufptr = @ + 1]
      BY <1>3 DEF GetChar
    <3> QED
      BY <1>0, <3>1
  <2> HIDE DEF t
  <2> QED
    BY <2>2, <2>3, ReachesItself
<1> QED
  BY <1>1, <1>2, <1>3

LEMMA NewCharReaches ==
    ASSUME NEW i \in TelPairs, NEW c \in Chars
    PROVE  NewChar(i, c) \in Reaches(i)
<1>0. /\ i.tel \in Tels /\ i.heap \in Heaps /\ i = [tel |-> i.tel, heap |-> i.heap]
      /\ i.tel.state \in TelStates
  BY PairHas, TelHas
<1>1. \A s \in TelStates : [i EXCEPT !.tel.state = s] \in Reaches(i)
  <2> TAKE s \in TelStates
  <2> DEFINE t == [i.tel EXCEPT !.state = s]
  <2>1. t \in Tels
    BY <1>0, TelHas
  <2>2. [i EXCEPT !.tel.state = s] = [tel |-> t, heap |-> i.heap]
    BY <1>0
  <2> HIDE DEF t
  <2> QED
    BY <2>1, <2>2, ReachesItself
<1>2. \A k \in Reaches(i) : [k EXCEPT !.tel.state = "NORMAL"] \in Reaches(i)
  <2> TAKE k \in Reaches(i)
  <2>1. k \in TelPairs
    BY DEF Reaches
  <2>2. k.tel \in Tels /\ k.heap \in Heaps /\ k = [tel |-> k.tel, heap |-> k.heap]
    BY <2>1, PairHas
  <2> DEFINE t == [k.tel EXCEPT !.state = "NORMAL"]
  <2>3. t \in Tels
    BY <2>2, TelHas DEF TelStates
  <2>4. [k EXCEPT !.tel.state = "NORMAL"] = [tel |-> t, heap |-> k.heap]
    BY <2>2
  <2> HIDE DEF t
  <2>5. [tel |-> t, heap |-> k.heap] \in Reaches(k)
    BY <2>1, <2>3, ReachesItself
  <2> QED
    BY <2>1, <2>4, <2>5, ReachesFurther
<1>3. GetChar(i, c) \in Reaches(i) /\ i \in Reaches(i)
  BY <1>0, GetCharReaches, ReachesItself
<1>4. "IAC" \in TelStates /\ "NORMAL" \in TelStates /\ \A v \in Verbs : v \in TelStates
  BY DEF TelStates
<1>5. CASE i.tel.state = "CLOSE"
  <2>1. NewChar(i, c) = i
    BY <1>5 DEF NewChar, Verbs
  <2> QED
    BY <1>3, <2>1
<1>6. CASE i.tel.state = "NORMAL"
  <2>1. NewChar(i, c) = IF c = "IAC" THEN [i EXCEPT !.tel.state = "IAC"] ELSE GetChar(i, c)
    BY <1>6 DEF NewChar, Verbs
  <2> QED
    BY <1>1, <1>3, <1>4, <2>1
<1>7. CASE i.tel.state = "IAC"
  <2>1. CASE c = "IAC"
    <3>1. NewChar(i, c) = [GetChar(i, c) EXCEPT !.tel.state = "NORMAL"]
      BY <1>7, <2>1 DEF NewChar, Verbs
    <3> QED
      BY <1>2, <1>3, <3>1
  <2>2. CASE c \in Verbs /\ c # "IAC"
    <3>1. NewChar(i, c) = [i EXCEPT !.tel.state = c]
      BY <1>7, <2>2 DEF NewChar, Verbs
    <3> QED
      BY <1>1, <1>4, <2>2, <3>1
  <2>3. CASE c \notin Verbs \cup {"IAC"}
    <3>1. NewChar(i, c) = [i EXCEPT !.tel.state = "NORMAL"]
      BY <1>7, <2>3 DEF NewChar, Verbs
    <3> QED
      BY <1>1, <1>4, <3>1
  <2> QED
    BY <2>1, <2>2, <2>3
<1>8. CASE i.tel.state \in Verbs
  <2> DEFINE t == [i.tel EXCEPT !.state = "NORMAL"]
             h == Output(i.heap, "option")
             k == [tel |-> t, heap |-> h]
  <2>1. NewChar(i, c) = [i EXCEPT !.heap = h, !.tel.state = "NORMAL"]
    BY <1>8 DEF NewChar, Verbs
  <2>2. NewChar(i, c) = k
    BY <1>0, <2>1
  <2>3. t \in Tels
    BY <1>0, <1>4, TelHas
  <2> HIDE DEF t
  <2>4. h \in Heaps /\ (Owned(i.heap) => h \in Longer(i.heap))
    <3>1. "option" \in Texts
      BY DEF Texts
    <3> QED
      BY <1>0, <3>1, OutputIsHeap
  <2> HIDE DEF h
  <2>5. k \in TelPairs /\ k.heap = h
    BY <2>3, <2>4, MakesPair
  <2> HIDE DEF k
  <2> QED
    BY <2>2, <2>4, <2>5 DEF Reaches
<1> QED
  BY <1>0, <1>5, <1>6, <1>7, <1>8 DEF TelStates

LEMMA ReadCharsReaches ==
    ASSUME NEW i \in TelPairs, NEW data \in Seq(Chars)
    PROVE  ReadChars(i, data) \in Reaches(i) /\ (data = <<>> => ReadChars(i, data) = i)
<1>1. i \in Reaches(i)
  BY PairHas, ReachesItself
<1>2. ASSUME NEW k \in Reaches(i), NEW c \in Chars
      PROVE  NewChar(k, c) \in Reaches(i)
  <2>1. k \in TelPairs
    BY DEF Reaches
  <2> QED
    BY <2>1, NewCharReaches, ReachesFurther
<1>3. Scanned!Folded(0, i, data) \in Reaches(i)
  BY <1>1, <1>2, Scanned!FoldLeftStays, Zenon
<1>4. ASSUME data = <<>>
      PROVE  Scanned!Folded(0, i, data) = i
  <2> DEFINE S == {i}
             E == {}
  <2>1. data \in Seq(E) /\ i \in S /\ \A x \in S, c \in E : NewChar(x, c) \in S
    BY <1>4
  <2> HIDE DEF S, E
  <2>2. Scanned!Folded(0, i, data) \in S
    BY <2>1, Scanned!FoldLeftStays, Zenon
  <2> QED
    BY <2>2 DEF S
<1> QED
  BY <1>3, <1>4, ReadFolds, Zenon

LEMMA NumSentHas ==
    ASSUME NEW h \in Heaps
    PROVE  /\ NumSent(h) \in 0 .. AppMss - 1 /\ NumSent(h) \in 0 .. Len(h.lines)
           /\ Content(h, NumSent(h)) \in Seq(Texts)
           /\ Len(Content(h, NumSent(h))) = NumSent(h)
           /\ \A i \in 1 .. NumSent(h) : Content(h, NumSent(h))[i] = h.mem[h.lines[i]]
<1>1. /\ h.lines \in Seq(Blocks) /\ Len(h.lines) \in Nat /\ h.mem \in [Blocks -> Texts]
      /\ AppMss \in Nat /\ AppMss > 1
  BY HeapHas, AppAssumption
<1>2. NumSent(h) \in 0 .. AppMss - 1 /\ NumSent(h) \in 0 .. Len(h.lines)
  BY <1>1 DEF NumSent
<1> DEFINE n == NumSent(h)
<1>3. n \in Nat /\ n <= Len(h.lines)
  BY <1>1, <1>2
<1> HIDE DEF n
<1>4. ASSUME NEW i \in 1 .. n
      PROVE  h.mem[h.lines[i]] \in Texts
  <2>1. h.lines[i] \in Blocks
    BY <1>1, <1>3, ElementOfSeq
  <2> QED
    BY <1>1, <2>1
<1>5. /\ Content(h, n) \in Seq(Texts) /\ Len(Content(h, n)) = n
      /\ \A i \in 1 .. n : Content(h, n)[i] = h.mem[h.lines[i]]
  BY <1>3, <1>4 DEF Content
<1> QED
  BY <1>2, <1>5 DEF n

\* What is outstanding is the front of the queue.
FrontIsSent ==
    link.len > 0 =>
        /\ link.len <= NumSent(heap)
        /\ \A i \in 1 .. link.len : link.sent[i] = heap.mem[heap.lines[i]]

TelInv ==
    /\ tel \in Tels /\ heap \in Heaps /\ tel.numsent <= Len(heap.lines)
    /\ link \in Links(Texts) /\ OpenIfOutstanding(link)
    /\ link.state = "open" => Owned(heap)
    /\ FrontIsSent
    /\ RexmitIsSame

\* The queue and the parser after an event.
LEMMA AfterEventHas ==
    ASSUME TelInv, NEW e \in Events(Inputs), Happens(e)
    PROVE  /\ AfterEvent(e) \in TelPairs
           /\ ~EndsIt(e) /\ (link.state = "open" \/ e.kind = "connected") =>
                 Owned(AfterEvent(e).heap)
           /\ link.len > 0 /\ ~e.acks /\ e.kind # "connected" /\ ~EndsIt(e) =>
                 AfterEvent(e).heap \in Longer(heap)
           /\ EndsIt(e) /\ ~e.acks /\ ~Newdata(e) =>
                 /\ AfterEvent(e).tel = tel
                 /\ AfterEvent(e).heap.lines = heap.lines
<1>0. /\ e.kind \in Kinds /\ e.acks \in BOOLEAN /\ e.data \in Inputs \cup {<<>>}
      /\ e.kind \notin {"input", "closed"} => ~e.acks
  BY EventHas
<1>1. e.data \in Seq(Chars)
  <2>1. \A n \in 1 .. MaxInput : [1 .. n -> Chars] \subseteq Seq(Chars)
    BY SeqDef
  <2>2. <<>> \in Seq(Chars)
    OBVIOUS
  <2> QED
    BY <1>0, <2>1, <2>2 DEF Inputs
<1>2. /\ tel \in Tels /\ heap \in Heaps /\ tel.numsent <= Len(heap.lines)
      /\ tel.numsent \in 0 .. AppMss - 1 /\ Len(heap.lines) \in Nat
      /\ link \in Links(Texts) /\ OpenIfOutstanding(link)
  BY TelHas, HeapHas DEF TelInv
<1> DEFINE i == [tel |-> tel, heap |-> heap]
           c == IF EndsIt(e) THEN [tel |-> tel, heap |-> Closed(heap)] ELSE i
           now == [tel |-> [c.tel EXCEPT !.numsent = 0], heap |-> Acked(c.heap, c.tel.numsent)]
           a == IF e.acks THEN now ELSE c
           before == IF e.kind = "connected" THEN Started(i) ELSE a
<1>3. AfterEvent(e) = ReadChars(before, e.data)
  <2>1. [i EXCEPT !.heap = Closed(@)] = [tel |-> tel, heap |-> Closed(heap)]
    OBVIOUS
  <2> QED
    BY <2>1, Zenon DEF AfterEvent
<1>4. /\ c.tel = tel /\ c.heap \in Heaps /\ c.heap.lines = heap.lines /\ c \in TelPairs
      /\ ~EndsIt(e) => c.heap = heap
  <2>1. /\ Closed(heap) \in Heaps /\ Closed(heap).lines = heap.lines
    BY <1>2, ClosedIsHeap
  <2>2. CASE EndsIt(e)
    BY <1>2, <2>1, <2>2, MakesPair
  <2>3. CASE ~EndsIt(e)
    BY <1>2, <2>3, MakesPair
  <2> QED
    BY <2>2, <2>3
<1> HIDE DEF c
<1>5. /\ now \in TelPairs /\ (Owned(c.heap) => Owned(now.heap))
  <2>1. tel.numsent \in 0 .. Len(c.heap.lines)
    BY <1>2, <1>4
  <2>2. Acked(c.heap, tel.numsent) \in Heaps
        /\ (Owned(c.heap) => Owned(Acked(c.heap, tel.numsent)))
    BY <1>4, <2>1, AckedIsHeap
  <2>3. [tel EXCEPT !.numsent = 0] \in Tels
    BY <1>2, AppAssumption, TelHas
  <2> QED
    BY <1>4, <2>2, <2>3, MakesPair
<1> HIDE DEF now
<1>6. /\ Started(i) \in TelPairs /\ Owned(Started(i).heap)
  <2> DEFINE empty == [heap EXCEPT !.lines = <<>>]
             t == [tel EXCEPT !.state = "NORMAL", !.bufptr = 0]
  <2>1. empty \in Heaps /\ Owned(empty)
    <3>1. /\ heap = [f \in HeapFields |-> heap[f]]
          /\ heap.count \in [Blocks -> 0 .. 1] /\ heap.mem \in [Blocks -> Texts]
      BY <1>2, HeapHas
    <3>2. /\ empty = [f \in HeapFields |-> empty[f]] /\ empty.lines = <<>>
          /\ empty.count = heap.count /\ empty.mem = heap.mem
      BY <3>1 DEF HeapFields
    <3> HIDE DEF empty
    <3>3. <<>> \in Seq(Blocks) /\ Len(<<>>) = 0 /\ 1 .. 0 = {}
      OBVIOUS
    <3>4. empty \in Heaps
      <4>1. Len(empty.lines) <= TELNETD_NUMLINES
        BY <3>2, <3>3, TelnetdAssumption
      <4> QED
        BY <3>1, <3>2, <3>3, <4>1, MakesHeap
    <3>5. Owned(empty)
      BY <3>2, <3>3 DEF Owned
    <3> QED
      BY <3>4, <3>5
  <2>2. t \in Tels
    <3>1. "NORMAL" \in TelStates /\ 0 \in 0 .. TELNETD_LINELEN - 1
      BY TelnetdAssumption DEF TelStates
    <3> QED
      BY <1>2, <3>1 DEF Tels
  <2>3. Outputs(empty, ShellStart) \in Heaps /\ Outputs(empty, ShellStart) \in Longer(empty)
    BY <2>1, ShellInputIsText, OutputsAreHeaps
  <2>4. Started(i) = [tel |-> t, heap |-> Outputs(empty, ShellStart)]
    BY DEF Started
  <2> HIDE DEF empty, t
  <2> QED
    BY <2>2, <2>3, <2>4, MakesPair DEF Longer
<1>7. /\ a \in TelPairs /\ (Owned(c.heap) => Owned(a.heap))
      /\ ~e.acks => a = c
  BY <1>0, <1>4, <1>5
<1> HIDE DEF a
<1>8. /\ before \in TelPairs
      /\ e.kind = "connected" => Owned(before.heap)
      /\ e.kind # "connected" => before = a
  BY <1>6, <1>7
<1> HIDE DEF before, i
<1>9. /\ AfterEvent(e) \in TelPairs
      /\ Owned(before.heap) => AfterEvent(e).heap \in Longer(before.heap)
      /\ e.data = <<>> => AfterEvent(e) = before
  BY <1>1, <1>3, <1>8, ReadCharsReaches DEF Reaches
<1>10. ASSUME ~EndsIt(e), link.state = "open" \/ e.kind = "connected"
       PROVE  Owned(before.heap)
  <2>1. link.state = "open" => Owned(heap)
    BY DEF TelInv
  <2> QED
    BY <1>4, <1>7, <1>8, <1>10, <2>1
<1>11. ~EndsIt(e) /\ (link.state = "open" \/ e.kind = "connected") => Owned(AfterEvent(e).heap)
  BY <1>9, <1>10 DEF Longer
<1>12. ASSUME link.len > 0, ~e.acks, e.kind # "connected", ~EndsIt(e)
       PROVE  AfterEvent(e).heap \in Longer(heap)
  <2>1. link.state = "open"
    BY <1>2, <1>12 DEF OpenIfOutstanding
  <2>2. before.heap = heap
    BY <1>4, <1>7, <1>8, <1>12
  <2> QED
    BY <1>9, <1>10, <1>12, <2>1, <2>2
<1>13. ASSUME EndsIt(e), ~e.acks, ~Newdata(e)
       PROVE  AfterEvent(e).tel = tel /\ AfterEvent(e).heap.lines = heap.lines
  <2>1. e.kind # "connected" /\ e.data = <<>>
    BY <1>13 DEF EndsIt, Newdata
  <2> QED
    BY <1>4, <1>7, <1>8, <1>9, <1>13, <2>1
<1> QED
  BY <1>9, <1>11, <1>12, <1>13

\* What is sent again is what was sent.
LEMMA SentAgain ==
    ASSUME TelInv, link.len > 0, NEW g \in Longer(heap)
    PROVE  /\ Cut(Content(g, NumSent(g)), link.len) = link.sent
           /\ link.len <= NumSent(g)
           /\ \A i \in 1 .. link.len : link.sent[i] = g.mem[g.lines[i]]
<1> DEFINE n == NumSent(heap)
           m == NumSent(g)
           data == Content(g, m)
           cut == Cut(data, link.len)
<1>1. /\ heap \in Heaps /\ g \in Heaps /\ Grown(heap, g)
      /\ link.len \in Nat /\ link.sent \in Seq(Texts) /\ Len(link.sent) = link.len
      /\ link.len <= n /\ \A i \in 1 .. link.len : link.sent[i] = heap.mem[heap.lines[i]]
  BY LinkHas DEF TelInv, FrontIsSent, OpenIfOutstanding, Longer
<1>2. Len(heap.lines) \in Nat /\ Len(g.lines) \in Nat /\ Len(heap.lines) <= Len(g.lines)
  BY <1>1, HeapHas DEF Grown
<1>3. n \in 0 .. Len(heap.lines) /\ n <= m
  <2>1. n \in 0 .. Len(heap.lines)
    BY <1>1, NumSentHas
  <2>2. n <= m
    BY <1>2, AppAssumption DEF NumSent
  <2> QED
    BY <2>1, <2>2
<1>4. /\ m \in 0 .. Len(g.lines) /\ data \in Seq(Texts) /\ Len(data) = m
      /\ \A i \in 1 .. m : data[i] = g.mem[g.lines[i]]
  BY <1>1, NumSentHas
<1> HIDE DEF n, m, data
<1>5. ASSUME NEW i \in 1 .. link.len
      PROVE  /\ link.sent[i] = g.mem[g.lines[i]] /\ data[i] = link.sent[i]
  <2>1. i \in 1 .. Len(heap.lines) /\ i \in 1 .. m
    BY <1>1, <1>2, <1>3, <1>4
  <2>2. g.mem[g.lines[i]] = heap.mem[heap.lines[i]]
    BY <1>1, <2>1 DEF Grown
  <2> QED
    BY <1>1, <1>4, <2>1, <2>2
<1>6. link.len <= m
  BY <1>1, <1>2, <1>3, <1>4
<1>7. /\ cut \in Seq(Texts) /\ \A i \in 1 .. Len(cut) : cut[i] = data[i]
      /\ Len(cut) = IF Len(data) <= link.len THEN Len(data) ELSE link.len
  BY <1>1, <1>4, CutIsFront
<1> HIDE DEF cut
<1>8. Len(cut) = link.len
  BY <1>1, <1>4, <1>6, <1>7
<1>9. \A i \in 1 .. Len(cut) : cut[i] = link.sent[i]
  BY <1>5, <1>7, <1>8
<1>10. cut = link.sent
  BY <1>1, <1>7, <1>8, <1>9, SeqEqual
<1> QED
  BY <1>5, <1>6, <1>10 DEF cut, data, m

\* What is sent for the first time.
LEMMA SentFirst ==
    ASSUME NEW g \in Heaps
    PROVE  Cut(Content(g, NumSent(g)), AppMss) = Content(g, NumSent(g))
<1>1. NumSent(g) \in 0 .. AppMss - 1 /\ Len(Content(g, NumSent(g))) = NumSent(g)
  BY NumSentHas
<1> QED
  BY <1>1, AppAssumption DEF Cut

LEMMA CutNothing ==
    ASSUME NEW n \in Nat
    PROVE  Cut(<<>>, n) = <<>>
BY DEF Cut

LEMMA QuitKeeps ==
    ASSUME TelInv, NEW e \in Events(Inputs), Happens(e), e.kind # "connected", Quit(e)
    PROVE  TelInv'
<1>1. /\ tel \in Tels /\ heap \in Heaps /\ tel.numsent <= Len(heap.lines)
      /\ link \in Links(Texts) /\ OpenIfOutstanding(link) /\ CanHappen(link, e)
      /\ link.len \in Nat
  BY LinkHas DEF TelInv, Happens
<1>2. /\ tel' = [tel EXCEPT !.state = "NORMAL"] /\ heap' = heap
      /\ link' = After(link, e, Close).link /\ wire' = After(link, e, Close).wire
  BY DEF Quit, Answered
<1>3. /\ Close \in AnswersOf(Texts) /\ Close.data = <<>> /\ Close.close
  <2>1. <<>> \in Seq(Texts)
    OBVIOUS
  <2> QED
    BY <2>1, AnswersHave DEF Close
<1>4. Cut(Close.data, link.len) = <<>> /\ Cut(Close.data, AppMss) = <<>>
  BY <1>1, <1>3, CutNothing, AppAssumption
<1> DEFINE after == After(link, e, Close)
<1>5. /\ Kept(Texts, after) /\ OpenBecause(link, e, Close, after)
      /\ OutstandingBecause(link, e, Close, after)
  BY <1>1, <1>3, <1>4, AfterIsKept
<1>6. link' = after.link /\ wire' = after.wire
  BY <1>2
<1> HIDE DEF after
<1>7. tel' \in Tels /\ heap' \in Heaps /\ tel'.numsent = tel.numsent
  BY <1>1, <1>2 DEF Tels, TelStates
<1>8. link'.state = "open" => Owned(heap')
  <2>1. link'.state = "open" => link.state = "open"
    BY <1>3, <1>5, <1>6 DEF OpenBecause
  <2> QED
    BY <1>2, <2>1 DEF TelInv
<1>9. ASSUME link'.len > 0
      PROVE  link.len > 0 /\ link'.len = link.len /\ link'.sent = link.sent
  <2>1. ~(link'.len = Len(<<>>))
    BY <1>9
  <2> QED
    BY <1>4, <1>5, <1>6, <1>9, <2>1 DEF OutstandingBecause
<1>10. FrontIsSent'
  BY <1>2, <1>9 DEF FrontIsSent, TelInv
<1>11. RexmitIsSame'
  BY <1>5, <1>6 DEF RexmitIsSame, Kept
<1>12. link' \in Links(Texts) /\ OpenIfOutstanding(link')
  BY <1>5, <1>6 DEF Kept
<1> QED
  BY <1>1, <1>2, <1>7, <1>8, <1>10, <1>11, <1>12 DEF TelInv

LEMMA SendDataKeeps ==
    ASSUME TelInv, NEW e \in Events(Inputs), Happens(e), SendData(e, AfterEvent(e))
    PROVE  TelInv'
<1> DEFINE i == AfterEvent(e)
           g == i.heap
           n == NumSent(g)
<1>1. /\ tel \in Tels /\ heap \in Heaps /\ tel.numsent <= Len(heap.lines)
      /\ link \in Links(Texts) /\ OpenIfOutstanding(link) /\ CanHappen(link, e)
      /\ link.len \in Nat
  BY LinkHas DEF TelInv, Happens
<1>2. /\ i \in TelPairs
      /\ ~EndsIt(e) /\ (link.state = "open" \/ e.kind = "connected") => Owned(g)
      /\ link.len > 0 /\ ~e.acks /\ e.kind # "connected" /\ ~EndsIt(e) => g \in Longer(heap)
      /\ EndsIt(e) /\ ~e.acks /\ ~Newdata(e) => i.tel = tel /\ g.lines = heap.lines
  BY AfterEventHas
<1>3. heap' = g
  BY DEF SendData
<1> HIDE DEF i
<1>4. i.tel \in Tels /\ g \in Heaps
  BY <1>2, PairHas
<1>5. CASE EndsIt(e) /\ ~e.acks /\ ~Newdata(e)
  <2> DEFINE after == After(link, e, Silent)
  <2>1. tel' = tel /\ link' = after.link /\ wire' = after.wire
    BY <1>2, <1>5 DEF SendData, Answered, i
  <2>2. Silent \in AnswersOf(Texts) /\ Silent.data = <<>>
    <3>1. <<>> \in Seq(Texts)
      OBVIOUS
    <3> QED
      BY <3>1, AnswersHave
  <2>3. Cut(Silent.data, link.len) = <<>>
    BY <1>1, <2>2, CutNothing
  <2>4. Kept(Texts, after) /\ OpenBecause(link, e, Silent, after)
    BY <1>1, <2>2, <2>3, AfterIsKept
  <2> HIDE DEF after
  <2>5. link' \in Links(Texts) /\ OpenIfOutstanding(link') /\ RexmitIsSame'
    BY <2>1, <2>4 DEF Kept, RexmitIsSame
  <2>6. ~(link'.state = "open") /\ ~(link'.len > 0)
    BY <1>5, <2>1, <2>4, <2>5 DEF OpenBecause, OpenIfOutstanding
  <2>7. FrontIsSent'
    BY <2>6 DEF FrontIsSent
  <2>8. heap'.lines = heap.lines
    BY <1>2, <1>3, <1>5
  <2> QED
    BY <1>1, <1>3, <1>4, <2>1, <2>5, <2>6, <2>7, <2>8 DEF TelInv
<1>6. CASE ~(EndsIt(e) /\ ~e.acks /\ ~Newdata(e))
  <2> DEFINE data == Content(g, n)
             a == Answer(data)
             after == After(link, e, a)
  <2>1. /\ tel' = [i.tel EXCEPT !.numsent = n]
        /\ link' = after.link /\ wire' = after.wire
    BY <1>6, Zenon DEF SendData, Answered, i
  <2>2. /\ n \in 0 .. AppMss - 1 /\ n \in 0 .. Len(g.lines)
        /\ data \in Seq(Texts) /\ Len(data) = n
        /\ \A k \in 1 .. n : data[k] = g.mem[g.lines[k]]
    BY <1>4, NumSentHas
  <2>3. a \in AnswersOf(Texts) /\ a.data = data
    BY <2>2, AnswersHave
  <2>4. link.len > 0 /\ ~e.acks /\ e.kind # "connected" => g \in Longer(heap)
    <3>1. ASSUME link.len > 0, ~e.acks, EndsIt(e)
          PROVE  FALSE
      <4>1. link.state = "open"
        BY <1>1, <3>1 DEF OpenIfOutstanding
      <4>2. e.kind # "closed"
        BY <1>1, <3>1, <4>1 DEF CanHappen, CanClose
      <4>3. e.kind \in {"aborted", "timedout"}
        BY <3>1, <4>2 DEF EndsIt
      <4>4. e.data = <<>>
        BY <4>3, EventHas
      <4> QED
        BY <1>6, <3>1, <4>4 DEF Newdata
    <3> QED
      BY <1>2, <3>1
  <2>5. link.len > 0 /\ ~e.acks /\ e.kind # "connected" =>
            /\ Cut(data, link.len) = link.sent
            /\ link.len <= n
            /\ \A k \in 1 .. link.len : link.sent[k] = g.mem[g.lines[k]]
    BY <2>4, SentAgain
  <2>6. Cut(data, AppMss) = data
    BY <1>4, SentFirst
  <2>7. /\ Kept(Texts, after) /\ OpenBecause(link, e, a, after)
        /\ OutstandingBecause(link, e, a, after)
    BY <1>1, <2>3, <2>5, AfterIsKept
  <2>8. tel' \in Tels /\ tel'.numsent = n
    BY <1>4, <2>1, <2>2 DEF Tels
  <2>9. tel'.numsent <= Len(heap'.lines)
    <3>1. Len(g.lines) \in Nat
      BY <1>4, HeapHas
    <3> QED
      BY <1>3, <2>2, <2>8, <3>1
  <2> HIDE DEF after, data, n
  <2>10. link' \in Links(Texts) /\ OpenIfOutstanding(link') /\ RexmitIsSame'
    BY <2>1, <2>7 DEF Kept, RexmitIsSame
  <2>11. link'.state = "open" => Owned(heap')
    BY <1>2, <1>3, <2>1, <2>7 DEF OpenBecause
  <2>12. ASSUME link'.len > 0
         PROVE  /\ link'.len <= n
                /\ \A k \in 1 .. link'.len : link'.sent[k] = g.mem[g.lines[k]]
    <3>1. CASE /\ link.len > 0 /\ ~e.acks /\ e.kind # "connected"
               /\ link'.len = link.len /\ link'.sent = link.sent
      BY <2>5, <3>1
    <3>2. CASE link'.len = Len(data) /\ link'.sent = data
      <4>1. n \in Nat
        BY <2>2
      <4> QED
        BY <2>2, <3>2, <4>1
    <3> QED
      BY <2>1, <2>3, <2>6, <2>7, <2>12, <3>1, <3>2 DEF OutstandingBecause
  <2>13. FrontIsSent'
    BY <1>3, <2>12 DEF FrontIsSent, n
  <2> QED
    BY <1>3, <1>4, <2>8, <2>9, <2>10, <2>11, <2>13 DEF TelInv
<1> QED
  BY <1>5, <1>6

LEMMA TelInitGood == TelnetdInit => TelInv
<1> SUFFICES ASSUME TelnetdInit PROVE TelInv
  OBVIOUS
<1>1. /\ link = Link("none") /\ "none" \in LinkStates /\ "NORMAL" \in TelStates
      /\ "shell" \in Texts
  BY DEF TelnetdInit, LinkInit, LinkStates, TelStates, Texts
<1>2. link \in Links(Texts) /\ link.len = 0 /\ link.state = "none"
  BY <1>1, LinkIsLink
<1>3. tel \in Tels /\ tel.numsent = 0
  BY <1>1, AppAssumption, TelnetdAssumption DEF TelnetdInit, Tels
<1>4. heap \in Heaps /\ heap.lines = <<>>
  <2>1. /\ heap = [f \in HeapFields |-> heap[f]] /\ heap.lines = <<>>
        /\ heap.count = [b \in Blocks |-> 0] /\ heap.mem = [b \in Blocks |-> "shell"]
    BY DEF TelnetdInit, HeapFields
  <2>2. /\ heap.lines \in Seq(Blocks) /\ heap.count \in [Blocks -> 0 .. 1]
        /\ heap.mem \in [Blocks -> Texts]
    <3>1. 0 \in 0 .. 1 /\ <<>> \in Seq(Blocks)
      OBVIOUS
    <3> QED
      BY <1>1, <2>1, <3>1
  <2>3. Len(heap.lines) <= TELNETD_NUMLINES
    BY <2>1, TelnetdAssumption
  <2> QED
    BY <2>1, <2>2, <2>3, MakesHeap
<1> QED
  BY <1>2, <1>3, <1>4 DEF TelInv, OpenIfOutstanding, FrontIsSent, RexmitIsSame

LEMMA TelStepGood == TelInv /\ [TelnetdNext]_telVars => TelInv'
<1> SUFFICES ASSUME TelInv, [TelnetdNext]_telVars PROVE TelInv'
  OBVIOUS
<1>1. CASE TelnetdNext
  <2>1. PICK e \in Events(Inputs) : Happens(e) /\ TelnetdAppcall(e)
    BY <1>1 DEF TelnetdNext
  <2>2. \/ e.kind # "connected" /\ Quit(e)
        \/ SendData(e, AfterEvent(e))
    BY <2>1 DEF TelnetdAppcall
  <2> QED
    BY <2>1, <2>2, QuitKeeps, SendDataKeeps
<1>2. CASE UNCHANGED telVars
  BY <1>2 DEF telVars, TelInv, FrontIsSent, RexmitIsSame, OpenIfOutstanding, NumSent
<1> QED
  BY <1>1, <1>2

\* The invariant holds in every state of every session, and between them.
THEOREM TelInvariantHolds == TelnetdSpec => []TelInv
BY TelInitGood, TelStepGood, PTL DEF TelnetdSpec

LEMMA TelIsTyped == TelInv => TelnetdTypeOK
<1> SUFFICES ASSUME TelInv PROVE TelnetdTypeOK
  OBVIOUS
<1>1. tel \in Tels /\ heap \in Heaps /\ link \in Links(Texts)
  BY DEF TelInv
<1>2. link.state \in LinkStates /\ link.len \in 0 .. AppMss
  BY <1>1, LinkHas
<1>3. /\ heap.lines \in Seq(Blocks) /\ heap.count \in [Blocks -> 0 .. 1]
      /\ heap.mem \in [Blocks -> Texts] /\ Len(heap.lines) <= TELNETD_NUMLINES
  BY <1>1, HeapHas
<1> QED
  BY <1>1, <1>2, <1>3 DEF TelnetdTypeOK, Tels, TelStates

\* The parser, the queue, its memory and the connection have their types.
THEOREM TelnetdTypes == TelnetdSpec => []TelnetdTypeOK
BY TelIsTyped, TelInvariantHolds, PTL

\* While a session is open each line that waits has an allocated block of its own:
\* shell_output() never writes over a line that is still to be acknowledged,
\* whatever earlier sessions left allocated.
THEOREM TelnetdLinesAreOwned == TelnetdSpec => []LinesAreOwned
<1>1. TelInv => LinesAreOwned
  <2> SUFFICES ASSUME TelInv, link.state = "open"
               PROVE  /\ \A i \in DOMAIN heap.lines : heap.count[heap.lines[i]] = 1
                      /\ IsInjective(heap.lines)
    BY DEF LinesAreOwned
  <2>1. heap \in Heaps /\ Owned(heap)
    BY DEF TelInv
  <2>2. DOMAIN heap.lines = 1 .. Len(heap.lines)
    BY <2>1, HeapHas, LenProperties
  <2> QED
    BY <2>1, <2>2 DEF Owned, IsInjective
<1> QED
  BY <1>1, TelInvariantHolds, PTL

\* senddata() makes the segment anew from lines[] for every retransmission: it
\* begins with the same lines, whatever was printed since.
THEOREM TelnetdRepeats == TelnetdSpec => []RexmitIsSame
BY TelInvariantHolds, PTL DEF TelInv

-----------------------------------------------------------------------------
(* Protosockets: what a protothread sends again is what it sent before.    *)

\* Nothing that is cut is gone; what is cut to its length stays the same.
LEMMA DropIsRest ==
    ASSUME NEW S, NEW data \in Seq(S), NEW n \in Nat
    PROVE  Drop(data, n) \in Seq(S)
<1>1. CASE Len(data) <= n
  BY <1>1 DEF Drop
<1>2. CASE ~(Len(data) <= n)
  <2>1. Len(data) \in Nat /\ n + 1 \in 1 .. Len(data) + 1 /\ Len(data) \in n + 1 - 1 .. Len(data)
    BY <1>2
  <2>2. SubSeq(data, n + 1, Len(data)) \in Seq(S)
    BY <2>1, SubSeqProperties
  <2> QED
    BY <1>2, <2>2 DEF Drop
<1> QED
  BY <1>1, <1>2

LEMMA CutTwice ==
    ASSUME NEW S, NEW data \in Seq(S), NEW n \in Nat
    PROVE  Cut(Cut(data, n), n) = Cut(data, n)
<1>1. Len(data) \in Nat /\ Len(Cut(data, n)) = IF Len(data) <= n THEN Len(data) ELSE n
  BY CutIsFront
<1>2. Len(Cut(data, n)) <= n
  BY <1>1
<1> QED
  BY <1>2 DEF Cut

SockFields == {"state", "busy", "rest", "buf", "unread"}

\* A protosocket that sends tokens of S.
IsSock(S, p) ==
    /\ p = [f \in SockFields |-> p[f]]
    /\ p.busy \in BOOLEAN
    /\ p.rest \in Seq(S)

\* Reading leaves what is sent alone.
LEMMA ScanReads ==
    ASSUME NEW S, NEW p, IsSock(S, p), NEW data, NEW mark
    PROVE  IsSock(S, Scan(p, data, mark).p)
<1> DEFINE at == {i \in DOMAIN data : data[i] = mark /\ \A j \in 1 .. i - 1 : data[j] # mark}
           n == IF at = {} THEN Len(data) ELSE CHOOSE i \in at : TRUE
           buf == Cut(p.buf \o SubSeq(data, 1, n), PsockBufsize)
           unread == Drop(data, n)
           q == [p EXCEPT !.buf = buf, !.unread = unread]
<1>1. Scan(p, data, mark).p = q
  BY DEF Scan
<1> HIDE DEF at, n, buf, unread
<1>2. q = [f \in SockFields |-> q[f]] /\ q.busy = p.busy /\ q.rest = p.rest
  BY DEF IsSock, SockFields
<1> HIDE DEF q
<1> QED
  BY <1>1, <1>2 DEF IsSock

LEMMA ReadToReads ==
    ASSUME NEW S, NEW p, IsSock(S, p), NEW e, NEW mark
    PROVE  IsSock(S, ReadTo(p, e, mark).p)
<1> DEFINE start == IF p.busy THEN p ELSE [p EXCEPT !.buf = <<>>]
           old == IF p.unread = <<>> THEN [p |-> start, found |-> FALSE]
                  ELSE Scan(start, p.unread, mark)
           taken == [old.p EXCEPT !.state = "READ"]
<1>1. ReadTo(p, e, mark) = IF old.found \/ ~TakesNewdata(old.p, e) THEN old
                           ELSE Scan(taken, e.data, mark)
  BY DEF ReadTo
<1>2. IsSock(S, start)
  BY DEF IsSock, SockFields
<1> HIDE DEF start
<1>3. IsSock(S, old.p)
  BY <1>2, ScanReads
<1> HIDE DEF old
<1>4. IsSock(S, taken)
  BY <1>3 DEF IsSock, SockFields
<1> HIDE DEF taken
<1>5. IsSock(S, Scan(taken, e.data, mark).p)
  BY <1>4, ScanReads
<1> QED
  BY <1>1, <1>3, <1>5

\* The protosocket that blocks in PSOCK_SEND.
LEMMA SendsBlock ==
    ASSUME NEW S, NEW p, IsSock(S, p), NEW data \in Seq(S), NEW e
    PROVE  /\ IsSock(S, SendBlocked(p, data, e))
           /\ SendBlocked(p, data, e).busy = TRUE
           /\ SendBlocked(p, data, e).rest = SendRest(p, data, e)
           /\ SendRest(p, data, e) \in Seq(S)
<1>1. SendRest(p, data, e) \in Seq(S)
  BY DropIsRest, AppAssumption DEF SendRest, IsSock
<1> QED
  BY <1>1 DEF SendBlocked, IsSock, SockFields

\* The one that has nothing more to send, and the one whose unread data is gone.
LEMMA SockEnds ==
    ASSUME NEW S, NEW p, IsSock(S, p)
    PROVE  IsSock(S, Ended(p))
<1>1. <<>> \in Seq(S)
  OBVIOUS
<1> QED
  BY <1>1 DEF Ended, IsSock, SockFields

LEMMA SockForgets ==
    ASSUME NEW S, NEW p, IsSock(S, p), NEW unread
    PROVE  /\ IsSock(S, [p EXCEPT !.unread = unread])
           /\ [p EXCEPT !.unread = unread].busy = p.busy
           /\ [p EXCEPT !.unread = unread].rest = p.rest
BY DEF IsSock, SockFields

\* Something the peer has not acknowledged yet.
Unacked == link.len > 0 /\ ~call.acks

\* A connection with its protosocket, in a call or between two.
SockInv(S, inputs) ==
    /\ link \in Links(S) /\ OpenIfOutstanding(link)
    /\ IsSock(S, psock)
    /\ call = NoCall \/ (call \in Events(inputs) /\ Happens(call))

\* What is outstanding is the next chunk of the data the protosocket sends.
Sending == Unacked => psock.busy /\ link.sent = Cut(psock.rest, AppMss)

\* What is sent stays right.
StaysSame == (RexmitIsSame => RexmitIsSame') /\ (PageIsSentAgain => PageIsSentAgain')

LEMMA SameStays ==
    /\ RexmitIsSame' => StaysSame
    /\ UNCHANGED <<link, wire>> => StaysSame
BY DEF StaysSame, RexmitIsSame, PageIsSentAgain

LEMMA SockBegins ==
    ASSUME NEW S, NEW inputs, SockInv(S, inputs),
           NEW e \in Events(inputs), Begin(e), IsSock(S, psock')
    PROVE  SockInv(S, inputs)' /\ StaysSame /\ (Unacked' => Unacked) /\ link' = link
<1>1. call = NoCall /\ ~call.acks
  BY DEF Begin, NoCall
<1>2. call' = e /\ Happens(e) /\ UNCHANGED <<link, wire>>
  BY DEF Begin
<1>3. Happens(call)'
  BY <1>2 DEF Happens
<1>4. Unacked' => Unacked
  BY <1>1, <1>2 DEF Unacked
<1>5. StaysSame
  BY <1>2, SameStays
<1> QED
  BY <1>2, <1>3, <1>4, <1>5 DEF SockInv, OpenIfOutstanding

\* The protothread returns with answer a.
LEMMA SockReturns ==
    ASSUME NEW S, NEW inputs, SockInv(S, inputs), call # NoCall,
           NEW p, IsSock(S, p), NEW a \in AnswersOf(S), Returns(p, a),
           Unacked => Cut(a.data, link.len) \in {link.sent, <<>>}
    PROVE  /\ link' \in Links(S) /\ OpenIfOutstanding(link') /\ RexmitIsSame'
           /\ IsSock(S, psock') /\ psock'.busy = p.busy /\ psock'.rest = p.rest
           /\ call' = NoCall /\ ~call'.acks
           /\ EndsIt(call) => link'.len = 0
           /\ link'.len > 0 => \/ Unacked /\ link'.sent = link.sent
                               \/ /\ link'.len = Len(Cut(a.data, AppMss))
                                  /\ link'.sent = Cut(a.data, AppMss)
<1> DEFINE after == After(link, call, a)
<1>1. /\ link \in Links(S) /\ OpenIfOutstanding(link)
      /\ call \in Events(inputs) /\ CanHappen(link, call)
  BY DEF SockInv, Happens
<1>2. /\ link' = after.link /\ wire' = after.wire /\ call' = NoCall
      /\ psock' = [p EXCEPT !.unread = [i \in DOMAIN p.unread |-> Junk]]
  BY DEF Returns, Answered
<1>3. link.len > 0 /\ ~call.acks /\ call.kind # "connected" =>
          Cut(a.data, link.len) \in {link.sent, <<>>}
  BY DEF Unacked
<1>4. /\ Kept(S, after) /\ OpenBecause(link, call, a, after)
      /\ OutstandingBecause(link, call, a, after)
  BY <1>1, <1>3, AfterIsKept
<1> HIDE DEF after
<1>5. /\ link' \in Links(S) /\ OpenIfOutstanding(link') /\ RexmitIsSame'
  BY <1>2, <1>4 DEF Kept, RexmitIsSame
<1>6. EndsIt(call) => link'.len = 0
  <2>1. link'.len \in Nat
    BY <1>5, LinkHas
  <2>2. EndsIt(call) => link'.state # "open"
    BY <1>2, <1>4 DEF OpenBecause
  <2> QED
    BY <1>5, <2>1, <2>2 DEF OpenIfOutstanding
<1>7. IsSock(S, psock') /\ psock'.busy = p.busy /\ psock'.rest = p.rest
  BY <1>2, SockForgets
<1>8. ~call'.acks
  BY <1>2 DEF NoCall
<1> QED
  BY <1>2, <1>4, <1>5, <1>6, <1>7, <1>8 DEF OutstandingBecause, Unacked

\* It returns with nothing to send, when nothing is outstanding.
LEMMA SockIsQuiet ==
    ASSUME NEW S, NEW inputs, SockInv(S, inputs), call # NoCall, EndsIt(call) \/ ~Unacked,
           NEW p, IsSock(S, p), NEW a \in {Silent, Close, Abort}, Returns(p, a)
    PROVE  SockInv(S, inputs)' /\ StaysSame /\ ~Unacked' /\ Sending'
<1>0. <<>> \in Seq(S)
  OBVIOUS
<1>1. a \in AnswersOf(S) /\ a.data = <<>>
  BY <1>0, AnswersHave
<1>2. link.len \in Nat
  BY LinkHas DEF SockInv
<1>3. Cut(a.data, link.len) = <<>> /\ Cut(a.data, AppMss) = <<>>
  BY <1>1, <1>2, CutNothing, AppAssumption
<1>4. /\ link' \in Links(S) /\ OpenIfOutstanding(link') /\ RexmitIsSame'
      /\ IsSock(S, psock') /\ call' = NoCall
      /\ EndsIt(call) => link'.len = 0
      /\ link'.len > 0 => Unacked \/ link'.len = Len(<<>>)
  BY <1>1, <1>3, SockReturns
<1>5. ~(link'.len > 0)
  <2>1. Len(<<>>) = 0
    OBVIOUS
  <2> QED
    BY <1>4, <2>1
<1> QED
  BY <1>4, <1>5, SameStays DEF SockInv, Sending, Unacked, OpenIfOutstanding

\* It goes on when nothing is outstanding.
LEMMA SockGoesOn ==
    ASSUME NEW S, NEW inputs, SockInv(S, inputs), ~Unacked, NEW p, IsSock(S, p), GoesOn(p)
    PROVE  SockInv(S, inputs)' /\ StaysSame /\ ~Unacked' /\ Sending'
<1>1. psock' = p /\ UNCHANGED <<call, got, link, wire>>
  BY DEF GoesOn
<1>2. ~Unacked' /\ StaysSame /\ (Happens(call) => Happens(call)')
  BY <1>1, SameStays DEF Unacked, Happens
<1> QED
  BY <1>1, <1>2 DEF SockInv, Sending, OpenIfOutstanding

\* PSOCK_SEND ends when the last chunk has been acknowledged.
LEMMA SockSends ==
    ASSUME NEW S, NEW inputs, SockInv(S, inputs), Sending,
           NEW data \in Seq(S), PsockSend(data)
    PROVE  SockInv(S, inputs)' /\ StaysSame /\ ~Unacked' /\ Sending'
<1>1. IsSock(S, Ended(psock))
  BY SockEnds DEF SockInv
<1>2. ~Unacked
  <2> SUFFICES ASSUME Unacked PROVE FALSE
    OBVIOUS
  <2>1. psock.busy /\ link.sent = Cut(psock.rest, AppMss) /\ Len(link.sent) = link.len
    BY DEF Sending, SockInv, Unacked, OpenIfOutstanding
  <2>2. psock.rest = <<>>
    BY <2>1 DEF PsockSend, SendEnds, SendRest, Unacked
  <2>3. link.sent = <<>>
    BY <2>1, <2>2, CutNothing, AppAssumption
  <2>4. link.len = 0
    BY <2>1, <2>3
  <2> QED
    BY <2>4 DEF Unacked
<1> QED
  BY <1>1, <1>2, SockGoesOn DEF PsockSend

\* While it does not end, the chunk that is given to the stack is the one that is
\* outstanding, or the next.
LEMMA SockSendsOn ==
    ASSUME NEW S, NEW inputs, SockInv(S, inputs), Sending, call # NoCall,
           NEW data \in Seq(S), NEW other \in {Silent, Abort}, PsockSendBlocks(data, other)
    PROVE  SockInv(S, inputs)' /\ StaysSame /\ Sending'
<1> DEFINE p == SendBlocked(psock, data, call)
           rest == SendRest(psock, data, call)
           chunk == SendChunk(psock, data, call)
           a == IF chunk = <<>> THEN other ELSE Answer(chunk)
<1>1. Returns(p, a)
  BY DEF PsockSendBlocks
<1>2. IsSock(S, p) /\ p.busy /\ p.rest = rest /\ rest \in Seq(S)
  <2>1. IsSock(S, psock)
    BY DEF SockInv
  <2> QED
    BY <2>1, SendsBlock
<1>3. chunk = IF SendsNow(psock, data, call) THEN Cut(rest, AppMss) ELSE <<>>
  BY DEF SendChunk
<1>4. /\ link \in Links(S) /\ link.len \in Nat /\ link.sent \in Seq(S)
      /\ link.len > 0 => Len(link.sent) = link.len
  BY LinkHas DEF SockInv, OpenIfOutstanding
<1>5. Unacked => psock.busy /\ rest = psock.rest /\ link.sent = Cut(rest, AppMss)
  BY DEF Sending, Unacked, SendRest
<1> HIDE DEF p, rest
<1>6. chunk \in Seq(S) /\ chunk \in {Cut(rest, AppMss), <<>>}
  <2>1. <<>> \in Seq(S)
    OBVIOUS
  <2> QED
    BY <1>2, <1>3, <2>1, CutIsFront, AppAssumption
<1> HIDE DEF chunk
<1>7. a \in AnswersOf(S) /\ a.data = chunk
  BY <1>6, AnswersHave
<1> HIDE DEF a
<1>8. Unacked => Cut(chunk, link.len) \in {link.sent, <<>>}
  <2>1. Unacked => Cut(link.sent, link.len) = link.sent
    BY <1>4 DEF Cut, Unacked
  <2>2. Cut(<<>>, link.len) = <<>>
    BY <1>4, CutNothing
  <2> QED
    BY <1>5, <1>6, <2>1, <2>2
<1>9. Cut(chunk, AppMss) \in {Cut(rest, AppMss), <<>>}
  BY <1>2, <1>6, CutTwice, CutNothing, AppAssumption
<1>10. /\ link' \in Links(S) /\ OpenIfOutstanding(link') /\ RexmitIsSame'
       /\ IsSock(S, psock') /\ psock'.busy = p.busy /\ psock'.rest = p.rest /\ call' = NoCall
       /\ link'.len > 0 => \/ Unacked /\ link'.sent = link.sent
                           \/ /\ link'.len = Len(Cut(chunk, AppMss))
                              /\ link'.sent = Cut(chunk, AppMss)
  BY <1>1, <1>2, <1>7, <1>8, SockReturns
<1>11. link'.len > 0 => link'.sent = Cut(rest, AppMss)
  <2>1. ~(Len(<<>>) > 0)
    OBVIOUS
  <2> QED
    BY <1>5, <1>9, <1>10, <2>1
<1> QED
  BY <1>2, <1>10, <1>11, SameStays DEF SockInv, Sending, Unacked, OpenIfOutstanding

\* PSOCK_GENERATOR_SEND: what is made again is the piece that is outstanding.
LEMMA SockGenerates ==
    ASSUME NEW S, NEW inputs, SockInv(S, inputs), call # NoCall,
           NEW piece \in Seq(S), Len(piece) <= AppMss, Unacked => psock.busy /\ link.sent = piece,
           NEW other \in {Silent, Abort}, PsockGenerates(piece, other)
    PROVE  SockInv(S, inputs)' /\ StaysSame /\ (Unacked' => psock'.busy /\ link'.sent = piece)
<1> DEFINE p == [psock EXCEPT !.state = "DATA_SENT", !.busy = TRUE]
           sends == (~psock.busy \/ call.kind = "rexmit") /\ piece # <<>>
           a == IF sends THEN Answer(piece) ELSE other
<1>1. Returns(p, a)
  BY DEF PsockGenerates
<1>2. IsSock(S, p) /\ p.busy = TRUE
  BY DEF SockInv, IsSock, SockFields
<1> HIDE DEF p, sends
<1>3. <<>> \in Seq(S)
  OBVIOUS
<1>4. a \in AnswersOf(S) /\ a.data \in {piece, <<>>}
  BY <1>3, AnswersHave
<1> HIDE DEF a
<1>5. /\ link \in Links(S) /\ link.len \in Nat
      /\ link.len > 0 => Len(link.sent) = link.len
  BY LinkHas DEF SockInv, OpenIfOutstanding
<1>6. /\ Cut(piece, AppMss) = piece /\ Cut(<<>>, AppMss) = <<>> /\ Cut(<<>>, link.len) = <<>>
      /\ Unacked => Cut(piece, link.len) = link.sent
  BY <1>5, CutNothing, AppAssumption DEF Cut, Unacked
<1>7. Unacked => Cut(a.data, link.len) \in {link.sent, <<>>}
  BY <1>4, <1>6
<1>8. /\ link' \in Links(S) /\ OpenIfOutstanding(link') /\ RexmitIsSame'
      /\ IsSock(S, psock') /\ psock'.busy = p.busy /\ call' = NoCall
      /\ link'.len > 0 => \/ Unacked /\ link'.sent = link.sent
                          \/ /\ link'.len = Len(Cut(a.data, AppMss))
                             /\ link'.sent = Cut(a.data, AppMss)
  BY <1>1, <1>2, <1>4, <1>7, SockReturns
<1>9. link'.len > 0 => link'.sent = piece
  <2>1. ~(Len(<<>>) > 0)
    OBVIOUS
  <2> QED
    BY <1>4, <1>6, <1>8, <2>1
<1> QED
  BY <1>2, <1>8, <1>9, SameStays DEF SockInv, Unacked, OpenIfOutstanding

LEMMA SockGenerated ==
    ASSUME NEW S, NEW inputs, SockInv(S, inputs), PsockGenerated
    PROVE  SockInv(S, inputs)' /\ StaysSame /\ ~Unacked'
<1>1. IsSock(S, Ended(psock)) /\ GoesOn(Ended(psock)) /\ ~Unacked
  BY SockEnds DEF SockInv, PsockGenerated, Unacked
<1> QED
  BY <1>1, SockGoesOn

-----------------------------------------------------------------------------
(* The SMTP client: what is sent again is what was sent.                   *)

Words == {"helo", "host", "crnl", "mail from", "from", "rcpt to", "to", "cc", "data", "subject",
          "period", "quit"}
Tokens == Words \cup {SmtpMsg[i] : i \in DOMAIN SmtpMsg}
Statements == {Read(want, error) : want \in {"220", "2", "3"}, error \in 2 .. 8}
              \cup {Send(data) : data \in Seq(Tokens)}

LEMMA StatementIs ==
    ASSUME NEW s \in Statements
    PROVE  s.op \in {"send", "read"} /\ (s.op = "send" => s.data \in Seq(Tokens))
BY DEF Statements, Read, Send

LEMMA MessageIsTokens == SmtpMsg \in Seq(Tokens)
<1>1. /\ Len(SmtpMsg) \in Nat /\ DOMAIN SmtpMsg = 1 .. Len(SmtpMsg)
      /\ SmtpMsg = [i \in 1 .. Len(SmtpMsg) |-> SmtpMsg[i]]
  BY SmtpAssumption, LenProperties
<1>2. \A i \in 1 .. Len(SmtpMsg) : SmtpMsg[i] \in Tokens
  BY <1>1 DEF Tokens
<1> QED
  BY <1>1, <1>2

LEMMA ProgramHas ==
    ASSUME NEW cc \in BOOLEAN
    PROVE  Program(cc) \in Seq(Statements)
<1>1. ASSUME NEW want \in {"220", "2", "3"}, NEW error \in 2 .. 8
      PROVE  <<Read(want, error)>> \in Seq(Statements)
  BY DEF Statements
<1>2. ASSUME NEW data \in Seq(Tokens)
      PROVE  <<Send(data)>> \in Seq(Statements) /\ Send(data) \in Statements
  BY DEF Statements
<1>3. ASSUME NEW token \in Words
      PROVE  Send(<<token>>) \in Statements
  <2>1. <<token>> \in Seq(Tokens)
    BY DEF Tokens
  <2> QED
    BY <1>2, <2>1
<1>4. ASSUME NEW name \in Words, NEW argument \in Words
      PROVE  Line(name, argument) \in Seq(Statements)
  <2>1. /\ Send(<<name>>) \in Statements /\ Send(<<argument>>) \in Statements
        /\ Send(<<"crnl">>) \in Statements
    BY <1>3 DEF Words
  <2> QED
    BY <2>1 DEF Line
<1>5. /\ <<Read("220", 2)>> \in Seq(Statements)
      /\ <<Read("2", 3)>> \in Seq(Statements)
      /\ <<Read("2", 4)>> \in Seq(Statements)
      /\ <<Read("2", 5)>> \in Seq(Statements)
      /\ <<Read("2", 6)>> \in Seq(Statements)
  BY <1>1
<1>6. /\ <<Send(<<"data">>), Read("3", 7)>> \in Seq(Statements)
      /\ <<Send(SmtpMsg), Send(<<"period">>), Read("2", 8), Send(<<"quit">>)>> \in Seq(Statements)
  <2>1. /\ Send(<<"data">>) \in Statements /\ Send(<<"period">>) \in Statements
        /\ Send(<<"quit">>) \in Statements /\ Send(SmtpMsg) \in Statements
    BY <1>2, <1>3, MessageIsTokens DEF Words
  <2>2. Read("3", 7) \in Statements /\ Read("2", 8) \in Statements
    BY DEF Statements
  <2> QED
    BY <2>1, <2>2
<1>7. /\ Line("helo", "host") \in Seq(Statements)
      /\ Line("mail from", "from") \in Seq(Statements)
      /\ Line("rcpt to", "to") \in Seq(Statements)
      /\ Line("rcpt to", "cc") \in Seq(Statements)
      /\ Line("to", "to") \in Seq(Statements)
      /\ Line("cc", "cc") \in Seq(Statements)
      /\ Line("from", "from") \in Seq(Statements)
      /\ Line("subject", "subject") \in Seq(Statements)
  BY <1>4 DEF Words
<1>8. ASSUME NEW s \in Seq(Statements), NEW t \in Seq(Statements)
      PROVE  s \o t \in Seq(Statements)
  BY ConcatProperties
<1> DEFINE copy == IF cc THEN Line("rcpt to", "cc") \o <<Read("2", 6)>> ELSE <<>>
           copies == IF cc THEN Line("cc", "cc") ELSE <<>>
<1>9. copy \in Seq(Statements) /\ copies \in Seq(Statements)
  <2>1. <<>> \in Seq(Statements)
    OBVIOUS
  <2> QED
    BY <1>5, <1>7, <1>8, <2>1
<1> DEFINE p1 == <<Read("220", 2)>>
           p2 == p1 \o Line("helo", "host")
           p3 == p2 \o <<Read("2", 3)>>
           p4 == p3 \o Line("mail from", "from")
           p5 == p4 \o <<Read("2", 4)>>
           p6 == p5 \o Line("rcpt to", "to")
           p7 == p6 \o <<Read("2", 5)>>
           p8 == p7 \o copy
           p9 == p8 \o <<Send(<<"data">>), Read("3", 7)>>
           p10 == p9 \o Line("to", "to")
           p11 == p10 \o copies
           p12 == p11 \o Line("from", "from")
           p13 == p12 \o Line("subject", "subject")
           p14 == p13 \o <<Send(SmtpMsg), Send(<<"period">>), Read("2", 8), Send(<<"quit">>)>>
<1>10. Program(cc) = p14
  BY Zenon DEF Program
<1>11. p1 \in Seq(Statements)
  BY <1>5
<1> HIDE DEF p1
<1>12. p2 \in Seq(Statements)
  BY <1>11, <1>7, <1>8
<1> HIDE DEF p2
<1>13. p3 \in Seq(Statements)
  BY <1>12, <1>5, <1>8
<1> HIDE DEF p3
<1>14. p4 \in Seq(Statements)
  BY <1>13, <1>7, <1>8
<1> HIDE DEF p4
<1>15. p5 \in Seq(Statements)
  BY <1>14, <1>5, <1>8
<1> HIDE DEF p5
<1>16. p6 \in Seq(Statements)
  BY <1>15, <1>7, <1>8
<1> HIDE DEF p6
<1>17. p7 \in Seq(Statements)
  BY <1>16, <1>5, <1>8
<1> HIDE DEF p7
<1>18. p8 \in Seq(Statements)
  BY <1>17, <1>9, <1>8
<1> HIDE DEF p8
<1>19. p9 \in Seq(Statements)
  BY <1>18, <1>6, <1>8
<1> HIDE DEF p9
<1>20. p10 \in Seq(Statements)
  BY <1>19, <1>7, <1>8
<1> HIDE DEF p10
<1>21. p11 \in Seq(Statements)
  BY <1>20, <1>9, <1>8
<1> HIDE DEF p11
<1>22. p12 \in Seq(Statements)
  BY <1>21, <1>7, <1>8
<1> HIDE DEF p12
<1>23. p13 \in Seq(Statements)
  BY <1>22, <1>7, <1>8
<1> HIDE DEF p13
<1>24. p14 \in Seq(Statements)
  BY <1>23, <1>6, <1>8
<1> HIDE DEF p14
<1> QED
  BY <1>10, <1>24

\* A chunk is outstanding only while the protothread is at the statement that
\* sends it.
SmtpInv ==
    /\ smtp \in [pc : Nat \ {0}, cc : BOOLEAN, connected : BOOLEAN]
    /\ SockInv(Tokens, Replies) /\ RexmitIsSame /\ Sending
    /\ Unacked => ~AtEnd /\ Statement.op = "send"

LEMMA SmtpInitGood == SmtpInit => SmtpInv
<1> SUFFICES ASSUME SmtpInit PROVE SmtpInv
  OBVIOUS
<1>1. /\ link = Link("none") /\ psock = NewPsock /\ call = NoCall
      /\ smtp \in [pc : {1}, cc : BOOLEAN, connected : {TRUE}]
  BY DEF SmtpInit, PsockInit, LinkInit
<1>2. link \in Links(Tokens) /\ link.len = 0
  <2>1. "none" \in LinkStates
    BY DEF LinkStates
  <2> QED
    BY <1>1, <2>1, LinkIsLink
<1>3. IsSock(Tokens, psock)
  <2>1. <<>> \in Seq(Tokens)
    OBVIOUS
  <2> QED
    BY <1>1, <2>1 DEF NewPsock, IsSock, SockFields
<1>4. SockInv(Tokens, Replies) /\ RexmitIsSame /\ Sending
  BY <1>1, <1>2, <1>3 DEF SockInv, Sending, OpenIfOutstanding, RexmitIsSame, Unacked
<1> QED
  <2>1. ~Unacked
    BY <1>2 DEF Unacked
  <2>2. smtp \in [pc : Nat \ {0}, cc : BOOLEAN, connected : BOOLEAN]
    <3>1. {1} \subseteq Nat \ {0} /\ {TRUE} \subseteq BOOLEAN
      OBVIOUS
    <3> DEFINE one == {1}
               true == {TRUE}
    <3>2. smtp \in [pc : one, cc : BOOLEAN, connected : true]
      BY <1>1
    <3> HIDE DEF one, true
    <3>3. one \subseteq Nat \ {0} /\ true \subseteq BOOLEAN
      BY <3>1 DEF one, true
    <3> QED
      BY <3>2, <3>3
  <2> QED
    BY <1>4, <2>1, <2>2 DEF SmtpInv

LEMMA SmtpStepGood == SmtpInv /\ [SmtpNext]_smtpVars => SmtpInv'
<1> SUFFICES ASSUME SmtpInv, [SmtpNext]_smtpVars PROVE SmtpInv'
  OBVIOUS
<1> DEFINE Protothread == [pc : Nat \ {0}, cc : BOOLEAN, connected : BOOLEAN]
<1>1. /\ smtp \in Protothread /\ SockInv(Tokens, Replies) /\ RexmitIsSame /\ Sending /\ IsSock(Tokens, psock)
      /\ Unacked => ~AtEnd /\ Statement.op = "send"
  BY DEF SmtpInv, SockInv
<1>2. ASSUME ~AtEnd, Statement.op = "send"
      PROVE  Statement.data \in Seq(Tokens)
  <2>1. Program(smtp.cc) \in Seq(Statements)
    BY <1>1, ProgramHas
  <2>2. smtp.pc \in 1 .. Len(Program(smtp.cc))
    BY <1>1, <1>2, <2>1 DEF AtEnd
  <2>3. Statement \in Statements
    BY <2>1, <2>2 DEF Statement
  <2> QED
    BY <1>2, <2>3, StatementIs
<1>3. /\ NextStatement => smtp' \in Protothread
      /\ [smtp EXCEPT !.pc = 1] \in Protothread
      /\ [smtp EXCEPT !.connected = FALSE] \in Protothread
  <2>1. smtp.pc + 1 \in Nat \ {0} /\ 1 \in Nat \ {0}
    BY <1>1
  <2> QED
    BY <1>1, <2>1 DEF NextStatement
<1>4. CASE SmtpCalled
  <2>1. PICK e \in Events(Replies) : Begin(e) /\ UNCHANGED <<smtp, psock>>
    BY <1>4 DEF SmtpCalled
  <2>2. SockInv(Tokens, Replies)' /\ StaysSame /\ (Unacked' => Unacked) /\ link' = link
    BY <1>1, <2>1, SockBegins
  <2> QED
    BY <1>1, <2>1, <2>2 DEF SmtpInv, StaysSame, Sending, AtEnd, Statement
<1>5. CASE SmtpSend
  <2>1. Running /\ ~AtEnd /\ Statement.op = "send" /\ Statement.data \in Seq(Tokens)
    BY <1>2, <1>5 DEF SmtpSend
  <2>2. CASE PsockSend(Statement.data) /\ NextStatement
    <3>1. SockInv(Tokens, Replies)' /\ StaysSame /\ ~Unacked' /\ Sending'
      BY <1>1, <2>1, <2>2, SockSends
    <3> QED
      BY <1>3, <2>2, <3>1 DEF SmtpInv, StaysSame
  <2>3. CASE PsockSendBlocks(Statement.data, Silent) /\ UNCHANGED smtp
    <3>1. SockInv(Tokens, Replies)' /\ StaysSame /\ Sending'
      BY <1>1, <2>1, <2>3, SockSendsOn DEF Running
    <3> QED
      BY <1>1, <2>1, <2>3, <3>1 DEF SmtpInv, StaysSame, AtEnd, Statement
  <2> QED
    BY <1>5, <2>2, <2>3 DEF SmtpSend
<1>6. CASE SmtpRead
  <2>1. call # NoCall /\ ~Unacked
    BY <1>1, <1>6 DEF SmtpRead, Running
  <2> DEFINE p == ReadTo(psock, call, "nl").p
             q == [p EXCEPT !.busy = TRUE,
                            !.state = IF @ = "READ" THEN "BLOCKED_NEWDATA" ELSE @]
  <2>2. Returns(q, Silent) /\ UNCHANGED smtp
    BY <1>6 DEF SmtpRead, PsockReadBlocks
  <2>3. IsSock(Tokens, p)
    BY <1>1, ReadToReads
  <2> HIDE DEF p
  <2>4. IsSock(Tokens, q)
    BY <2>3 DEF IsSock, SockFields
  <2> HIDE DEF q
  <2>5. SockInv(Tokens, Replies)' /\ StaysSame /\ ~Unacked' /\ Sending'
    BY <1>1, <2>1, <2>2, <2>4, SockIsQuiet
  <2> QED
    BY <1>1, <2>2, <2>5 DEF SmtpInv, StaysSame
<1>7. CASE SmtpReply
  <2>1. call # NoCall /\ ~Unacked
    BY <1>1, <1>7 DEF SmtpReply, Running
  <2> DEFINE p == ReadTo(psock, call, "nl").p
             q == ReadResult("nl")
  <2>2. \/ GoesOn(q) /\ NextStatement
        \/ Returns(q, Close) /\ smtp' = [smtp EXCEPT !.pc = 1]
    BY <1>7 DEF SmtpReply
  <2>3. IsSock(Tokens, q)
    <3>1. IsSock(Tokens, p)
      BY <1>1, ReadToReads
    <3> HIDE DEF p
    <3>2. q = [p EXCEPT !.busy = FALSE]
      BY DEF ReadResult, p
    <3> QED
      BY <3>1, <3>2 DEF IsSock, SockFields
  <2> HIDE DEF q
  <2>4. SockInv(Tokens, Replies)' /\ StaysSame /\ ~Unacked' /\ Sending'
    BY <1>1, <2>1, <2>2, <2>3, SockIsQuiet, SockGoesOn
  <2> QED
    BY <1>3, <2>2, <2>4 DEF SmtpInv, StaysSame
<1>8. CASE SmtpEnd
  <2>1. call # NoCall /\ ~Unacked /\ Returns(psock, Silent) /\ smtp' = [smtp EXCEPT !.pc = 1]
    BY <1>1, <1>8 DEF SmtpEnd, Running
  <2>2. SockInv(Tokens, Replies)' /\ StaysSame /\ ~Unacked' /\ Sending'
    BY <1>1, <2>1, SockIsQuiet
  <2> QED
    BY <1>3, <2>1, <2>2 DEF SmtpInv, StaysSame
<1>9. CASE SmtpOver
  <2>1. call # NoCall /\ EndsIt(call) /\ Returns(psock, Silent)
        /\ smtp' = [smtp EXCEPT !.connected = FALSE]
    BY <1>9 DEF SmtpOver
  <2>2. SockInv(Tokens, Replies)' /\ StaysSame /\ ~Unacked' /\ Sending'
    BY <1>1, <2>1, SockIsQuiet
  <2> QED
    BY <1>3, <2>1, <2>2 DEF SmtpInv, StaysSame
<1>10. CASE UNCHANGED smtpVars
  <2>1. UNCHANGED <<smtp, link, wire, psock, call>>
    BY <1>10 DEF smtpVars
  <2> QED
    BY <1>1, <2>1 DEF SmtpInv, SockInv, Sending, OpenIfOutstanding, RexmitIsSame, Unacked, Happens,
                      AtEnd, Statement
<1> QED
  BY <1>4, <1>5, <1>6, <1>7, <1>8, <1>9, <1>10 DEF SmtpNext

\* A protosocket keeps what it has to send until it is acknowledged: a chunk that is
\* sent again, for a retransmission or with the protothread at another call, is the
\* same chunk, and the program counter waits for it.
THEOREM SmtpRepeats == SmtpSpec => []RexmitIsSame
<1>1. SmtpInv => RexmitIsSame
  BY DEF SmtpInv, SockInv
<1> QED
  BY <1>1, SmtpInitGood, SmtpStepGood, PTL DEF SmtpSpec

-----------------------------------------------------------------------------
(* The dialogue of the SMTP client: what the statements of its program say *)
(* and how many replies they read.                                         *)

\* What has been said and read after one more statement.
Told(x, s) ==
    IF s.op = "send" THEN [said |-> x.said \o s.data, reads |-> x.reads]
    ELSE [said |-> x.said, reads |-> x.reads + 1]

Totals == [said : Seq(Tokens), reads : Nat]

\* t[i] is what the first i statements of p have said and read.
Talks(t, p) ==
    /\ t \in [0 .. Len(p) -> Totals]
    /\ t[0] = [said |-> <<>>, reads |-> 0]
    /\ \A i \in 1 .. Len(p) : t[i] = Told(t[i - 1], p[i])

\* A reply is followed by something to say.
SaysSomething(s) == s.op = "send" /\ s.data # <<>>
TakesTurns(p) ==
    \A i \in 1 .. Len(p) - 1 : p[i].op = "read" => SaysSomething(p[i + 1])

\* Program p says text, reads n replies and ends with a statement op.
Says(p, text, n, op) ==
    /\ p \in Seq(Statements) \ {<<>>} /\ TakesTurns(p) /\ p[Len(p)].op = op
    /\ \E t : Talks(t, p) /\ t[Len(p)] = [said |-> text, reads |-> n]

LEMMA ToldIsTotal ==
    ASSUME NEW x \in Totals, NEW s \in Statements
    PROVE  Told(x, s) \in Totals
<1>1. CASE s.op = "send"
  <2>1. x.said \o s.data \in Seq(Tokens) /\ x.reads \in Nat
    BY <1>1, StatementIs, ConcatProperties DEF Totals
  <2> QED
    BY <1>1, <2>1 DEF Told, Totals
<1>2. CASE s.op # "send"
  BY <1>2 DEF Told, Totals
<1> QED
  BY <1>1, <1>2

LEMMA TalksOn ==
    ASSUME NEW p \in Seq(Statements), NEW t, Talks(t, p), NEW s \in Statements
    PROVE  \E u : /\ Talks(u, p \o <<s>>)
                  /\ u[Len(p) + 1] = Told(t[Len(p)], s)
<1> DEFINE q == p \o <<s>>
           n == Len(p)
           u == [i \in 0 .. n + 1 |-> IF i <= n THEN t[i] ELSE Told(t[n], s)]
<1>1. n \in Nat /\ Len(q) = n + 1 /\ q[n + 1] = s /\ \A i \in 1 .. n : q[i] = p[i]
  OBVIOUS
<1>2. t[n] \in Totals /\ t \in [0 .. n -> Totals] /\ t[0] = [said |-> <<>>, reads |-> 0]
  BY <1>1 DEF Talks
<1>3. \A i \in 1 .. n : t[i] = Told(t[i - 1], p[i])
  BY DEF Talks
<1>4. Told(t[n], s) \in Totals
  BY <1>2, ToldIsTotal
<1> HIDE DEF q, n
<1>5. u \in [0 .. n + 1 -> Totals] /\ u[0] = t[0]
  BY <1>1, <1>2, <1>4
<1>6. ASSUME NEW i \in 1 .. n + 1
      PROVE  u[i] = Told(u[i - 1], q[i])
  <2>1. CASE i \in 1 .. n
    <3>1. u[i] = t[i] /\ u[i - 1] = t[i - 1] /\ q[i] = p[i]
      BY <1>1, <2>1
    <3> QED
      BY <1>3, <2>1, <3>1
  <2>2. CASE i = n + 1
    <3>1. u[i] = Told(t[n], s) /\ u[i - 1] = t[n] /\ q[i] = s
      BY <1>1, <2>2
    <3> QED
      BY <3>1
  <2> QED
    BY <1>1, <2>1, <2>2
<1>7. u[n + 1] = Told(t[n], s)
  BY <1>1
<1> HIDE DEF u
<1>8. Talks(u, q)
  BY <1>1, <1>2, <1>5, <1>6 DEF Talks
<1> QED
  BY <1>7, <1>8 DEF q, n

LEMMA SaysOn ==
    ASSUME NEW p, NEW text, NEW n, NEW op, Says(p, text, n, op),
           NEW s \in Statements, op = "read" => SaysSomething(s)
    PROVE  LET x == Told([said |-> text, reads |-> n], s)
           IN  Says(p \o <<s>>, x.said, x.reads, s.op)
<1> DEFINE q == p \o <<s>>
           x == Told([said |-> text, reads |-> n], s)
<1>1. PICK t : Talks(t, p) /\ t[Len(p)] = [said |-> text, reads |-> n]
  BY DEF Says
<1>2. p \in Seq(Statements) /\ TakesTurns(p) /\ p[Len(p)].op = op /\ Len(p) \in Nat \ {0}
  BY DEF Says
<1>3. PICK u : Talks(u, q) /\ u[Len(p) + 1] = x
  BY <1>1, <1>2, TalksOn
<1>4. /\ q \in Seq(Statements) \ {<<>>} /\ Len(q) = Len(p) + 1 /\ q[Len(q)] = s
      /\ \A i \in 1 .. Len(p) : q[i] = p[i]
  BY <1>2
<1> HIDE DEF q
<1>5. ASSUME NEW i \in 1 .. Len(q) - 1, q[i].op = "read"
      PROVE  SaysSomething(q[i + 1])
  <2>1. CASE i < Len(p)
    <3>1. i \in 1 .. Len(p) - 1 /\ i + 1 \in 1 .. Len(p)
      BY <1>2, <1>4, <2>1
    <3>2. q[i] = p[i] /\ q[i + 1] = p[i + 1]
      BY <1>2, <1>4, <3>1
    <3> QED
      BY <1>2, <1>5, <3>1, <3>2 DEF TakesTurns
  <2>2. CASE i = Len(p)
    <3>1. q[i] = p[i] /\ q[i + 1] = s
      BY <1>2, <1>4, <2>2
    <3> QED
      BY <1>2, <1>5, <2>2, <3>1
  <2> QED
    BY <1>2, <1>4, <2>1, <2>2
<1>6. TakesTurns(q)
  BY <1>5 DEF TakesTurns
<1>7. x = [said |-> x.said, reads |-> x.reads]
  BY DEF Told
<1> HIDE DEF x
<1>8. Says(q, x.said, x.reads, s.op)
  BY <1>3, <1>4, <1>6, <1>7 DEF Says
<1> QED
  BY <1>8 DEF q, x

LEMMA SaysRead ==
    ASSUME NEW p, NEW text, NEW n \in Nat, Says(p, text, n, "send"),
           NEW want, NEW error, Read(want, error) \in Statements
    PROVE  Says(p \o <<Read(want, error)>>, text, n + 1, "read")
<1> DEFINE s == Read(want, error)
           x == Told([said |-> text, reads |-> n], s)
<1>1. s.op = "read" /\ x.said = text /\ x.reads = n + 1
  BY DEF Read, Told
<1>2. Says(p \o <<s>>, x.said, x.reads, s.op)
  BY SaysOn
<1> HIDE DEF s, x
<1> QED
  BY <1>1, <1>2 DEF s

LEMMA SaysSend ==
    ASSUME NEW p, NEW text, NEW n, NEW op, Says(p, text, n, op),
           NEW data \in Seq(Tokens), op = "read" => data # <<>>
    PROVE  Says(p \o <<Send(data)>>, text \o data, n, "send")
<1> DEFINE s == Send(data)
           x == Told([said |-> text, reads |-> n], s)
<1>1. s.op = "send" /\ s.data = data /\ x.said = text \o data /\ x.reads = n
  BY DEF Send, Told
<1>2. s \in Statements
  BY DEF Statements
<1>3. op = "read" => SaysSomething(s)
  BY <1>1 DEF SaysSomething
<1>4. Says(p \o <<s>>, x.said, x.reads, s.op)
  BY <1>2, <1>3, SaysOn
<1> HIDE DEF s, x
<1> QED
  BY <1>1, <1>4 DEF s

LEMMA OneMore ==
    ASSUME NEW S, NEW s \in Seq(S), NEW a \in S
    PROVE  s \o <<a>> = Append(s, a) /\ Append(s, a) \in Seq(S)
BY AppendIsConcat

LEMMA ThreeMore ==
    ASSUME NEW S, NEW s \in Seq(S), NEW a \in S, NEW b \in S, NEW c \in S
    PROVE  Append(Append(Append(s, a), b), c) = s \o <<a, b, c>>
OBVIOUS

TheLine(name, argument) == <<name, argument, "crnl">>

LEMMA LineIsTokens ==
    ASSUME NEW name \in Words, NEW argument \in Words
    PROVE  TheLine(name, argument) \in Seq(Tokens)
<1>1. name \in Tokens /\ argument \in Tokens /\ "crnl" \in Tokens
  BY DEF Tokens, Words
<1> QED
  BY <1>1 DEF TheLine

LEMMA SendIsStatement ==
    ASSUME NEW data \in Seq(Tokens)
    PROVE  Send(data) \in Statements
BY DEF Statements

LEMMA SaysToken ==
    ASSUME NEW p, NEW text \in Seq(Tokens), NEW n, NEW op, Says(p, text, n, op),
           NEW token \in Words
    PROVE  /\ Says(Append(p, Send(<<token>>)), Append(text, token), n, "send")
           /\ Append(text, token) \in Seq(Tokens)
<1> DEFINE data == <<token>>
           s == Send(data)
<1>1. token \in Tokens
  BY DEF Tokens
<1>2. data \in Seq(Tokens) /\ data # <<>>
  BY <1>1
<1>3. p \in Seq(Statements) /\ s \in Statements
  BY <1>2, SendIsStatement DEF Says
<1>4. text \o data = Append(text, token) /\ Append(text, token) \in Seq(Tokens)
  BY <1>1, OneMore
<1> HIDE DEF data
<1>5. Says(p \o <<s>>, text \o data, n, "send")
  BY <1>2, SaysSend
<1> HIDE DEF s
<1>6. p \o <<s>> = Append(p, s)
  BY <1>3, OneMore
<1>7. Says(Append(p, s), Append(text, token), n, "send")
  BY <1>4, <1>5, <1>6, Zenon
<1> QED
  BY <1>4, <1>7 DEF s, data

LEMMA SaysLine ==
    ASSUME NEW p, NEW text \in Seq(Tokens), NEW n, NEW op, Says(p, text, n, op),
           NEW name \in Words, NEW argument \in Words
    PROVE  /\ Says(p \o Line(name, argument), text \o TheLine(name, argument), n, "send")
           /\ text \o TheLine(name, argument) \in Seq(Tokens)
<1> DEFINE a == Send(<<name>>)
           b == Send(<<argument>>)
           c == Send(<<"crnl">>)
           pa == Append(p, a)
           pb == Append(pa, b)
           pc == Append(pb, c)
           ta == Append(text, name)
           tb == Append(ta, argument)
           tc == Append(tb, "crnl")
<1>1. name \in Tokens /\ argument \in Tokens /\ "crnl" \in Tokens /\ "crnl" \in Words
  BY DEF Tokens, Words
<1>2. /\ <<name>> \in Seq(Tokens) /\ <<argument>> \in Seq(Tokens) /\ <<"crnl">> \in Seq(Tokens)
  BY <1>1
<1>3. a \in Statements /\ b \in Statements /\ c \in Statements /\ p \in Seq(Statements)
  BY <1>2, SendIsStatement DEF Says
<1>4. tc = text \o TheLine(name, argument)
  BY <1>1, ThreeMore DEF TheLine
<1>5. pc = p \o Line(name, argument)
  <2>1. Line(name, argument) = <<a, b, c>>
    BY DEF Line
  <2> HIDE DEF a, b, c
  <2>2. pc = p \o <<a, b, c>>
    BY <1>3, ThreeMore
  <2> QED
    BY <2>1, <2>2
<1>6. Says(pa, ta, n, "send") /\ ta \in Seq(Tokens)
  BY SaysToken
<1> HIDE DEF ta, pa
<1>7. Says(pb, tb, n, "send") /\ tb \in Seq(Tokens)
  BY <1>6, SaysToken
<1> HIDE DEF tb, pb
<1>8. Says(pc, tc, n, "send") /\ tc \in Seq(Tokens)
  BY <1>1, <1>7, SaysToken
<1> QED
  BY <1>4, <1>5, <1>8, Zenon

\* The program begins with the greeting.
LEMMA SaysNothing ==
    ASSUME NEW want, NEW error, Read(want, error) \in Statements
    PROVE  Says(<<Read(want, error)>>, <<>>, 1, "read")
<1> DEFINE s == Read(want, error)
           t == [i \in {0} |-> [said |-> <<>>, reads |-> 0]]
<1>1. <<>> \in Seq(Tokens) /\ <<>> \in Seq(Statements) /\ Len(<<>>) = 0
  OBVIOUS
<1>2. t \in [0 .. 0 -> Totals] /\ t[0] = [said |-> <<>>, reads |-> 0]
  BY <1>1 DEF Totals
<1> HIDE DEF t
<1>3. Talks(t, <<>>)
  BY <1>1, <1>2 DEF Talks
<1>4. s.op = "read" /\ Told(t[0], s) = [said |-> <<>>, reads |-> 1]
  BY <1>2 DEF Read, Told
<1> HIDE DEF s
<1>5. s \in Statements
  BY DEF s
<1>6. PICK u : Talks(u, <<>> \o <<s>>) /\ u[Len(<<>>) + 1] = Told(t[Len(<<>>)], s)
  BY <1>1, <1>3, <1>5, TalksOn
<1>7. <<>> \o <<s>> = <<s>> /\ Len(<<s>>) = 1 /\ <<s>>[1] = s /\ <<s>> \in Seq(Statements) \ {<<>>}
  BY <1>5
<1>8. Talks(u, <<s>>) /\ u[1] = [said |-> <<>>, reads |-> 1]
  BY <1>1, <1>4, <1>6, <1>7
<1>9. TakesTurns(<<s>>)
  BY <1>7 DEF TakesTurns
<1>10. Says(<<s>>, <<>>, 1, "read")
  BY <1>4, <1>7, <1>8, <1>9 DEF Says
<1> QED
  BY <1>10 DEF s

-----------------------------------------------------------------------------
Spoken == INSTANCE FoldTheorems WITH Op <- LAMBDA c, stream, command : stream \o command

LEMMA DialogueFolds ==
    ASSUME NEW cc
    PROVE  Dialogue(cc) = Spoken!Folded(0, <<>>, Commands(cc))
BY DEF Dialogue, Spoken!Folded, Spoken!FoldLeft, FoldLeft, Spoken!MapThenFoldSet, MapThenFoldSet,
       Spoken!Max, Max

\* The mail, which is one command to the server.
Letter(cc) ==
    <<"to", "to", "crnl">> \o (IF cc THEN <<"cc", "cc", "crnl">> ELSE <<>>)
        \o <<"from", "from", "crnl", "subject", "subject", "crnl">> \o SmtpMsg \o <<"period">>

LEMMA Joined ==
    ASSUME NEW S, NEW r \in S, NEW s \in S, NEW t \in S, NEW u \in S,
           NEW v \in S, NEW w \in S, NEW x \in S, NEW y \in S
    PROVE  /\ LET q == (<<r, s, t, u>> \o <<v>>) \o <<w, x, y>>
              IN  /\ q \in Seq(S) /\ Len(q) = 8 /\ q[1] = r /\ q[2] = s /\ q[3] = t /\ q[4] = u
                  /\ q[5] = v /\ q[6] = w /\ q[7] = x /\ q[8] = y
           /\ LET q == (<<r, s, t, u>> \o <<>>) \o <<w, x, y>>
              IN  /\ q \in Seq(S) /\ Len(q) = 7 /\ q[1] = r /\ q[2] = s /\ q[3] = t /\ q[4] = u
                  /\ q[5] = w /\ q[6] = x /\ q[7] = y
OBVIOUS

LEMMA LetterIsTokens ==
    ASSUME NEW cc \in BOOLEAN
    PROVE  Letter(cc) \in Seq(Tokens)
<1> DEFINE copy == IF cc THEN <<"cc", "cc", "crnl">> ELSE <<>>
           from == <<"from", "from", "crnl", "subject", "subject", "crnl">>
           to == <<"to", "to", "crnl">>
           end == <<"period">>
<1>1. {"to", "crnl", "cc", "from", "subject", "period"} \subseteq Tokens
  BY DEF Tokens, Words
<1>2. to \in Seq(Tokens) /\ from \in Seq(Tokens) /\ end \in Seq(Tokens) /\ copy \in Seq(Tokens)
  BY <1>1
<1>3. Letter(cc) = ((to \o copy) \o from) \o SmtpMsg \o end
  BY DEF Letter
<1> HIDE DEF to, from, end, copy
<1>4. SmtpMsg \in Seq(Tokens)
  BY MessageIsTokens
<1> QED
  BY <1>2, <1>3, <1>4

\* One stream after another, so that the provers do not look into them.
Then(a, b) == a \o b

\* The commands one after the other.
LEMMA DialogueIs ==
    ASSUME NEW cc \in BOOLEAN
    PROVE  LET start == (TheLine("helo", "host") \o TheLine("mail from", "from"))
                            \o TheLine("rcpt to", "to")
               whole == IF cc THEN start \o TheLine("rcpt to", "cc") ELSE start
           IN  /\ Dialogue(cc) = ((whole \o <<"data">>) \o Letter(cc)) \o <<"quit">>
               /\ Len(Commands(cc)) = IF cc THEN 8 ELSE 7
<1> DEFINE none == <<>>
           helo == TheLine("helo", "host")
           from == TheLine("mail from", "from")
           to == TheLine("rcpt to", "to")
           copy == TheLine("rcpt to", "cc")
           data == <<"data">>
           letter == Letter(cc)
           quit == <<"quit">>
           S == Seq(Tokens)
           commands == Commands(cc)
<1>1. /\ none \in S /\ helo \in S /\ from \in S /\ to \in S /\ copy \in S
      /\ data \in S /\ letter \in S /\ quit \in S
  <2>1. {"helo", "host", "mail from", "from", "rcpt to", "to", "cc", "data", "quit"} \subseteq Words
    BY DEF Words
  <2>2. "data" \in Tokens /\ "quit" \in Tokens
    BY DEF Tokens, Words
  <2>3. none \in S /\ data \in S /\ quit \in S
    BY <2>2
  <2> QED
    BY <2>1, <2>3, LineIsTokens, LetterIsTokens
<1>2. commands = (<<none, helo, from, to>> \o (IF cc THEN <<copy>> ELSE <<>>))
                     \o <<data, letter, quit>>
  BY DEF Commands, TheLine, Letter
<1>3. Dialogue(cc) = Spoken!Folded(0, none, commands)
  BY DialogueFolds
<1> HIDE DEF helo, from, to, copy, data, letter, quit, commands
<1>4. Then(none, none) = none /\ Then(none, helo) = helo
  BY <1>1, ConcatEmptySeq DEF Then
<1> HIDE DEF none, S
<1>5. commands \in Seq(S)
  <2>1. CASE cc
    BY <1>1, <1>2, <2>1, Joined
  <2>2. CASE ~cc
    BY <1>1, <1>2, <2>2, Joined
  <2> QED
    BY <2>1, <2>2
<1>6. PICK f : Spoken!IsHistory(0, f, none, commands)
  BY <1>5, Spoken!FoldLeftSteps, Zenon
<1>7. /\ f[0] = none /\ f[Len(commands)] = Dialogue(cc)
      /\ \A k \in 1 .. Len(commands) : f[k] = Then(f[k - 1], commands[k])
  BY <1>3, <1>6 DEF Spoken!IsHistory, Then
<1>8. CASE cc
  <2>1. /\ Len(commands) = 8 /\ commands[1] = none /\ commands[2] = helo /\ commands[3] = from
        /\ commands[4] = to /\ commands[5] = copy /\ commands[6] = data /\ commands[7] = letter
        /\ commands[8] = quit
    BY <1>1, <1>2, <1>8, Joined
  <2>2. f[1] = Then(f[0], none) /\ f[2] = Then(f[1], helo) /\ f[3] = Then(f[2], from) /\ f[4] = Then(f[3], to)
    BY <1>7, <2>1
  <2>3. f[5] = Then(f[4], copy) /\ f[6] = Then(f[5], data) /\ f[7] = Then(f[6], letter) /\ f[8] = Then(f[7], quit)
    BY <1>7, <2>1
  <2>4. f[2] = helo
    BY <1>4, <1>7, <2>2
  <2>5. Dialogue(cc) = Then(Then(Then(Then(Then(Then(helo, from), to), copy), data), letter), quit)
    BY <1>7, <2>1, <2>2, <2>3, <2>4
  <2> QED
    BY <1>8, <2>1, <2>5 DEF Then, helo, from, to, copy, data, letter, quit, commands
<1>9. CASE ~cc
  <2>1. /\ Len(commands) = 7 /\ commands[1] = none /\ commands[2] = helo /\ commands[3] = from
        /\ commands[4] = to /\ commands[5] = data /\ commands[6] = letter /\ commands[7] = quit
    BY <1>1, <1>2, <1>9, Joined
  <2>2. f[1] = Then(f[0], none) /\ f[2] = Then(f[1], helo) /\ f[3] = Then(f[2], from) /\ f[4] = Then(f[3], to)
    BY <1>7, <2>1
  <2>3. f[5] = Then(f[4], data) /\ f[6] = Then(f[5], letter) /\ f[7] = Then(f[6], quit)
    BY <1>7, <2>1
  <2>4. f[2] = helo
    BY <1>4, <1>7, <2>2
  <2>5. Dialogue(cc) = Then(Then(Then(Then(Then(helo, from), to), data), letter), quit)
    BY <1>7, <2>1, <2>2, <2>3, <2>4
  <2> QED
    BY <1>9, <2>1, <2>5 DEF Then, helo, from, to, copy, data, letter, quit, commands
<1> QED
  BY <1>8, <1>9

LEMMA ThenIsFlat ==
    ASSUME NEW S, NEW a \in Seq(S), NEW b \in Seq(S), NEW c \in Seq(S)
    PROVE  Then(a, b) \in Seq(S) /\ Then(Then(a, b), c) = Then(a, Then(b, c))
BY DEF Then

\* The letter, as the statements of the program say it.
LEMMA LetterIsSaid ==
    ASSUME NEW cc \in BOOLEAN, NEW d \in Seq(Tokens)
    PROVE  LET to == d \o TheLine("to", "to")
               copied == IF cc THEN to \o TheLine("cc", "cc") ELSE to
           IN  (((copied \o TheLine("from", "from")) \o TheLine("subject", "subject"))
                    \o SmtpMsg) \o <<"period">> = d \o Letter(cc)
<1> DEFINE to == TheLine("to", "to")
           copy == TheLine("cc", "cc")
           copies == IF cc THEN copy ELSE <<>>
           from == TheLine("from", "from")
           subject == TheLine("subject", "subject")
           heads == <<"from", "from", "crnl", "subject", "subject", "crnl">>
           period == <<"period">>
           dto == d \o to
<1>1. /\ to \in Seq(Tokens) /\ copy \in Seq(Tokens) /\ from \in Seq(Tokens)
      /\ subject \in Seq(Tokens) /\ copies \in Seq(Tokens)
  <2>1. {"to", "cc", "from", "subject"} \subseteq Words
    BY DEF Words
  <2> QED
    BY <2>1, LineIsTokens
<1>2. period \in Seq(Tokens) /\ SmtpMsg \in Seq(Tokens)
  <2>1. "period" \in Tokens
    BY DEF Tokens, Words
  <2> QED
    BY <2>1, MessageIsTokens
<1>3. heads = Then(from, subject)
  BY DEF TheLine, Then
<1>4. Letter(cc) = Then(Then(Then(Then(to, copies), heads), SmtpMsg), period)
  BY DEF Letter, TheLine, Then
<1> DEFINE S == Seq(Tokens)
<1> HIDE DEF to, copy, from, subject, heads, period
<1>5. Then(d, to) \in S /\ Then(Then(d, to), <<>>) = Then(d, to)
  BY <1>1, ConcatEmptySeq, ThenIsFlat DEF Then
<1>6. Then(Then(d, to), copies) = IF cc THEN Then(Then(d, to), copy) ELSE Then(d, to)
  BY <1>5
<1>7. \A x, y, z \in S : Then(x, y) \in S /\ Then(Then(x, y), z) = Then(x, Then(y, z))
  BY ThenIsFlat
<1>8. d \in S /\ to \in S /\ copies \in S /\ from \in S /\ subject \in S /\ SmtpMsg \in S /\ period \in S
  BY <1>1, <1>2
<1> HIDE DEF copies, S
<1> DEFINE copied == Then(Then(d, to), copies)
           headed == Then(Then(to, copies), heads)
<1>9. Then(d, Letter(cc)) = Then(Then(Then(Then(copied, from), subject), SmtpMsg), period)
  <2>1. Then(to, copies) \in S /\ heads \in S /\ headed \in S /\ copied \in S
    BY <1>3, <1>7, <1>8
  <2>2. Then(d, headed) = Then(copied, heads)
    BY <1>7, <1>8, <2>1
  <2>3. Then(d, headed) = Then(Then(copied, from), subject)
    BY <1>3, <1>7, <1>8, <2>1, <2>2
  <2> HIDE DEF headed, copied
  <2>4. Then(d, Then(headed, SmtpMsg)) = Then(Then(d, headed), SmtpMsg) /\ Then(headed, SmtpMsg) \in S
    BY <1>7, <1>8, <2>1
  <2>5. Then(d, Then(Then(headed, SmtpMsg), period)) = Then(Then(d, Then(headed, SmtpMsg)), period)
    BY <1>7, <1>8, <2>4
  <2> QED
    BY <1>4, <2>3, <2>4, <2>5 DEF headed
<1> HIDE DEF copied
<1>10. copied = IF cc THEN Then(Then(d, to), copy) ELSE Then(d, to)
  BY <1>6 DEF copied
<1> QED
  BY <1>9, <1>10 DEF Then, to, copy, from, subject, period

LEMMA TwoMore ==
    ASSUME NEW S, NEW p \in Seq(S), NEW a \in S, NEW b \in S
    PROVE  (p \o <<a>>) \o <<b>> = p \o <<a, b>>
<1>1. p \o <<a>> = Append(p, a) /\ Append(p, a) \in Seq(S)
  BY OneMore
<1>2. Append(p, a) \o <<b>> = Append(Append(p, a), b)
  BY <1>1, OneMore
<1>3. p \o <<a, b>> = Append(Append(p, a), b)
  OBVIOUS
<1> QED
  BY <1>1, <1>2, <1>3, Zenon

LEMMA LineIsStatements ==
    ASSUME NEW name \in Words, NEW argument \in Words
    PROVE  Line(name, argument) \in Seq(Statements)
<1>1. name \in Tokens /\ argument \in Tokens /\ "crnl" \in Tokens
  BY DEF Tokens, Words
<1>2. /\ <<name>> \in Seq(Tokens) /\ <<argument>> \in Seq(Tokens) /\ <<"crnl">> \in Seq(Tokens)
  BY <1>1
<1>3. /\ Send(<<name>>) \in Statements /\ Send(<<argument>>) \in Statements
      /\ Send(<<"crnl">>) \in Statements
  BY <1>2, SendIsStatement
<1> QED
  BY <1>3 DEF Line

\* The program says the dialogue and reads a reply to every command but the last.
LEMMA ProgramSays ==
    ASSUME NEW cc \in BOOLEAN
    PROVE  Says(Program(cc), Dialogue(cc), Len(Commands(cc)) - 1, "send")
<1> DEFINE copy == IF cc THEN Line("rcpt to", "cc") \o <<Read("2", 6)>> ELSE <<>>
           copies == IF cc THEN Line("cc", "cc") ELSE <<>>
           n8 == IF cc THEN 5 ELSE 4
           data == <<"data">>
           period == <<"period">>
           quit == <<"quit">>
           p1 == <<Read("220", 2)>>
           p2 == p1 \o Line("helo", "host")
           t2 == TheLine("helo", "host")
           p3 == p2 \o <<Read("2", 3)>>
           p4 == p3 \o Line("mail from", "from")
           t4 == t2 \o TheLine("mail from", "from")
           p5 == p4 \o <<Read("2", 4)>>
           p6 == p5 \o Line("rcpt to", "to")
           t6 == t4 \o TheLine("rcpt to", "to")
           p7 == p6 \o <<Read("2", 5)>>
           p8 == p7 \o copy
           t8 == IF cc THEN t6 \o TheLine("rcpt to", "cc") ELSE t6
           p9 == p8 \o <<Send(data), Read("3", 7)>>
           t9 == t8 \o data
           p10 == p9 \o Line("to", "to")
           t10 == t9 \o TheLine("to", "to")
           p11 == p10 \o copies
           t11 == IF cc THEN t10 \o TheLine("cc", "cc") ELSE t10
           p12 == p11 \o Line("from", "from")
           t12 == t11 \o TheLine("from", "from")
           p13 == p12 \o Line("subject", "subject")
           t13 == t12 \o TheLine("subject", "subject")
           p14 == p13 \o <<Send(SmtpMsg), Send(period), Read("2", 8), Send(quit)>>
           t14 == ((t13 \o SmtpMsg) \o period) \o quit
<1>1. Program(cc) = p14
  BY Zenon DEF Program
<1>3. /\ Read("220", 2) \in Statements /\ Read("2", 3) \in Statements /\ Read("2", 4) \in Statements
      /\ Read("2", 5) \in Statements /\ Read("2", 6) \in Statements /\ Read("3", 7) \in Statements
      /\ Read("2", 8) \in Statements
  BY DEF Statements
<1>4. {"helo", "host", "mail from", "from", "rcpt to", "to", "cc", "subject"} \subseteq Words
  BY DEF Words
<1>5. /\ data \in Seq(Tokens) \ {<<>>} /\ period \in Seq(Tokens) \ {<<>>}
      /\ quit \in Seq(Tokens) \ {<<>>} /\ SmtpMsg \in Seq(Tokens)
  <2>1. "data" \in Tokens /\ "period" \in Tokens /\ "quit" \in Tokens
    BY DEF Tokens, Words
  <2> QED
    BY <2>1, MessageIsTokens
<1> HIDE DEF data, period, quit, n8
<1>6. t2 \in Seq(Tokens) /\ <<>> \in Seq(Tokens) /\ <<>> \o t2 = t2
  <2>1. t2 \in Seq(Tokens)
    BY <1>4, LineIsTokens
  <2> HIDE DEF t2
  <2> QED
    BY <2>1, ConcatEmptySeq
<1> HIDE DEF t2
<1>7. Says(p1, <<>>, 1, "read")
  BY <1>3, SaysNothing
<1> HIDE DEF p1
<1>8. Says(p2, t2, 1, "send")
  <2>1. Says(p2, <<>> \o TheLine("helo", "host"), 1, "send")
    BY <1>4, <1>6, <1>7, SaysLine
  <2> QED
    BY <1>6, <2>1 DEF t2
<1> HIDE DEF p2
<1>9. Says(p3, t2, 2, "read")
  BY <1>3, <1>8, SaysRead
<1> HIDE DEF p3
<1>10. Says(p4, t4, 2, "send") /\ t4 \in Seq(Tokens)
  BY <1>4, <1>6, <1>9, SaysLine
<1> HIDE DEF p4, t4
<1>11. Says(p5, t4, 3, "read")
  BY <1>3, <1>10, SaysRead
<1> HIDE DEF p5
<1>12. Says(p6, t6, 3, "send") /\ t6 \in Seq(Tokens)
  BY <1>4, <1>10, <1>11, SaysLine
<1> HIDE DEF p6, t6
<1>13. Says(p7, t6, 4, "read")
  BY <1>3, <1>12, SaysRead
<1> HIDE DEF p7
<1>14. Says(p8, t8, n8, "read") /\ t8 \in Seq(Tokens) /\ n8 \in Nat
  <2>1. CASE cc
    <3> DEFINE line == Line("rcpt to", "cc")
               text == t6 \o TheLine("rcpt to", "cc")
               read == Read("2", 6)
    <3>1. Says(p7 \o line, text, 4, "send") /\ text \in Seq(Tokens)
      BY <1>4, <1>12, <1>13, SaysLine
    <3>2. t8 = text /\ n8 = 5
      BY <2>1 DEF n8
    <3>3. p8 = (p7 \o line) \o <<read>>
      <4>1. p7 \in Seq(Statements) /\ line \in Seq(Statements) /\ <<read>> \in Seq(Statements)
        <5>1. p7 \in Seq(Statements)
          BY <1>13 DEF Says
        <5>2. line \in Seq(Statements)
          BY <1>4, LineIsStatements
        <5> HIDE DEF line, read
        <5>3. read \in Statements
          BY <1>3 DEF read
        <5> QED
          BY <5>1, <5>2, <5>3
      <4>2. p8 = p7 \o (line \o <<read>>)
        BY <2>1
      <4> HIDE DEF line, read, p8
      <4> QED
        BY <4>1, <4>2
    <3> HIDE DEF text, line
    <3>4. Says((p7 \o line) \o <<read>>, text, 4 + 1, "read")
      BY <1>3, <3>1, SaysRead
    <3> HIDE DEF p8, t8
    <3> QED
      BY <3>1, <3>2, <3>3, <3>4
  <2>2. CASE ~cc
    <3>1. p7 \in Seq(Statements)
      BY <1>13 DEF Says
    <3>2. p8 = p7 /\ t8 = t6 /\ n8 = 4
      BY <2>2, <3>1, ConcatEmptySeq DEF n8
    <3> HIDE DEF p8, t8
    <3> QED
      BY <1>12, <1>13, <3>2
  <2> QED
    BY <2>1, <2>2
<1> HIDE DEF p8, t8
<1>15. Says(p9, t9, n8 + 1, "read") /\ t9 \in Seq(Tokens)
  <2> DEFINE s == Send(data)
             read == Read("3", 7)
             q == p8 \o <<s>>
  <2>1. Says(q, t9, n8, "send")
    BY <1>5, <1>14, SaysSend
  <2>2. t9 \in Seq(Tokens)
    BY <1>5, <1>14
  <2>3. s \in Statements /\ read \in Statements /\ p8 \in Seq(Statements)
    BY <1>3, <1>5, <1>14, SendIsStatement DEF Says
  <2> HIDE DEF s, q, t9
  <2>4. Says(q \o <<read>>, t9, n8 + 1, "read")
    BY <1>3, <1>14, <2>1, SaysRead
  <2> HIDE DEF read
  <2>5. q \o <<read>> = p8 \o <<s, read>>
    BY <2>3, TwoMore DEF q
  <2> QED
    BY <2>2, <2>4, <2>5 DEF s, read
<1> HIDE DEF p9, t9
<1>16. Says(p10, t10, n8 + 1, "send") /\ t10 \in Seq(Tokens)
  BY <1>4, <1>15, SaysLine
<1> HIDE DEF p10, t10
<1>17. Says(p11, t11, n8 + 1, "send") /\ t11 \in Seq(Tokens)
  <2>1. CASE cc
    <3>1. p11 = p10 \o Line("cc", "cc") /\ t11 = t10 \o TheLine("cc", "cc")
      BY <2>1
    <3> HIDE DEF p11, t11
    <3> QED
      BY <1>4, <1>16, <3>1, SaysLine
  <2>2. CASE ~cc
    <3>1. p10 \in Seq(Statements)
      BY <1>16 DEF Says
    <3>2. p11 = p10 /\ t11 = t10
      BY <2>2, <3>1, ConcatEmptySeq
    <3> HIDE DEF p11, t11
    <3> QED
      BY <1>16, <3>2
  <2> QED
    BY <2>1, <2>2
<1> HIDE DEF p11, t11
<1>18. Says(p12, t12, n8 + 1, "send") /\ t12 \in Seq(Tokens)
  BY <1>4, <1>17, SaysLine
<1> HIDE DEF p12, t12
<1>19. Says(p13, t13, n8 + 1, "send") /\ t13 \in Seq(Tokens)
  BY <1>4, <1>18, SaysLine
<1> HIDE DEF p13, t13
<1>20. Says(p14, t14, n8 + 2, "send")
  <2> DEFINE a == Send(SmtpMsg)
             b == Send(period)
             c == Read("2", 8)
             d == Send(quit)
             pa == p13 \o <<a>>
             ta == t13 \o SmtpMsg
             pb == pa \o <<b>>
             tb == ta \o period
             pc == pb \o <<c>>
             pd == pc \o <<d>>
  <2>1. Says(pa, ta, n8 + 1, "send")
    BY <1>5, <1>19, SaysSend
  <2>2. /\ a \in Statements /\ b \in Statements /\ c \in Statements /\ d \in Statements
        /\ p13 \in Seq(Statements)
    BY <1>3, <1>5, <1>19, SendIsStatement DEF Says
  <2> HIDE DEF ta, pa
  <2>3. Says(pb, tb, n8 + 1, "send")
    BY <1>5, <2>1, SaysSend
  <2> HIDE DEF tb, pb
  <2>4. Says(pc, tb, n8 + 1 + 1, "read")
    BY <1>3, <1>14, <2>3, SaysRead
  <2> HIDE DEF pc
  <2>5. Says(pd, tb \o quit, n8 + 1 + 1, "send")
    BY <1>5, <2>4, SaysSend
  <2> HIDE DEF a, b, c, d
  <2>6. pd = p13 \o <<a, b, c, d>>
    <3>1. pa = Append(p13, a) /\ Append(p13, a) \in Seq(Statements)
      BY <2>2, OneMore DEF pa
    <3>2. pb = Append(pa, b) /\ Append(pa, b) \in Seq(Statements)
      BY <2>2, <3>1, OneMore DEF pb
    <3>3. pc = Append(pb, c) /\ Append(pb, c) \in Seq(Statements)
      BY <2>2, <3>2, OneMore DEF pc
    <3>4. pd = Append(pc, d)
      BY <2>2, <3>3, OneMore
    <3> HIDE DEF pd
    <3>5. p13 \o <<a, b, c, d>> = Append(Append(Append(Append(p13, a), b), c), d)
      BY <2>2
    <3> QED
      BY <3>1, <3>2, <3>3, <3>4, <3>5, Zenon
  <2> HIDE DEF pd
  <2>7. tb \o quit = t14 /\ n8 + 1 + 1 = n8 + 2
    BY <1>14 DEF tb, ta
  <2>8. p14 = pd
    BY <2>6 DEF a, b, c, d
  <2> HIDE DEF p14, t14
  <2> QED
    BY <2>5, <2>7, <2>8
<1>21. t14 = Dialogue(cc)
  <2>1. Dialogue(cc) = (t9 \o Letter(cc)) \o quit
    BY DialogueIs, Zenon DEF t9, t8, t6, t4, t2, data, quit
  <2>2. (t13 \o SmtpMsg) \o period = t9 \o Letter(cc)
    BY <1>15, LetterIsSaid, Zenon DEF t13, t12, t11, t10, period
  <2> QED
    BY <2>1, <2>2, Zenon DEF t14
<1>22. n8 + 2 = Len(Commands(cc)) - 1
  <2>1. Len(Commands(cc)) = IF cc THEN 8 ELSE 7
    BY DialogueIs, Zenon
  <2> QED
    BY <2>1 DEF n8
<1> QED
  BY <1>1, <1>20, <1>21, <1>22 DEF p14

-----------------------------------------------------------------------------
(* The SMTP client and its server stay in step.                            *)

\* What the first statements of the program have said and read.
Talk(cc) ==
    CHOOSE t : /\ Talks(t, Program(cc))
               /\ t[Len(Program(cc))] = [said |-> Dialogue(cc), reads |-> Len(Commands(cc)) - 1]

LEMMA TalkIs ==
    ASSUME NEW cc \in BOOLEAN
    PROVE  /\ Program(cc) \in Seq(Statements) /\ Len(Program(cc)) \in Nat \ {0}
           /\ TakesTurns(Program(cc)) /\ Program(cc)[Len(Program(cc))].op = "send"
           /\ Talk(cc)[0] = [said |-> <<>>, reads |-> 0]
           /\ Talk(cc)[Len(Program(cc))].said = Dialogue(cc)
           /\ Talk(cc)[Len(Program(cc))].reads = Len(Commands(cc)) - 1
           /\ \A i \in 0 .. Len(Program(cc)) : Talk(cc)[i] \in Totals
           /\ \A i \in 1 .. Len(Program(cc)) :
                  Talk(cc)[i] = Told(Talk(cc)[i - 1], Program(cc)[i])
<1> DEFINE p == Program(cc)
           end == [said |-> Dialogue(cc), reads |-> Len(Commands(cc)) - 1]
           t == Talk(cc)
<1>1. Says(p, Dialogue(cc), Len(Commands(cc)) - 1, "send")
  BY ProgramSays
<1>2. p \in Seq(Statements) \ {<<>>} /\ TakesTurns(p) /\ p[Len(p)].op = "send"
  BY <1>1 DEF Says
<1>3. \E u : Talks(u, p) /\ u[Len(p)] = end
  BY <1>1, Zenon DEF Says
<1>4. Talks(t, p) /\ t[Len(p)] = end
  BY <1>3, Zenon DEF Talk
<1>5. end.said = Dialogue(cc) /\ end.reads = Len(Commands(cc)) - 1
  OBVIOUS
<1> HIDE DEF end, t, p
<1>6. Len(p) \in Nat \ {0}
  BY <1>2
<1>7. t \in [0 .. Len(p) -> Totals] /\ t[0] = [said |-> <<>>, reads |-> 0]
      /\ \A i \in 1 .. Len(p) : t[i] = Told(t[i - 1], p[i])
  BY <1>4, Zenon DEF Talks
<1>8. \A i \in 0 .. Len(p) : t[i] \in Totals
  BY <1>7
<1>9. t[Len(p)].said = Dialogue(cc) /\ t[Len(p)].reads = Len(Commands(cc)) - 1
  BY <1>4, <1>5
<1> QED
  BY <1>2, <1>6, <1>7, <1>8, <1>9, Zenon DEF p, t

\* One statement further.
LEMMA TalkGoesOn ==
    ASSUME NEW cc \in BOOLEAN, NEW pc \in Nat \ {0}, pc <= Len(Program(cc))
    PROVE  /\ Program(cc)[pc] \in Statements
           /\ Talk(cc)[pc - 1] \in Totals /\ Talk(cc)[pc] \in Totals
           /\ Talk(cc)[pc] = Told(Talk(cc)[pc - 1], Program(cc)[pc])
<1> DEFINE p == Program(cc)
           t == Talk(cc)
<1>1. /\ p \in Seq(Statements) /\ Len(p) \in Nat
      /\ \A i \in 0 .. Len(p) : t[i] \in Totals
      /\ \A i \in 1 .. Len(p) : t[i] = Told(t[i - 1], p[i])
  BY TalkIs
<1> HIDE DEF p, t
<1>2. pc <= Len(p)
  BY DEF p
<1>3. pc \in 1 .. Len(p) /\ pc \in 0 .. Len(p) /\ pc - 1 \in 0 .. Len(p)
  BY <1>1, <1>2
<1> QED
  BY <1>1, <1>3 DEF p, t

\* The event brings the end of a reply.
Brings(e) == \E i \in DOMAIN e.data : e.data[i] = "nl"

\* A reply is owed while its end is still to be sent.
Owed(reply) == IF reply = <<>> THEN 0 ELSE 1

\* The end of a reply that came with this call and is not read yet.
Runs(e) == e # NoCall /\ ~EndsIt(e)
Coming(p, e) == IF Runs(e) /\ Brings(e) /\ p.state # "READ" THEN 1 ELSE 0

LEMMA RepliesAre ==
    ASSUME NEW e \in Events(Replies)
    PROVE  /\ Newdata(e) => \/ e.data = <<"nl">>
                             \/ \E c \in SmtpCodes : e.data \in {<<c, "nl">>, <<c>>}
           /\ \A c \in SmtpCodes : e.data = <<c>> => ~Brings(e)
           /\ ~Newdata(e) => ~Brings(e)
           /\ Newdata(e) => Len(e.data) \in {1, 2}
<1>1. e.data \in Replies \cup {<<>>}
  BY EventHas
<1>2. \A c \in SmtpCodes : c # "nl"
  BY SmtpAssumption
<1>3. ASSUME NEW c \in SmtpCodes, e.data = <<c>>
      PROVE  ~Brings(e)
  BY <1>2, <1>3 DEF Brings
<1>4. ~Newdata(e) => ~Brings(e)
  BY DEF Newdata, Brings
<1>5. e.data = <<"nl">> \/ e.data = <<>> \/ \E c \in SmtpCodes : e.data \in {<<c, "nl">>, <<c>>}
  BY <1>1 DEF Replies
<1>6. Newdata(e) => Len(e.data) \in {1, 2}
  <2>1. e.data = <<"nl">> => Len(e.data) = 1
    OBVIOUS
  <2>2. ASSUME NEW c, e.data \in {<<c, "nl">>, <<c>>}
        PROVE  Len(e.data) \in {1, 2}
    <3>1. e.data = <<c, "nl">> => Len(e.data) = 2
      OBVIOUS
    <3>2. e.data = <<c>> => Len(e.data) = 1
      OBVIOUS
    <3> QED
      BY <2>2, <3>1, <3>2
  <2> DEFINE n == Len(e.data)
             pairs == \E c \in SmtpCodes : e.data \in {<<c, "nl">>, <<c>>}
  <2>3. pairs => n \in {1, 2}
    BY <2>2
  <2>4. e.data = <<"nl">> => n = 1
    BY <2>1
  <2> HIDE DEF n, pairs
  <2>5. Newdata(e) => n \in {1, 2}
    <3>1. Newdata(e) => e.data = <<"nl">> \/ pairs
      BY <1>5 DEF pairs, Newdata
    <3> QED
      BY <2>3, <2>4, <3>1
  <2> QED
    BY <2>5 DEF n
<1> QED
  BY <1>3, <1>4, <1>5, <1>6 DEF Newdata

LEMMA OneIs ==
    ASSUME NEW S, NEW s \in Seq(S), Len(s) = 1
    PROVE  s = <<s[1]>>
<1> DEFINE t == <<s[1]>>
<1>1. t \in Seq(S) /\ Len(t) = 1 /\ t[1] = s[1]
  OBVIOUS
<1> HIDE DEF t
<1>2. \A i \in 1 .. Len(s) : s[i] = t[i]
  BY <1>1
<1>3. s = t
  BY <1>1, <1>2, SeqEqual
<1> QED
  BY <1>3 DEF t

LEMMA PairIsCut ==
    ASSUME NEW c, NEW d
    PROVE  LET whole == <<c, d>>
           IN  Len(whole) = 2 /\ SubSeq(whole, 1, 1) = <<c>> /\ SubSeq(whole, 2, 2) = <<d>>
<1> DEFINE S == {c, d}
           whole == <<c, d>>
           front == SubSeq(whole, 1, 1)
           rest == SubSeq(whole, 2, 2)
<1>1. whole \in Seq(S) /\ Len(whole) = 2 /\ whole[1] = c /\ whole[2] = d
  OBVIOUS
<1> HIDE DEF whole, S
<1>2. front \in Seq(S) /\ Len(front) = 1 /\ front[1] = c
  BY <1>1, SubSeqProperties
<1>3. rest \in Seq(S) /\ Len(rest) = 1 /\ rest[1] = d
  BY <1>1, SubSeqProperties
<1> HIDE DEF front, rest
<1>4. front = <<c>>
  BY <1>2, OneIs
<1>5. rest = <<d>>
  BY <1>3, OneIs
<1> QED
  BY <1>1, <1>4, <1>5 DEF whole, front, rest

\* What the server sends is a reply or the rest of one; it counts a reply when it
\* begins to send it.
LEMMA ServerAnswers ==
    ASSUME NEW e \in Events(Replies), server.reply \in {<<>>, <<"nl">>},
           server.answered \in Nat, ServerSends(e)
    PROVE  /\ server'.reply \in {<<>>, <<"nl">>} /\ server'.answered \in Nat
           /\ server.answered <= server'.answered
           /\ Owed(server'.reply) + (IF Brings(e) THEN 1 ELSE 0) + server.answered
                  <= Owed(server.reply) + server'.answered
<1> DEFINE n == Len(e.data)
           stream == IF e.acks THEN got \o link.sent ELSE got
<1>1. CASE ~Newdata(e)
  <2>1. server' = server /\ ~Brings(e)
    BY <1>1, RepliesAre DEF ServerSends
  <2> QED
    BY <2>1 DEF Owed
<1>2. CASE Newdata(e) /\ MayReply(stream)
  <2>1. server.reply = <<>>
    BY <1>2 DEF MayReply
  <2>2. PICK c \in SmtpCodes : /\ e.data = Cut(<<c, "nl">>, n)
                               /\ server'.reply = Drop(<<c, "nl">>, n)
                               /\ server'.answered = server.answered + 1
    BY <1>2 DEF ServerSends
  <2> DEFINE whole == <<c, "nl">>
  <2>3. Len(whole) = 2 /\ SubSeq(whole, 1, 1) = <<c>> /\ SubSeq(whole, 2, 2) = <<"nl">>
    BY PairIsCut
  <2>4. n \in {1, 2}
    BY <1>2, RepliesAre
  <2> HIDE DEF n, whole
  <2>5. CASE n = 1
    <3>1. e.data = <<c>> /\ server'.reply = <<"nl">>
      BY <2>2, <2>3, <2>5 DEF Cut, Drop, whole
    <3>2. ~Brings(e)
      BY <3>1, RepliesAre
    <3>3. Owed(server.reply) = 0 /\ Owed(server'.reply) <= 1 /\ Owed(server'.reply) \in Nat
      BY <2>1, <3>1 DEF Owed
    <3>4. (IF Brings(e) THEN 1 ELSE 0) = 0 /\ server'.answered = server.answered + 1
      BY <2>2, <3>2
    <3>5. server'.reply \in {<<>>, <<"nl">>}
      BY <3>1
    <3> QED
      BY <3>3, <3>4, <3>5
  <2>6. CASE n = 2
    <3>1. server'.reply = <<>>
      BY <2>2, <2>3, <2>6 DEF Drop, whole
    <3>2. Owed(server.reply) = 0 /\ Owed(server'.reply) = 0
      BY <2>1, <3>1 DEF Owed
    <3> QED
      BY <2>2, <3>1, <3>2
  <2> QED
    BY <2>4, <2>5, <2>6
<1>3. CASE Newdata(e) /\ ~MayReply(stream)
  <2>1. /\ server.reply = <<"nl">> /\ server'.reply = Drop(<<"nl">>, n)
        /\ server'.answered = server.answered
    <3>1. PICK r \in {server.reply} \ {<<>>} : server' = [server EXCEPT !.reply = Drop(r, n)]
      BY <1>3 DEF ServerSends
    <3>2. r = <<"nl">> /\ server.reply = r
      OBVIOUS
    <3> HIDE DEF n
    <3> QED
      BY <3>1, <3>2
  <2>2. n >= 1
    <3>1. n \in {1, 2}
      BY <1>3, RepliesAre
    <3> HIDE DEF n
    <3> QED
      BY <3>1
  <2>3. server'.reply = <<>> /\ server.reply # <<>>
    <3>1. Len(<<"nl">>) = 1
      OBVIOUS
    <3> QED
      BY <2>1, <2>2, <3>1 DEF Drop
  <2> QED
    BY <2>1, <2>3 DEF Owed
<1> QED
  BY <1>1, <1>2, <1>3

\* PSOCK_READTO with nothing unread from before: it takes all the data of the call,
\* and ends if that brings the end of a reply and has not been read yet.
LEMMA ReplyIsRead ==
    ASSUME NEW e \in Events(Replies), NEW p, IsSock(Tokens, p), p.unread = <<>>
    PROVE  LET r == ReadTo(p, e, "nl")
           IN  /\ r.p.unread = <<>>
               /\ r.found => Brings(e) /\ p.state # "READ" /\ r.p.state = "READ"
<1> DEFINE data == e.data
           start == IF p.busy THEN p ELSE [p EXCEPT !.buf = <<>>]
           taken == [start EXCEPT !.state = "READ"]
           at == {i \in DOMAIN data : data[i] = "nl" /\ \A j \in 1 .. i - 1 : data[j] # "nl"}
           n == IF at = {} THEN Len(data) ELSE CHOOSE i \in at : TRUE
           buf == Cut(taken.buf \o SubSeq(data, 1, n), PsockBufsize)
           r == ReadTo(p, e, "nl")
<1>1. start = [f \in SockFields |-> start[f]] /\ start.unread = <<>> /\ start.state = p.state
  BY DEF IsSock, SockFields
<1>2. r = IF ~TakesNewdata(start, e) THEN [p |-> start, found |-> FALSE]
          ELSE [p |-> [taken EXCEPT !.buf = buf, !.unread = Drop(data, n)], found |-> at # {}]
  BY DEF ReadTo, Scan
<1> HIDE DEF start, buf, r
<1>3. CASE ~TakesNewdata(start, e)
  BY <1>1, <1>2, <1>3 DEF r
<1>4. CASE TakesNewdata(start, e)
  <2>1. r.p = [taken EXCEPT !.buf = buf, !.unread = Drop(data, n)] /\ r.found = (at # {})
    BY <1>2, <1>4
  <2>2. r.p.unread = Drop(data, n) /\ r.p.state = "READ"
    <3> HIDE DEF n, at
    <3>1. taken = [f \in SockFields |-> taken[f]] /\ taken.state = "READ"
      BY <1>1 DEF SockFields
    <3> HIDE DEF taken
    <3> QED
      BY <2>1, <3>1 DEF SockFields
  <2>3. at # {} => Brings(e)
    BY DEF Brings
  <2>4. Newdata(e) /\ p.state # "READ"
    BY <1>1, <1>4 DEF TakesNewdata
  <2>5. Len(data) <= n
    <3>1. CASE data = <<"nl">>
      <4>1. Len(data) = 1 /\ DOMAIN data = {1} /\ data[1] = "nl"
        BY <3>1
      <4> HIDE DEF data
      <4>2. at = {1}
        BY <4>1
      <4> QED
        BY <4>1, <4>2
    <3>2. CASE \E c \in SmtpCodes : data \in {<<c, "nl">>, <<c>>}
      <4>1. PICK c \in SmtpCodes : data \in {<<c, "nl">>, <<c>>}
        BY <3>2
      <4>2. c # "nl"
        BY SmtpAssumption
      <4>3. CASE data = <<c, "nl">>
        <5>1. Len(data) = 2 /\ DOMAIN data = {1, 2} /\ data[1] = c /\ data[2] = "nl"
          BY <4>3
        <5> HIDE DEF data
        <5>2. at = {2}
          BY <4>2, <5>1
        <5> QED
          BY <5>1, <5>2
      <4>4. CASE data = <<c>>
        <5>1. Len(data) = 1 /\ DOMAIN data = {1} /\ data[1] = c
          BY <4>4
        <5> HIDE DEF data
        <5>2. at = {}
          BY <4>2, <5>1
        <5> QED
          BY <5>1, <5>2
      <4> QED
        BY <4>1, <4>3, <4>4
    <3> QED
      BY <2>4, <3>1, <3>2, RepliesAre
  <2> HIDE DEF n, at
  <2>6. Drop(data, n) = <<>>
    BY <2>5 DEF Drop
  <2> QED
    BY <2>1, <2>2, <2>3, <2>4, <2>6 DEF r
<1> QED
  BY <1>3, <1>4 DEF r

\* With what a statement that sends still has to send, the peer has got what the
\* program has said so far; at any other, it has got all of that.
Speaks(cc, pc, p, e, stream) ==
    IF pc <= Len(Program(cc)) /\ Program(cc)[pc].op = "send"
    THEN stream \o SendRest(p, Program(cc)[pc].data, e)
             = Talk(cc)[pc - 1].said \o Program(cc)[pc].data
    ELSE stream = Talk(cc)[pc - 1].said

\* The server has begun the replies that have been read, the one it still has to
\* send the end of, and the one that is about to be read.
Hears(cc, pc, p, e, reply, answered) ==
    Talk(cc)[pc - 1].reads + Owed(reply) + Coming(p, e) <= answered

\* That the data of the call has been read is remembered only until the next
\* statement sends something, which ends the call.
Turn(cc, pc, p, e) ==
    p.state = "READ" => /\ Runs(e) /\ ~p.busy
                        /\ pc > 1 /\ Program(cc)[pc - 1].op = "read"

InStep(cc, pc, p, e, stream, reply, answered) ==
    /\ Speaks(cc, pc, p, e, stream)
    /\ Hears(cc, pc, p, e, reply, answered)
    /\ Turn(cc, pc, p, e)

LEMMA OwedIs ==
    ASSUME NEW reply, NEW p, NEW e
    PROVE  /\ Owed(reply) \in {0, 1} /\ Coming(p, e) \in {0, 1}
           /\ Coming(p, e) = 1 <=> Runs(e) /\ Brings(e) /\ p.state # "READ"
           /\ ~Runs(NoCall) /\ Coming(p, NoCall) = 0 /\ NoCall.acks = FALSE
BY DEF Owed, Coming, Runs, NoCall

\* What the protosocket has to send before and after an acknowledgement.
LEMMA AckIsTaken ==
    ASSUME NEW rest \in Seq(Tokens), NEW stream \in Seq(Tokens)
    PROVE  /\ (stream \o Cut(rest, AppMss)) \o Drop(rest, AppMss) = stream \o rest
           /\ stream \o Cut(rest, AppMss) \in Seq(Tokens)
<1> DEFINE cut == Cut(rest, AppMss)
           drop == Drop(rest, AppMss)
<1>1. AppMss \in Nat
  BY AppAssumption
<1>2. cut \in Seq(Tokens) /\ drop \in Seq(Tokens)
  BY <1>1, CutIsFront, DropIsRest
<1>3. cut \o drop = rest
  <2>1. CASE Len(rest) <= AppMss
    <3>1. cut = rest /\ drop = <<>>
      BY <2>1 DEF Cut, Drop
    <3> QED
      BY <3>1, ConcatEmptySeq
  <2>2. CASE ~(Len(rest) <= AppMss)
    <3> DEFINE n == Len(rest)
    <3>1. cut = SubSeq(rest, 1, AppMss) /\ drop = SubSeq(rest, AppMss + 1, n)
      BY <2>2 DEF Cut, Drop
    <3>2. AppMss \in 1 .. n /\ n \in Nat
      BY <2>2, AppAssumption
    <3>3. /\ Len(cut) = AppMss /\ Len(drop) = n - AppMss
          /\ \A i \in 1 .. AppMss : cut[i] = rest[i]
          /\ \A i \in 1 .. n - AppMss : drop[i] = rest[AppMss + i]
      <4>1. \A i \in 1 .. n : rest[i] \in Tokens
        OBVIOUS
      <4> HIDE DEF n
      <4>2. Len(SubSeq(rest, 1, AppMss)) = AppMss
            /\ \A i \in 1 .. AppMss : SubSeq(rest, 1, AppMss)[i] = rest[i]
        BY <3>2, <4>1, SubSeqProperties
      <4>3. Len(SubSeq(rest, AppMss + 1, n)) = n - AppMss
            /\ \A i \in 1 .. n - AppMss : SubSeq(rest, AppMss + 1, n)[i] = rest[AppMss + i]
        BY <3>2, <4>1, SubSeqProperties
      <4> QED
        BY <3>1, <4>2, <4>3
    <3> HIDE DEF cut, drop
    <3>4. /\ cut \o drop \in Seq(Tokens) /\ Len(cut \o drop) = n
          /\ \A i \in 1 .. n : (cut \o drop)[i] = rest[i]
      <4>1. Len(cut \o drop) = Len(cut) + Len(drop) /\ cut \o drop \in Seq(Tokens)
        BY <1>2, ConcatProperties
      <4>2. ASSUME NEW i \in 1 .. n PROVE (cut \o drop)[i] = rest[i]
        <5>1. (cut \o drop)[i] = IF i <= Len(cut) THEN cut[i] ELSE drop[i - Len(cut)]
          BY <1>2, <3>2, <3>3, ConcatProperties
        <5> HIDE DEF n
        <5>2. CASE i <= AppMss
          BY <3>2, <3>3, <5>1, <5>2
        <5>3. CASE i > AppMss
          <6>1. i - AppMss \in 1 .. n - AppMss /\ AppMss + (i - AppMss) = i
            BY <3>2, <5>3
          <6>2. drop[i - AppMss] = rest[AppMss + (i - AppMss)]
            BY <3>3, <6>1
          <6>3. (cut \o drop)[i] = drop[i - AppMss]
            BY <3>2, <3>3, <5>1, <5>3
          <6> QED
            BY <6>1, <6>2, <6>3
        <5>4. i <= AppMss \/ i > AppMss
          BY <1>1, <3>2
        <5> QED
          BY <5>2, <5>3, <5>4, Zenon
      <4>3. Len(cut \o drop) = n
        <5> HIDE DEF n
        <5> QED
          BY <3>2, <3>3, <4>1
      <4> QED
        BY <4>1, <4>2, <4>3
    <3> QED
      BY <3>4, SeqEqual
  <2> QED
    BY <2>1, <2>2
<1> HIDE DEF cut, drop
<1>4. (stream \o cut) \o drop = stream \o (cut \o drop) /\ stream \o cut \in Seq(Tokens)
  BY <1>2
<1> QED
  BY <1>3, <1>4 DEF cut, drop

\* A call begins: the data it acknowledges has been got, and a reply may have come.
LEMMA BeginsInStep ==
    ASSUME NEW cc \in BOOLEAN, NEW pc \in Nat \ {0}, pc <= Len(Program(cc)) + 1,
           NEW p, IsSock(Tokens, p), NEW stream \in Seq(Tokens),
           NEW reply, NEW answered \in Nat, InStep(cc, pc, p, NoCall, stream, reply, answered),
           NEW e \in Events(Replies), NEW sent,
           e.acks => /\ p.busy /\ sent = Cut(p.rest, AppMss)
                     /\ pc <= Len(Program(cc)) /\ Program(cc)[pc].op = "send",
           NEW reply2, NEW answered2 \in Nat,
           Owed(reply2) + (IF Brings(e) THEN 1 ELSE 0) + answered <= Owed(reply) + answered2
    PROVE  InStep(cc, pc, p, e, IF e.acks THEN stream \o sent ELSE stream, reply2, answered2)
<1> DEFINE stream2 == IF e.acks THEN stream \o sent ELSE stream
           x == Talk(cc)[pc - 1]
           data == Program(cc)[pc].data
           atsend == pc <= Len(Program(cc)) /\ Program(cc)[pc].op = "send"
<1>1. /\ atsend => stream \o SendRest(p, data, NoCall) = x.said \o data
      /\ ~atsend => stream = x.said
      /\ x.reads + Owed(reply) + Coming(p, NoCall) <= answered
      /\ p.state # "READ"
  BY OwedIs DEF InStep, Speaks, Hears, Turn
<1>2. x \in Totals
  <2>1. pc - 1 \in 0 .. Len(Program(cc)) /\ Len(Program(cc)) \in Nat
    BY TalkIs
  <2> QED
    BY <2>1, TalkIs
<1>3. x.reads \in Nat
  BY <1>2 DEF Totals
<1>4. p.rest \in Seq(Tokens)
  BY DEF IsSock
<1> HIDE DEF x, data
<1>5. Speaks(cc, pc, p, e, stream2)
  <2>1. CASE e.acks
    <3>1. stream2 = stream \o Cut(p.rest, AppMss) /\ p.busy /\ atsend
      BY <2>1
    <3>2. /\ SendRest(p, data, e) = Drop(p.rest, AppMss)
          /\ SendRest(p, data, NoCall) = p.rest
      BY <2>1, <3>1, OwedIs DEF SendRest
    <3>3. stream2 \o Drop(p.rest, AppMss) = stream \o p.rest
      BY <1>4, <3>1, AckIsTaken
    <3> HIDE DEF stream2
    <3> QED
      BY <1>1, <3>1, <3>2, <3>3 DEF Speaks, x, data
  <2>2. CASE ~e.acks
    <3>1. stream2 = stream /\ SendRest(p, data, e) = SendRest(p, data, NoCall)
      BY <2>2, OwedIs DEF SendRest
    <3> HIDE DEF stream2
    <3> QED
      BY <1>1, <3>1 DEF Speaks, x, data
  <2> QED
    BY <2>1, <2>2
<1>6. Hears(cc, pc, p, e, reply2, answered2)
  <2> DEFINE brings == IF Brings(e) THEN 1 ELSE 0
  <2>1. Coming(p, e) \in {0, 1} /\ brings \in {0, 1} /\ Coming(p, e) <= brings
    BY DEF Coming
  <2>2. Coming(p, NoCall) = 0 /\ Owed(reply) \in {0, 1} /\ Owed(reply2) \in {0, 1}
    BY OwedIs
  <2>3. Owed(reply2) + brings + answered <= Owed(reply) + answered2
    OBVIOUS
  <2> HIDE DEF brings
  <2>4. x.reads + Owed(reply2) + Coming(p, e) <= answered2
    BY <1>1, <1>3, <2>1, <2>2, <2>3
  <2> QED
    BY <2>4 DEF Hears, x
<1>7. Turn(cc, pc, p, e)
  BY <1>1 DEF Turn
<1> QED
  BY <1>5, <1>6, <1>7 DEF InStep

\* A connection begins.
LEMMA FreshIsInStep ==
    ASSUME NEW cc \in BOOLEAN, NEW e, ~Brings(e)
    PROVE  InStep(cc, 1, NewPsock, e, <<>>, <<>>, 0)
<1> DEFINE x == Talk(cc)[0]
<1>1. x.said = <<>> /\ x.reads = 0
  BY TalkIs
<1>2. NewPsock.state = "NONE" /\ ~NewPsock.busy
  BY DEF NewPsock
<1>3. Coming(NewPsock, e) = 0 /\ Owed(<<>>) = 0 /\ 1 - 1 = 0
  BY DEF Owed, Coming
<1> HIDE DEF x
<1>4. \A data : SendRest(NewPsock, data, e) = data
  BY <1>2 DEF SendRest
<1>5. Speaks(cc, 1, NewPsock, e, <<>>)
  BY <1>1, <1>3, <1>4 DEF Speaks, x
<1>6. Hears(cc, 1, NewPsock, e, <<>>, 0)
  BY <1>1, <1>3 DEF Hears, x
<1>7. Turn(cc, 1, NewPsock, e)
  BY <1>2 DEF Turn
<1> QED
  BY <1>5, <1>6, <1>7 DEF InStep

\* PSOCK_SEND ends: the next statement follows.
LEMMA SendEndsInStep ==
    ASSUME NEW cc \in BOOLEAN, NEW pc \in Nat \ {0}, pc <= Len(Program(cc)),
           Program(cc)[pc].op = "send", NEW p, IsSock(Tokens, p), NEW e,
           NEW stream \in Seq(Tokens), NEW reply, NEW answered \in Nat,
           InStep(cc, pc, p, e, stream, reply, answered),
           SendEnds(p, Program(cc)[pc].data, e)
    PROVE  InStep(cc, pc + 1, Ended(p), e, stream, reply, answered)
<1> DEFINE s == Program(cc)[pc]
           x == Talk(cc)[pc - 1]
           y == Talk(cc)[pc]
           next == Program(cc)[pc + 1]
<1>1. /\ stream \o SendRest(p, s.data, e) = x.said \o s.data
      /\ x.reads + Owed(reply) + Coming(p, e) <= answered
      /\ SendRest(p, s.data, e) = <<>>
  BY DEF InStep, Speaks, Hears, SendEnds
<1>2. y = Told(x, s) /\ s.op = "send" /\ (pc + 1) - 1 = pc
  BY TalkGoesOn
<1>3. p.state # "READ"
  <2> SUFFICES ASSUME p.state = "READ" PROVE FALSE
    OBVIOUS
  <2>1. ~p.busy /\ pc > 1 /\ Program(cc)[pc - 1].op = "read"
    BY DEF InStep, Turn
  <2>2. s.data = <<>>
    BY <1>1, <2>1 DEF SendRest
  <2>3. pc - 1 \in 1 .. Len(Program(cc)) - 1 /\ (pc - 1) + 1 = pc
    BY <2>1, TalkIs
  <2>4. SaysSomething(Program(cc)[(pc - 1) + 1])
    BY <2>1, <2>3, TalkIs DEF TakesTurns
  <2> QED
    BY <2>2, <2>3, <2>4 DEF SaysSomething
<1>4. Ended(p).state = "NONE" /\ Ended(p).busy = FALSE
  BY DEF Ended, IsSock, SockFields
<1> DEFINE q == Ended(p)
<1> HIDE DEF q
<1>5. Coming(q, e) = Coming(p, e) /\ \A data : SendRest(q, data, e) = data
  BY <1>3, <1>4 DEF q, Coming, SendRest
<1> HIDE DEF s, x, y
<1>6. y.said = x.said \o s.data /\ y.reads = x.reads
  BY <1>2 DEF Told
<1>7. stream = y.said
  BY <1>1, <1>6, ConcatEmptySeq
<1>8. Speaks(cc, pc + 1, q, e, stream)
  BY <1>2, <1>5, <1>7 DEF Speaks, y
<1>9. Hears(cc, pc + 1, q, e, reply, answered)
  BY <1>1, <1>2, <1>5, <1>6 DEF Hears, y
<1>10. Turn(cc, pc + 1, q, e)
  BY <1>4 DEF Turn, q
<1> QED
  BY <1>8, <1>9, <1>10 DEF InStep, q

\* It blocks.
LEMMA SendsInStep ==
    ASSUME NEW cc \in BOOLEAN, NEW pc \in Nat \ {0}, pc <= Len(Program(cc)),
           Program(cc)[pc].op = "send", NEW p, NEW e, NEW stream, NEW reply, NEW answered \in Nat,
           InStep(cc, pc, p, e, stream, reply, answered),
           NEW q, q.state = "DATA_SENT", q.busy, q.rest = SendRest(p, Program(cc)[pc].data, e)
    PROVE  InStep(cc, pc, q, NoCall, stream, reply, answered)
<1> DEFINE s == Program(cc)[pc]
           x == Talk(cc)[pc - 1]
<1>1. /\ stream \o SendRest(p, s.data, e) = x.said \o s.data
      /\ x.reads + Owed(reply) + Coming(p, e) <= answered
  BY DEF InStep, Speaks, Hears
<1>2. SendRest(q, s.data, NoCall) = SendRest(p, s.data, e)
  BY OwedIs DEF SendRest
<1>3. x.reads \in Nat
  BY TalkGoesOn DEF Totals
<1>4. Speaks(cc, pc, q, NoCall, stream)
  BY <1>1, <1>2 DEF Speaks
<1> HIDE DEF x
<1>5. Hears(cc, pc, q, NoCall, reply, answered)
  <2>1. Coming(q, NoCall) = 0 /\ Owed(reply) \in {0, 1} /\ Coming(p, e) \in {0, 1}
    BY OwedIs
  <2>2. x.reads + Owed(reply) + Coming(q, NoCall) <= answered
    BY <1>1, <1>3, <2>1
  <2> QED
    BY <2>2 DEF Hears, x
<1>6. Turn(cc, pc, q, NoCall)
  BY DEF Turn
<1> QED
  BY <1>4, <1>5, <1>6 DEF InStep

\* PSOCK_READTO blocks.
LEMMA ReadsInStep ==
    ASSUME NEW cc \in BOOLEAN, NEW pc \in Nat \ {0}, pc <= Len(Program(cc)),
           Program(cc)[pc].op = "read", NEW p, NEW e, NEW stream, NEW reply, NEW answered \in Nat,
           InStep(cc, pc, p, e, stream, reply, answered),
           NEW q, q.state # "READ"
    PROVE  InStep(cc, pc, q, NoCall, stream, reply, answered)
<1> DEFINE x == Talk(cc)[pc - 1]
<1>1. stream = x.said /\ x.reads + Owed(reply) + Coming(p, e) <= answered
  BY DEF InStep, Speaks, Hears
<1>2. x.reads \in Nat
  BY TalkGoesOn DEF Totals
<1>3. Speaks(cc, pc, q, NoCall, stream)
  BY <1>1 DEF Speaks
<1> HIDE DEF x
<1>4. Hears(cc, pc, q, NoCall, reply, answered)
  <2>1. Coming(q, NoCall) = 0 /\ Owed(reply) \in {0, 1} /\ Coming(p, e) \in {0, 1}
    BY OwedIs
  <2>2. x.reads + Owed(reply) + Coming(q, NoCall) <= answered
    BY <1>1, <1>2, <2>1
  <2> QED
    BY <2>2 DEF Hears, x
<1>5. Turn(cc, pc, q, NoCall)
  BY DEF Turn
<1> QED
  BY <1>3, <1>4, <1>5 DEF InStep

\* It ends, with a reply: the one that was coming has been read.
LEMMA ReplyIsInStep ==
    ASSUME NEW cc \in BOOLEAN, NEW pc \in Nat \ {0}, pc <= Len(Program(cc)),
           Program(cc)[pc].op = "read", NEW p, NEW e, Runs(e), Brings(e), p.state # "READ",
           NEW stream, NEW reply, NEW answered \in Nat,
           InStep(cc, pc, p, e, stream, reply, answered),
           NEW q, q.state = "READ", ~q.busy
    PROVE  InStep(cc, pc + 1, q, e, stream, reply, answered)
<1> DEFINE s == Program(cc)[pc]
           x == Talk(cc)[pc - 1]
           y == Talk(cc)[pc]
<1>1. stream = x.said /\ x.reads + Owed(reply) + Coming(p, e) <= answered
  BY DEF InStep, Speaks, Hears
<1>2. y = Told(x, s) /\ s.op = "read" /\ (pc + 1) - 1 = pc /\ x.reads \in Nat
  BY TalkGoesOn DEF Totals
<1>3. Coming(p, e) = 1 /\ Coming(q, e) = 0 /\ Owed(reply) \in {0, 1}
  BY DEF Coming, Owed
<1>4. y.said = x.said /\ y.reads = x.reads + 1
  BY <1>2 DEF Told
<1>5. \A data : SendRest(q, data, e) = data
  BY DEF SendRest
<1> HIDE DEF s, x, y
<1>6. Speaks(cc, pc + 1, q, e, stream)
  BY <1>1, <1>2, <1>4, <1>5 DEF Speaks, y
<1>7. Hears(cc, pc + 1, q, e, reply, answered)
  <2>1. y.reads + Owed(reply) + Coming(q, e) <= answered
    BY <1>1, <1>2, <1>3, <1>4
  <2> QED
    BY <1>2, <2>1 DEF Hears, y
<1>8. Turn(cc, pc + 1, q, e)
  BY <1>2 DEF Turn, s
<1> QED
  BY <1>6, <1>7, <1>8 DEF InStep

\* At its end the program has said all and has read a reply to every command but
\* the last.
LEMMA EndIsInStep ==
    ASSUME NEW cc \in BOOLEAN, NEW p, NEW e, NEW stream, NEW reply, NEW answered \in Nat,
           InStep(cc, Len(Program(cc)) + 1, p, e, stream, reply, answered)
    PROVE  stream = Dialogue(cc) /\ answered >= Len(Commands(cc)) - 1
<1> DEFINE n == Len(Program(cc))
           x == Talk(cc)[n]
<1>1. /\ n \in Nat \ {0} /\ x \in Totals
      /\ x.said = Dialogue(cc) /\ x.reads = Len(Commands(cc)) - 1
  <2>1. n \in Nat \ {0}
    BY TalkIs
  <2>2. n \in 0 .. n
    BY <2>1
  <2> QED
    BY <2>1, <2>2, TalkIs
<1>2. x.reads \in Nat
  BY <1>1 DEF Totals
<1> HIDE DEF n
<1>3. ~(n + 1 <= n) /\ (n + 1) - 1 = n
  BY <1>1
<1>4. stream = x.said /\ x.reads + Owed(reply) + Coming(p, e) <= answered
  BY <1>3 DEF InStep, Speaks, Hears, n
<1> HIDE DEF x
<1>5. answered >= x.reads
  <2>1. Owed(reply) \in {0, 1} /\ Coming(p, e) \in {0, 1}
    BY OwedIs
  <2> QED
    BY <1>2, <1>4, <2>1
<1> QED
  BY <1>1, <1>4, <1>5

\* What becomes of the connection when the application has answered.
LEMMA StateAfter ==
    ASSUME NEW S, NEW l \in Links(S), NEW inputs, NEW e \in Events(inputs), CanHappen(l, e),
           NEW a
    PROVE  LET state == After(l, e, a).link.state
           IN  /\ EndsIt(e) => state # "open"
               /\ ~EndsIt(e) /\ ~a.abort => state # "none"
               /\ ~EndsIt(e) /\ a.close /\ e.kind # "rexmit" => state # "open"
<1> DEFINE after == After(l, e, a).link
<1>1. \A state : Link(state).state = state /\ Ends(state).link.state = state
  BY DEF Link, Ends
<1>2. l = [f \in LinkFields |-> l[f]]
  BY LinkHas
<1>3. ASSUME NEW m, m = [f \in LinkFields |-> m[f]]
      PROVE  /\ Sends(m, a.data).link.state = m.state
             /\ Does(m, a).link.state = IF a.abort THEN "none"
                                        ELSE IF a.close THEN "closing" ELSE m.state
  <2>1. Sends(m, a.data).link.state = m.state
    BY <1>3 DEF Sends, LinkFields
  <2> QED
    BY <1>1, <2>1 DEF Does
<1>4. CASE e.kind = "closed"
  <2>1. after = Ends(IF l.state = "open" THEN "last ack" ELSE "none").link
    BY <1>4 DEF After
  <2> QED
    BY <1>1, <1>4, <2>1 DEF EndsIt
<1>5. CASE e.kind \in {"aborted", "timedout"}
  <2>1. after = Ends("none").link
    BY <1>5 DEF After
  <2> QED
    BY <1>1, <1>5, <2>1 DEF EndsIt
<1>6. CASE e.kind = "rexmit"
  <2>1. after = [l EXCEPT !.nrtx = @ + 1] /\ l.state = "open"
    BY <1>6 DEF After, CanHappen
  <2>2. after.state = "open"
    BY <1>2, <2>1 DEF LinkFields
  <2> QED
    BY <1>6, <2>2 DEF EndsIt
<1>7. CASE e.kind = "connected"
  <2>1. after = Does(Link("open"), a).link
    BY <1>7 DEF After
  <2>2. Link("open") = [f \in LinkFields |-> Link("open")[f]]
    BY DEF Link, LinkFields
  <2>3. after.state = IF a.abort THEN "none" ELSE IF a.close THEN "closing" ELSE "open"
    BY <1>1, <1>3, <2>1, <2>2
  <2> QED
    BY <1>7, <2>3 DEF EndsIt
<1>8. CASE e.kind \in {"poll", "input"}
  <2> DEFINE m == IF e.acks THEN Link("open") ELSE [l EXCEPT !.nrtx = 0]
  <2>1. after = Does(m, a).link
    BY <1>8 DEF After
  <2>2. l.state = "open"
    BY <1>8 DEF CanHappen, CanInput
  <2>3. m = [f \in LinkFields |-> m[f]] /\ m.state = "open"
    BY <1>1, <1>2, <2>2 DEF Link, LinkFields
  <2> HIDE DEF m
  <2>4. after.state = IF a.abort THEN "none" ELSE IF a.close THEN "closing" ELSE "open"
    BY <1>3, <2>1, <2>3
  <2> QED
    BY <1>8, <2>4 DEF EndsIt
<1>9. e.kind \in Kinds
  BY EventHas
<1> QED
  BY <1>4, <1>5, <1>6, <1>7, <1>8, <1>9 DEF Kinds

\* The protothread returns with nothing unread.
LEMMA ReturnsQuietly ==
    ASSUME SockInv(Tokens, Replies), call # NoCall, NEW p, IsSock(Tokens, p), p.unread = <<>>,
           NEW a, ~a.abort, Returns(p, a)
    PROVE  /\ psock'.unread = <<>> /\ psock'.state = p.state /\ psock'.busy = p.busy
           /\ psock'.rest = p.rest /\ call' = NoCall /\ got' = got /\ ~Runs(call')
           /\ EndsIt(call) => link'.state # "open"
           /\ ~EndsIt(call) => link'.state # "none"
           /\ ~EndsIt(call) /\ a.close /\ call.kind # "rexmit" => link'.state # "open"
<1> DEFINE unread == [i \in DOMAIN p.unread |-> Junk]
<1>1. /\ psock' = [p EXCEPT !.unread = unread] /\ call' = NoCall /\ got' = got
      /\ link' = After(link, call, a).link
  BY DEF Returns, Answered
<1>2. unread = <<>>
  <2>1. DOMAIN p.unread = 1 .. 0
    OBVIOUS
  <2>2. unread \in [1 .. 0 -> {Junk}]
    BY <2>1
  <2> HIDE DEF unread
  <2>3. unread \in Seq({Junk}) /\ Len(unread) = 0
    BY <2>2
  <2> QED
    BY <2>3, EmptySeq
<1> HIDE DEF unread
<1>3. psock'.unread = <<>> /\ psock'.state = p.state /\ psock'.busy = p.busy /\ psock'.rest = p.rest
  BY <1>1, <1>2 DEF IsSock, SockFields
<1>4. link \in Links(Tokens) /\ call \in Events(Replies) /\ CanHappen(link, call)
  BY DEF SockInv, Happens
<1>5. ~Runs(call')
  BY <1>1 DEF Runs
<1> QED
  BY <1>1, <1>3, <1>4, <1>5, StateAfter

\* The program has been told that the mail was sent.
Reported(codes) == \E i \in DOMAIN codes : codes[i] = OK

LEMMA ReportedAfter ==
    ASSUME NEW codes \in Seq(Nat), NEW code \in Nat
    PROVE  /\ Append(codes, code) \in Seq(Nat)
           /\ Reported(Append(codes, code)) <=> Reported(codes) \/ code = OK
<1> DEFINE more == Append(codes, code)
           n == Len(codes)
<1>1. /\ more \in Seq(Nat) /\ Len(more) = n + 1 /\ more[n + 1] = code /\ n \in Nat
      /\ \A i \in 1 .. n : more[i] = codes[i]
  BY AppendProperties
<1>2. DOMAIN more = 1 .. n + 1 /\ DOMAIN codes = 1 .. n
  BY <1>1, LenProperties
<1> HIDE DEF more, n
<1>3. \A i : i \in 1 .. n + 1 <=> i \in 1 .. n \/ i = n + 1
  BY <1>1
<1> QED
  BY <1>1, <1>2, <1>3 DEF Reported, more

\* The server has got the whole dialogue, and has replied to all of it but the last
\* command.
Taken(stream, answered, cc) ==
    answered >= Len(Commands(cc)) - 1 /\ IsPrefix(Dialogue(cc), stream)

LEMMA DialogueIsTokens ==
    ASSUME NEW cc \in BOOLEAN
    PROVE  Dialogue(cc) \in Seq(Tokens) /\ Len(Commands(cc)) \in Nat
<1>1. Len(Commands(cc)) \in Nat
  <2>1. Len(Commands(cc)) = IF cc THEN 8 ELSE 7
    BY DialogueIs, Zenon
  <2> QED
    BY <2>1
<1>2. Len(Program(cc)) \in Nat \ {0}
  BY TalkIs
<1>3. Len(Program(cc)) \in 0 .. Len(Program(cc))
  BY <1>2
<1>4. Talk(cc)[Len(Program(cc))] \in Totals
  BY <1>3, TalkIs
<1>5. Talk(cc)[Len(Program(cc))].said = Dialogue(cc)
  BY TalkIs
<1> QED
  BY <1>1, <1>4, <1>5 DEF Totals

LEMMA TakenStays ==
    ASSUME NEW cc \in BOOLEAN, NEW stream \in Seq(Tokens), NEW answered \in Nat,
           Taken(stream, answered, cc), NEW more \in Seq(Tokens), NEW later \in Nat, answered <= later
    PROVE  Taken(stream, later, cc) /\ Taken(stream \o more, later, cc)
<1> DEFINE d == Dialogue(cc)
           all == stream \o more
<1>1. d \in Seq(Tokens) /\ Len(Commands(cc)) \in Nat /\ Len(d) \in Nat
  BY DialogueIsTokens
<1>2. later >= Len(Commands(cc)) - 1 /\ IsPrefix(d, stream)
  BY <1>1 DEF Taken
<1>3. Len(d) <= Len(stream) /\ SubSeq(d, 1, Len(d)) = SubSeq(stream, 1, Len(d))
  BY <1>2 DEF IsPrefix
<1> HIDE DEF d
<1>4. /\ Len(all) = Len(stream) + Len(more) /\ all \in Seq(Tokens)
      /\ \A i \in 1 .. Len(stream) : all[i] = stream[i]
  BY ConcatProperties
<1> HIDE DEF all
<1> DEFINE n == Len(d)
<1>5. /\ n \in Nat /\ n <= Len(stream) /\ n <= Len(all) /\ Len(stream) \in Nat
      /\ \A i \in 1 .. n : all[i] = stream[i] /\ stream[i] \in Tokens /\ all[i] \in Tokens
  BY <1>1, <1>3, <1>4
<1> DEFINE f == SubSeq(all, 1, n)
           g == SubSeq(stream, 1, n)
<1> HIDE DEF n
<1>6. f \in Seq(Tokens) /\ Len(f) = n /\ \A i \in 1 .. n : f[i] = all[i]
  BY <1>5, SubSeqProperties
<1>7. g \in Seq(Tokens) /\ Len(g) = n /\ \A i \in 1 .. n : g[i] = stream[i]
  BY <1>5, SubSeqProperties
<1> HIDE DEF f, g
<1>8. f = g
  BY <1>5, <1>6, <1>7, SeqEqual
<1>9. IsPrefix(d, all)
  BY <1>3, <1>5, <1>8 DEF IsPrefix, f, g, n
<1> QED
  BY <1>2, <1>9 DEF Taken, all, d

\* A session that has not begun.
Fresh ==
    /\ smtp.pc = 1 /\ done = <<>> /\ got = <<>> /\ psock = NewPsock
    /\ server.answered = 0 /\ server.reply = <<>>

Live == link.state = "open" \/ Runs(call)

StaysInStep ==
    InStep(smtp.cc, smtp.pc, psock, call, got, server.reply, server.answered)

\* Until the program has been told that the mail was sent, the client and the
\* server are in step, whatever connection there is.
TalkInv ==
    /\ SmtpInv
    /\ smtp.pc <= Len(Program(smtp.cc)) + 1
    /\ server.reply \in {<<>>, <<"nl">>} /\ server.answered \in Nat
    /\ psock.unread = <<>> /\ got \in Seq(Tokens) /\ done \in Seq(Nat)
    /\ link.state = "none" /\ smtp.connected /\ call = NoCall => Fresh
    /\ Live /\ ~Reported(done) => StaysInStep
    /\ Reported(done) => Taken(got, server.answered, smtp.cc)

LEMMA TalkBegins == SmtpInit => TalkInv
<1> SUFFICES ASSUME SmtpInit PROVE TalkInv
  OBVIOUS
<1>1. SmtpInv
  BY SmtpInitGood
<1>2. /\ link = Link("none") /\ psock = NewPsock /\ call = NoCall /\ got = <<>> /\ done = <<>>
      /\ server = [reply |-> <<>>, answered |-> 0, seen |-> 0]
      /\ smtp \in [pc : {1}, cc : BOOLEAN, connected : {TRUE}]
  BY DEF SmtpInit, PsockInit, LinkInit
<1>3. smtp.pc = 1 /\ smtp.cc \in BOOLEAN
  BY <1>2
<1>4. Len(Program(smtp.cc)) \in Nat
  BY <1>3, TalkIs
<1>5. server.reply = <<>> /\ server.answered = 0
  BY <1>2
<1>6. psock.unread = <<>> /\ <<>> \in Seq(Tokens) /\ <<>> \in Seq(Nat)
  BY <1>2 DEF NewPsock
<1>7. ~Reported(done)
  BY <1>2 DEF Reported
<1>8. ~Live
  BY <1>2 DEF Live, Link, Runs
<1> QED
  BY <1>1, <1>2, <1>3, <1>4, <1>5, <1>6, <1>7, <1>8 DEF TalkInv, Fresh

\* What the invariant says, for the steps.
LEMMA TalkHas ==
    ASSUME TalkInv
    PROVE  /\ smtp \in [pc : Nat \ {0}, cc : BOOLEAN, connected : BOOLEAN]
           /\ smtp.cc \in BOOLEAN /\ smtp.pc \in Nat \ {0}
           /\ SockInv(Tokens, Replies) /\ Sending /\ IsSock(Tokens, psock)
           /\ link \in Links(Tokens) /\ link.sent \in Seq(Tokens)
           /\ Unacked => ~AtEnd /\ Statement.op = "send"
           /\ Program(smtp.cc) \in Seq(Statements) /\ Len(Program(smtp.cc)) \in Nat
           /\ Running <=> Runs(call)
           /\ call # NoCall => call \in Events(Replies) /\ CanHappen(link, call)
           /\ AtEnd <=> ~(smtp.pc <= Len(Program(smtp.cc)))
<1>1. /\ smtp \in [pc : Nat \ {0}, cc : BOOLEAN, connected : BOOLEAN]
      /\ SockInv(Tokens, Replies) /\ Sending /\ IsSock(Tokens, psock)
      /\ Unacked => ~AtEnd /\ Statement.op = "send"
  BY DEF TalkInv, SmtpInv, SockInv
<1>2. smtp.cc \in BOOLEAN /\ smtp.pc \in Nat \ {0}
  BY <1>1
<1>3. Program(smtp.cc) \in Seq(Statements) /\ Len(Program(smtp.cc)) \in Nat
  BY <1>2, TalkIs
<1>4. link \in Links(Tokens) /\ link.sent \in Seq(Tokens)
  BY <1>1, LinkHas DEF SockInv
<1>5. call # NoCall => call \in Events(Replies) /\ CanHappen(link, call)
  BY <1>1 DEF SockInv, Happens
<1>6. AtEnd <=> ~(smtp.pc <= Len(Program(smtp.cc)))
  BY <1>2, <1>3 DEF AtEnd
<1> QED
  BY <1>1, <1>2, <1>3, <1>4, <1>5, <1>6 DEF Running, Runs

LEMMA TalkCalled ==
    ASSUME TalkInv, SmtpInv', SmtpCalled
    PROVE  TalkInv'
<1> DEFINE cc == smtp.cc
           pc == smtp.pc
<1>1. PICK e \in Events(Replies) :
          /\ link.state = "none" => smtp.connected
          /\ e.kind = "connected" => ~Newdata(e)
          /\ Begin(e) /\ ServerSends(e) /\ UNCHANGED <<smtp, done, psock>>
  BY DEF SmtpCalled
<1>2. /\ call = NoCall /\ call' = e /\ CanHappen(link, e) /\ UNCHANGED <<link, smtp, done, psock>>
      /\ e.kind = "connected" => got' = <<>>
      /\ e.kind # "connected" => got' = IF e.acks THEN got \o link.sent ELSE got
  <2>1. got' = CASE e.kind = "connected" -> <<>>
                 [] e.acks -> got \o link.sent
                 [] OTHER -> got
    BY <1>1, Zenon DEF Begin
  <2>2. /\ e.kind = "connected" => got' = <<>>
        /\ e.kind # "connected" => got' = IF e.acks THEN got \o link.sent ELSE got
    <3> DEFINE more == got \o link.sent
               none == <<>>
    <3>1. ~e.acks \/ e.kind # "connected"
      BY EventHas
    <3> HIDE DEF more, none
    <3>2. got' = CASE e.kind = "connected" -> none [] e.acks -> more [] OTHER -> got
      BY <2>1, Zenon DEF more, none
    <3>3. e.kind = "connected" => got' = none
      BY <3>1, <3>2
    <3>4. e.kind # "connected" => got' = IF e.acks THEN more ELSE got
      BY <3>1, <3>2
    <3> QED
      BY <3>3, <3>4 DEF more, none
  <2> QED
    BY <1>1, <2>2 DEF Begin, Happens
<1>3. /\ smtp.pc <= Len(Program(smtp.cc)) + 1
      /\ server.reply \in {<<>>, <<"nl">>} /\ server.answered \in Nat
      /\ psock.unread = <<>> /\ got \in Seq(Tokens) /\ done \in Seq(Nat)
      /\ link.state = "none" /\ smtp.connected => Fresh
      /\ Live /\ ~Reported(done) => StaysInStep
      /\ Reported(done) => Taken(got, server.answered, smtp.cc)
  BY <1>2 DEF TalkInv
<1>4. /\ e.kind \in Kinds /\ e.acks \in BOOLEAN
      /\ e.kind \notin {"input", "closed"} => ~e.acks
      /\ ~Newdata(e) => ~Brings(e)
  BY EventHas, RepliesAre
<1>5. /\ server'.reply \in {<<>>, <<"nl">>} /\ server'.answered \in Nat
      /\ server.answered <= server'.answered
      /\ Owed(server'.reply) + (IF Brings(e) THEN 1 ELSE 0) + server.answered
             <= Owed(server.reply) + server'.answered
  BY <1>1, <1>3, ServerAnswers
<1>6. e # NoCall
  BY <1>4 DEF Kinds, NoCall
<1>7. e.kind = "connected" => link.state = "none" /\ Fresh
  BY <1>1, <1>2, <1>3 DEF CanHappen
<1>8. e.acks => link.len > 0
  BY <1>2, <1>4 DEF CanHappen, CanInput, CanClose
<1>9. got' \in Seq(Tokens)
  <2>1. <<>> \in Seq(Tokens) /\ got \o link.sent \in Seq(Tokens)
    BY <1>3, TalkHas, ConcatProperties
  <2> QED
    BY <1>2, <1>3, <2>1
<1>10. ASSUME Live', ~Reported(done)
       PROVE  StaysInStep'
  <2>1. StaysInStep' <=> InStep(cc, pc, psock, e, got', server'.reply, server'.answered)
    BY <1>2 DEF StaysInStep
  <2>2. CASE e.kind = "connected"
    <3>1. ~Newdata(e) /\ ~Brings(e) /\ server' = server
      BY <1>1, <1>4, <2>2 DEF ServerSends
    <3>2. /\ pc = 1 /\ psock = NewPsock /\ got' = <<>>
          /\ server'.reply = <<>> /\ server'.answered = 0
      BY <1>2, <1>7, <2>2, <3>1 DEF Fresh
    <3>3. InStep(cc, 1, NewPsock, e, <<>>, <<>>, 0)
      BY <3>1, FreshIsInStep, TalkHas
    <3> QED
      BY <2>1, <3>2, <3>3
  <2>3. CASE e.kind # "connected"
    <3>1. link.state = "open"
      <4>1. link.state = "open" \/ Runs(e)
        BY <1>2, <1>10 DEF Live
      <4>2. Runs(e) => link.state = "open"
        BY <1>2, <2>3 DEF Runs, EndsIt, CanHappen, CanInput
      <4> QED
        BY <4>1, <4>2
    <3>2. InStep(cc, pc, psock, NoCall, got, server.reply, server.answered)
      BY <1>2, <1>3, <1>10, <3>1 DEF Live, StaysInStep
    <3>3. e.acks => /\ psock.busy /\ link.sent = Cut(psock.rest, AppMss)
                    /\ pc <= Len(Program(cc)) /\ Program(cc)[pc].op = "send"
      <4>1. e.acks => Unacked
        BY <1>2, <1>8 DEF Unacked, NoCall
      <4> QED
        BY <4>1, TalkHas DEF Sending, Statement
    <3> DEFINE sent == link.sent
    <3>4. InStep(cc, pc, psock, e, IF e.acks THEN got \o sent ELSE got,
                 server'.reply, server'.answered)
      <4> HIDE DEF sent
      <4>1. e.acks => /\ psock.busy /\ sent = Cut(psock.rest, AppMss)
                      /\ pc <= Len(Program(cc)) /\ Program(cc)[pc].op = "send"
        BY <3>3 DEF sent
      <4>2. /\ cc \in BOOLEAN /\ pc \in Nat \ {0} /\ pc <= Len(Program(cc)) + 1
            /\ IsSock(Tokens, psock)
        BY <1>3, TalkHas
      <4> HIDE DEF cc, pc
      <4> QED
        BY <1>3, <1>5, <3>2, <4>1, <4>2, BeginsInStep
    <3> QED
      BY <1>2, <2>1, <2>3, <3>4
  <2> QED
    BY <2>2, <2>3
<1>11. ASSUME Reported(done)
       PROVE  Taken(got, server.answered, smtp.cc)'
  <2>1. e.kind # "connected"
    <3>1. done # <<>>
      BY <1>11 DEF Reported
    <3> QED
      BY <1>7, <3>1 DEF Fresh
  <2>2. Taken(got', server'.answered, cc)
    <3>1. /\ Taken(got, server'.answered, cc)
          /\ Taken(got \o link.sent, server'.answered, cc)
      BY <1>3, <1>5, <1>11, TalkHas, TakenStays
    <3> QED
      BY <1>2, <2>1, <3>1
  <2> QED
    BY <1>2, <2>2 DEF Taken
<1>12. (link.state = "none" /\ smtp.connected /\ call = NoCall => Fresh)'
  BY <1>2, <1>6
<1>13. (smtp.pc <= Len(Program(smtp.cc)) + 1)' /\ (psock.unread = <<>>)' /\ (done \in Seq(Nat))'
  BY <1>2, <1>3
<1> QED
  BY <1>2, <1>5, <1>9, <1>10, <1>11, <1>12, <1>13 DEF TalkInv

LEMMA TalkSends ==
    ASSUME TalkInv, SmtpInv', SmtpSend
    PROVE  TalkInv'
<1> DEFINE cc == smtp.cc
           pc == smtp.pc
           data == Program(cc)[pc].data
<1>1. /\ smtp \in [pc : Nat \ {0}, cc : BOOLEAN, connected : BOOLEAN]
      /\ cc \in BOOLEAN /\ pc \in Nat \ {0} /\ IsSock(Tokens, psock)
      /\ SockInv(Tokens, Replies) /\ Len(Program(cc)) \in Nat
      /\ Program(cc) \in Seq(Statements)
  BY TalkHas
<1>2. Runs(call) /\ call # NoCall /\ ~EndsIt(call)
  BY TalkHas DEF SmtpSend, Runs
<1>3. pc <= Len(Program(cc)) /\ Program(cc)[pc].op = "send"
  BY TalkHas DEF SmtpSend, Statement
<1>4. /\ server.reply \in {<<>>, <<"nl">>} /\ server.answered \in Nat
      /\ psock.unread = <<>> /\ got \in Seq(Tokens) /\ done \in Seq(Nat)
      /\ ~Reported(done) => InStep(cc, pc, psock, call, got, server.reply, server.answered)
      /\ Reported(done) => Taken(got, server.answered, cc)
  BY <1>2 DEF TalkInv, Live, StaysInStep
<1>5. UNCHANGED <<done, server>>
  BY DEF SmtpSend
<1>6. CASE PsockSend(data) /\ NextStatement
  <2>1. psock' = Ended(psock) /\ UNCHANGED <<call, got, link>> /\ SendEnds(psock, data, call)
    BY <1>6 DEF PsockSend, GoesOn
  <2>2. smtp'.pc = pc + 1 /\ smtp'.cc = cc
    BY <1>1, <1>6 DEF NextStatement
  <2>3. psock'.unread = <<>>
    BY <1>1, <1>4, <2>1 DEF Ended, IsSock, SockFields
  <2>4. ASSUME ~Reported(done)
        PROVE  StaysInStep'
    <3> DEFINE reply == server.reply
               answered == server.answered
    <3>1. InStep(cc, pc, psock, call, got, reply, answered)
      BY <1>4, <2>4
    <3>2. answered \in Nat
      BY <1>4
    <3> HIDE DEF cc, pc, reply, answered
    <3>3. InStep(cc, pc + 1, Ended(psock), call, got, reply, answered)
      BY <1>1, <1>3, <1>4, <2>1, <3>1, <3>2, SendEndsInStep
    <3> QED
      BY <1>5, <2>1, <2>2, <3>3 DEF StaysInStep, reply, answered
  <2>5. pc + 1 <= Len(Program(cc)) + 1
    BY <1>1, <1>3
  <2>6. call' # NoCall
    BY <1>2, <2>1
  <2> HIDE DEF cc, pc
  <2>7. (smtp.pc <= Len(Program(smtp.cc)) + 1)'
    BY <2>2, <2>5
  <2>8. (Reported(done) => Taken(got, server.answered, smtp.cc))'
    BY <1>4, <1>5, <2>1, <2>2 DEF Reported, Taken
  <2>9. (Live /\ ~Reported(done) => StaysInStep)'
    BY <1>5, <2>4 DEF Reported
  <2>10. (server.reply \in {<<>>, <<"nl">>} /\ server.answered \in Nat
            /\ got \in Seq(Tokens) /\ done \in Seq(Nat))'
    BY <1>4, <1>5, <2>1
  <2> QED
    BY <2>3, <2>6, <2>7, <2>8, <2>9, <2>10 DEF TalkInv
<1>7. CASE PsockSendBlocks(data, Silent) /\ UNCHANGED smtp
  <2> DEFINE p == SendBlocked(psock, data, call)
             chunk == SendChunk(psock, data, call)
             a == IF chunk = <<>> THEN Silent ELSE Answer(chunk)
  <2>1. Returns(p, a) /\ ~a.abort
    BY <1>7 DEF PsockSendBlocks, Silent, Answer
  <2>2. p.state = "DATA_SENT" /\ p.busy = TRUE /\ p.rest = SendRest(psock, data, call)
        /\ p.unread = <<>>
    BY <1>1, <1>4 DEF SendBlocked, IsSock, SockFields
  <2>3. IsSock(Tokens, p)
    <3>1. Program(cc)[pc] \in Statements
      BY <1>1, <1>3
    <3>2. data \in Seq(Tokens)
      BY <1>3, <3>1, StatementIs
    <3> QED
      BY <1>1, <3>2, SendsBlock
  <2> HIDE DEF p, a
  <2>4. /\ psock'.unread = <<>> /\ psock'.state = "DATA_SENT" /\ psock'.busy = TRUE
        /\ psock'.rest = SendRest(psock, data, call) /\ call' = NoCall /\ got' = got
        /\ link'.state # "none"
    BY <1>1, <1>2, <2>1, <2>2, <2>3, ReturnsQuietly
  <2>5. ASSUME ~Reported(done)
        PROVE  StaysInStep'
    <3> DEFINE reply == server.reply
               answered == server.answered
               q == psock'
    <3>1. InStep(cc, pc, psock, call, got, reply, answered)
      BY <1>4, <2>5
    <3>2. answered \in Nat
      BY <1>4
    <3>3. q.state = "DATA_SENT" /\ q.busy /\ q.rest = SendRest(psock, Program(cc)[pc].data, call)
      BY <2>4
    <3> HIDE DEF cc, pc, reply, answered, q
    <3>4. InStep(cc, pc, q, NoCall, got, reply, answered)
      BY <1>1, <1>3, <3>1, <3>2, <3>3, SendsInStep
    <3> QED
      BY <1>5, <1>7, <2>4, <3>4 DEF StaysInStep, reply, answered, q, cc, pc
  <2>6. (smtp.pc <= Len(Program(smtp.cc)) + 1)'
    <3>1. pc <= Len(Program(cc)) + 1
      BY DEF TalkInv
    <3> QED
      BY <1>7, <3>1
  <2>7. (Reported(done) => Taken(got, server.answered, smtp.cc))'
    BY <1>4, <1>5, <1>7, <2>4 DEF Reported, Taken
  <2>8. (Live /\ ~Reported(done) => StaysInStep)'
    BY <1>5, <2>5 DEF Reported
  <2>9. (server.reply \in {<<>>, <<"nl">>} /\ server.answered \in Nat
            /\ got \in Seq(Tokens) /\ done \in Seq(Nat))'
    BY <1>4, <1>5, <2>4
  <2> QED
    BY <2>4, <2>6, <2>7, <2>8, <2>9 DEF TalkInv
<1> QED
  BY <1>6, <1>7 DEF SmtpSend, Statement

LEMMA TalkReads ==
    ASSUME TalkInv, SmtpInv', SmtpRead
    PROVE  TalkInv'
<1> DEFINE cc == smtp.cc
           pc == smtp.pc
           p == ReadTo(psock, call, "nl").p
           q == [p EXCEPT !.busy = TRUE,
                          !.state = IF @ = "READ" THEN "BLOCKED_NEWDATA" ELSE @]
<1>1. /\ cc \in BOOLEAN /\ pc \in Nat \ {0} /\ IsSock(Tokens, psock)
      /\ SockInv(Tokens, Replies)
  BY TalkHas
<1>2. Runs(call) /\ call # NoCall /\ ~EndsIt(call) /\ call \in Events(Replies)
  BY TalkHas DEF SmtpRead, Runs
<1>3. pc <= Len(Program(cc)) /\ Program(cc)[pc].op = "read"
  BY TalkHas DEF SmtpRead, Statement
<1>4. /\ server.reply \in {<<>>, <<"nl">>} /\ server.answered \in Nat
      /\ psock.unread = <<>> /\ got \in Seq(Tokens) /\ done \in Seq(Nat)
      /\ pc <= Len(Program(cc)) + 1
      /\ ~Reported(done) => InStep(cc, pc, psock, call, got, server.reply, server.answered)
      /\ Reported(done) => Taken(got, server.answered, cc)
  BY <1>2 DEF TalkInv, Live, StaysInStep
<1>5. UNCHANGED <<smtp, done, server>> /\ Returns(q, Silent) /\ ~Silent.abort
  BY DEF SmtpRead, PsockReadBlocks, Silent, Answer
<1>6. p.unread = <<>> /\ IsSock(Tokens, p)
  BY <1>1, <1>2, <1>4, ReadToReads, ReplyIsRead
<1> HIDE DEF p
<1>7. IsSock(Tokens, q) /\ q.unread = <<>> /\ q.state # "READ"
  BY <1>6 DEF IsSock, SockFields
<1> HIDE DEF q
<1>8. /\ psock'.unread = <<>> /\ psock'.state # "READ" /\ call' = NoCall /\ got' = got
      /\ link'.state # "none"
  BY <1>1, <1>2, <1>5, <1>7, ReturnsQuietly
<1>9. ASSUME ~Reported(done)
      PROVE  StaysInStep'
  <2> DEFINE reply == server.reply
             answered == server.answered
             r == psock'
  <2>1. InStep(cc, pc, psock, call, got, reply, answered) /\ answered \in Nat /\ r.state # "READ"
    BY <1>4, <1>8, <1>9
  <2> HIDE DEF cc, pc, reply, answered, r
  <2>2. InStep(cc, pc, r, NoCall, got, reply, answered)
    BY <1>1, <1>3, <2>1, ReadsInStep
  <2> QED
    BY <1>5, <1>8, <2>2 DEF StaysInStep, reply, answered, r, cc, pc
<1>10. (smtp.pc <= Len(Program(smtp.cc)) + 1)'
  BY <1>4, <1>5
<1>11. (Reported(done) => Taken(got, server.answered, smtp.cc))'
  BY <1>4, <1>5, <1>8 DEF Reported, Taken
<1>12. (Live /\ ~Reported(done) => StaysInStep)'
  BY <1>5, <1>9 DEF Reported
<1>13. (server.reply \in {<<>>, <<"nl">>} /\ server.answered \in Nat
           /\ got \in Seq(Tokens) /\ done \in Seq(Nat))'
  BY <1>4, <1>5, <1>8
<1> QED
  BY <1>8, <1>10, <1>11, <1>12, <1>13 DEF TalkInv

LEMMA TalkReplies ==
    ASSUME TalkInv, SmtpInv', SmtpReply
    PROVE  TalkInv'
<1> DEFINE cc == smtp.cc
           pc == smtp.pc
           p == ReadTo(psock, call, "nl").p
           q == ReadResult("nl")
           error == Program(cc)[pc].error
<1>1. /\ smtp \in [pc : Nat \ {0}, cc : BOOLEAN, connected : BOOLEAN]
      /\ cc \in BOOLEAN /\ pc \in Nat \ {0} /\ IsSock(Tokens, psock)
      /\ SockInv(Tokens, Replies) /\ Len(Program(cc)) \in Nat
      /\ Program(cc) \in Seq(Statements)
  BY TalkHas
<1>2. Runs(call) /\ call # NoCall /\ ~EndsIt(call) /\ call \in Events(Replies)
  BY TalkHas DEF SmtpReply, Runs
<1>3. pc <= Len(Program(cc)) /\ Program(cc)[pc].op = "read"
  BY TalkHas DEF SmtpReply, Statement
<1>4. /\ server.reply \in {<<>>, <<"nl">>} /\ server.answered \in Nat
      /\ psock.unread = <<>> /\ got \in Seq(Tokens) /\ done \in Seq(Nat)
      /\ ~Reported(done) => InStep(cc, pc, psock, call, got, server.reply, server.answered)
      /\ Reported(done) => Taken(got, server.answered, cc)
  BY <1>2 DEF TalkInv, Live, StaysInStep
<1>5. /\ UNCHANGED server /\ ReadEnds(psock, call, "nl")
      /\ \/ GoesOn(q) /\ NextStatement /\ UNCHANGED done
         \/ /\ Returns(q, Close) /\ done' = Append(done, error)
            /\ smtp' = [smtp EXCEPT !.pc = 1]
  BY DEF SmtpReply, Statement
<1>6. /\ p.unread = <<>> /\ IsSock(Tokens, p)
      /\ Brings(call) /\ psock.state # "READ" /\ p.state = "READ"
  BY <1>1, <1>2, <1>4, <1>5, ReadToReads, ReplyIsRead DEF ReadEnds
<1>7. q = [p EXCEPT !.busy = FALSE]
  BY DEF ReadResult
<1> HIDE DEF p, q
<1>8. IsSock(Tokens, q) /\ q.unread = <<>> /\ q.state = "READ" /\ q.busy = FALSE
  BY <1>6, <1>7 DEF IsSock, SockFields
<1>9. CASE GoesOn(q) /\ NextStatement /\ UNCHANGED done
  <2>1. psock' = q /\ UNCHANGED <<call, got, link, server, done>>
    BY <1>5, <1>9 DEF GoesOn
  <2>2. smtp'.pc = pc + 1 /\ smtp'.cc = cc
    BY <1>1, <1>9 DEF NextStatement
  <2>3. ASSUME ~Reported(done)
        PROVE  StaysInStep'
    <3> DEFINE reply == server.reply
               answered == server.answered
    <3>1. InStep(cc, pc, psock, call, got, reply, answered) /\ answered \in Nat
      BY <1>4, <2>3
    <3> HIDE DEF cc, pc, reply, answered
    <3>2. InStep(cc, pc + 1, q, call, got, reply, answered)
      BY <1>1, <1>2, <1>3, <1>6, <1>8, <3>1, ReplyIsInStep
    <3> QED
      BY <2>1, <2>2, <3>2 DEF StaysInStep, reply, answered
  <2>4. pc + 1 <= Len(Program(cc)) + 1
    BY <1>1, <1>3
  <2>5. call' # NoCall /\ psock'.unread = <<>>
    BY <1>2, <1>8, <2>1
  <2> HIDE DEF cc, pc
  <2>6. (smtp.pc <= Len(Program(smtp.cc)) + 1)'
    BY <2>2, <2>4
  <2>7. (Reported(done) => Taken(got, server.answered, smtp.cc))'
    BY <1>4, <2>1, <2>2 DEF Reported, Taken
  <2>8. (Live /\ ~Reported(done) => StaysInStep)'
    BY <2>1, <2>3 DEF Reported
  <2>9. (server.reply \in {<<>>, <<"nl">>} /\ server.answered \in Nat
            /\ got \in Seq(Tokens) /\ done \in Seq(Nat))'
    BY <1>4, <2>1
  <2> QED
    BY <2>5, <2>6, <2>7, <2>8, <2>9 DEF TalkInv
<1>10. CASE /\ Returns(q, Close) /\ done' = Append(done, error)
            /\ smtp' = [smtp EXCEPT !.pc = 1]
  <2>1. Close.close /\ ~Close.abort
    BY DEF Close
  <2>2. call.kind # "rexmit"
    <3>1. Newdata(call)
      BY <1>2, <1>6, RepliesAre
    <3> QED
      BY <1>2, <3>1, EventHas DEF Newdata
  <2>3. /\ psock'.unread = <<>> /\ call' = NoCall /\ got' = got /\ ~Runs(call')
        /\ link'.state # "none" /\ link'.state # "open"
    BY <1>1, <1>2, <1>8, <1>10, <2>1, <2>2, ReturnsQuietly
  <2>4. error \in 2 .. 8
    <3>1. Program(cc)[pc] \in Statements
      BY <1>1, <1>3
    <3> HIDE DEF cc, pc
    <3>2. \A s \in Statements : s.op = "read" => s.error \in 2 .. 8
      BY DEF Statements, Read, Send
    <3> QED
      BY <1>3, <3>1, <3>2
  <2>5. done' \in Seq(Nat) /\ (Reported(done') <=> Reported(done))
    <3>1. error \in Nat /\ error # OK
      BY <2>4 DEF OK
    <3> HIDE DEF error
    <3> QED
      BY <1>4, <1>10, <3>1, ReportedAfter
  <2>6. smtp'.pc = 1 /\ smtp'.cc = cc
    BY <1>1, <1>10
  <2>7. (smtp.pc <= Len(Program(smtp.cc)) + 1)'
    BY <1>1, <2>6
  <2>8. (Reported(done) => Taken(got, server.answered, smtp.cc))'
    BY <1>4, <1>5, <2>3, <2>5, <2>6 DEF Reported, Taken
  <2>9. ~Live'
    BY <2>3 DEF Live
  <2>10. (server.reply \in {<<>>, <<"nl">>} /\ server.answered \in Nat
            /\ got \in Seq(Tokens) /\ done \in Seq(Nat))'
    BY <1>4, <1>5, <2>3, <2>5
  <2> QED
    BY <2>3, <2>7, <2>8, <2>9, <2>10 DEF TalkInv
<1> QED
  BY <1>5, <1>9, <1>10

\* PSOCK_END: what the program is told is true.
LEMMA TalkEnds ==
    ASSUME TalkInv, SmtpInv', SmtpEnd
    PROVE  TalkInv'
<1> DEFINE cc == smtp.cc
           pc == smtp.pc
<1>1. /\ smtp \in [pc : Nat \ {0}, cc : BOOLEAN, connected : BOOLEAN]
      /\ cc \in BOOLEAN /\ pc \in Nat \ {0} /\ IsSock(Tokens, psock)
      /\ SockInv(Tokens, Replies) /\ Len(Program(cc)) \in Nat
  BY TalkHas
<1>2. Runs(call) /\ call # NoCall /\ ~EndsIt(call)
  BY TalkHas DEF SmtpEnd, Runs
<1>3. pc = Len(Program(cc)) + 1
  BY <1>1, TalkHas DEF SmtpEnd, TalkInv
<1>4. /\ server.reply \in {<<>>, <<"nl">>} /\ server.answered \in Nat
      /\ psock.unread = <<>> /\ got \in Seq(Tokens) /\ done \in Seq(Nat)
      /\ ~Reported(done) => InStep(cc, pc, psock, call, got, server.reply, server.answered)
      /\ Reported(done) => Taken(got, server.answered, cc)
  BY <1>2 DEF TalkInv, Live, StaysInStep
<1>5. /\ UNCHANGED server /\ Returns(psock, Silent) /\ ~Silent.abort
      /\ done' = Append(done, OK) /\ smtp' = [smtp EXCEPT !.pc = 1]
  BY DEF SmtpEnd, Silent, Answer
<1>6. /\ psock'.unread = <<>> /\ call' = NoCall /\ got' = got /\ link'.state # "none"
  BY <1>1, <1>2, <1>4, <1>5, ReturnsQuietly
<1>7. Taken(got, server.answered, cc)
  <2>1. CASE ~Reported(done)
    <3> DEFINE reply == server.reply
               answered == server.answered
    <3>1. InStep(cc, Len(Program(cc)) + 1, psock, call, got, reply, answered) /\ answered \in Nat
      BY <1>3, <1>4, <2>1
    <3> HIDE DEF cc, pc, reply, answered
    <3>2. got = Dialogue(cc) /\ answered >= Len(Commands(cc)) - 1
      BY <1>1, <3>1, EndIsInStep
    <3>3. Len(got) \in Nat
      BY <1>4
    <3> QED
      BY <3>2, <3>3 DEF Taken, IsPrefix, answered
  <2> QED
    BY <1>4, <2>1
<1>8. done' \in Seq(Nat) /\ Reported(done')
  <2>1. OK \in Nat
    BY DEF OK
  <2> QED
    BY <1>4, <1>5, <2>1, ReportedAfter
<1>9. smtp'.pc = 1 /\ smtp'.cc = cc
  BY <1>1, <1>5
<1>10. (smtp.pc <= Len(Program(smtp.cc)) + 1)'
  BY <1>1, <1>9
<1>11. (Reported(done) => Taken(got, server.answered, smtp.cc))'
  BY <1>5, <1>6, <1>7, <1>9 DEF Taken
<1>12. Reported(done)'
  BY <1>8 DEF Reported
<1>13. (server.reply \in {<<>>, <<"nl">>} /\ server.answered \in Nat
           /\ got \in Seq(Tokens) /\ done \in Seq(Nat))'
  BY <1>4, <1>5, <1>6, <1>8
<1> QED
  BY <1>6, <1>10, <1>11, <1>12, <1>13 DEF TalkInv

LEMMA TalkIsOver ==
    ASSUME TalkInv, SmtpInv', SmtpOver
    PROVE  TalkInv'
<1> DEFINE cc == smtp.cc
<1>1. /\ smtp \in [pc : Nat \ {0}, cc : BOOLEAN, connected : BOOLEAN]
      /\ cc \in BOOLEAN /\ IsSock(Tokens, psock)
      /\ SockInv(Tokens, Replies) /\ Len(Program(cc)) \in Nat
  BY TalkHas
<1>2. call # NoCall /\ EndsIt(call)
  BY DEF SmtpOver
<1>3. /\ server.reply \in {<<>>, <<"nl">>} /\ server.answered \in Nat
      /\ psock.unread = <<>> /\ got \in Seq(Tokens) /\ done \in Seq(Nat)
      /\ smtp.pc <= Len(Program(cc)) + 1
      /\ Reported(done) => Taken(got, server.answered, cc)
  BY DEF TalkInv
<1>4. /\ UNCHANGED server /\ Returns(psock, Silent) /\ ~Silent.abort
      /\ done' \in {done, Append(done, 1)} /\ smtp' = [smtp EXCEPT !.connected = FALSE]
  BY DEF SmtpOver, Silent, Answer
<1>5. /\ psock'.unread = <<>> /\ got' = got /\ ~Runs(call') /\ link'.state # "open"
  BY <1>1, <1>2, <1>3, <1>4, ReturnsQuietly
<1>6. done' \in Seq(Nat) /\ (Reported(done') <=> Reported(done))
  <2>1. 1 \in Nat /\ 1 # OK
    BY DEF OK
  <2> QED
    BY <1>3, <1>4, <2>1, ReportedAfter
<1>7. smtp'.pc = smtp.pc /\ smtp'.cc = cc /\ ~smtp'.connected
  BY <1>1, <1>4
<1>8. (smtp.pc <= Len(Program(smtp.cc)) + 1)'
  BY <1>3, <1>7
<1>9. (Reported(done) => Taken(got, server.answered, smtp.cc))'
  BY <1>3, <1>4, <1>5, <1>6, <1>7 DEF Reported, Taken
<1>10. ~Live'
  BY <1>5 DEF Live
<1>11. (server.reply \in {<<>>, <<"nl">>} /\ server.answered \in Nat
           /\ got \in Seq(Tokens) /\ done \in Seq(Nat))'
  BY <1>3, <1>4, <1>5, <1>6
<1> QED
  BY <1>5, <1>7, <1>8, <1>9, <1>10, <1>11 DEF TalkInv

LEMMA TalkStaysGood == TalkInv /\ [SmtpNext]_smtpVars => TalkInv'
<1> SUFFICES ASSUME TalkInv, [SmtpNext]_smtpVars PROVE TalkInv'
  OBVIOUS
<1>1. SmtpInv'
  BY SmtpStepGood DEF TalkInv
<1>2. CASE UNCHANGED smtpVars
  BY <1>1, <1>2 DEF smtpVars, TalkInv, Fresh, Live, StaysInStep, Reported, Taken
<1> QED
  BY <1>1, <1>2, TalkCalled, TalkSends, TalkReads, TalkReplies, TalkEnds, TalkIsOver DEF SmtpNext

\* smtp_done() says that the mail was sent only when the server has got the whole
\* dialogue, each token once and in order, and has replied to every command but
\* QUIT: however replies are cut into segments, whatever is sent again, and however
\* the connection ends.
THEOREM SmtpOkMeansTaken == SmtpSpec => []OkMeansTaken
<1>1. TalkInv => OkMeansTaken
  BY DEF TalkInv, OkMeansTaken, Reported, Taken
<1> QED
  BY <1>1, TalkBegins, TalkStaysGood, PTL DEF SmtpSpec

-----------------------------------------------------------------------------
(* The SMTP client: its buffer and what it tells the program.              *)

ReplyTokens == SmtpCodes \cup {"nl"}

LEMMA RepliesAreTokens ==
    /\ \A e \in Events(Replies) : e.data \in Seq(ReplyTokens)
    /\ <<>> \in Seq(ReplyTokens)
<1>1. "nl" \in ReplyTokens /\ \A c \in SmtpCodes : c \in ReplyTokens
  BY DEF ReplyTokens
<1>2. \A c \in ReplyTokens : <<c>> \in Seq(ReplyTokens) /\ <<c, "nl">> \in Seq(ReplyTokens)
  BY <1>1
<1>3. <<>> \in Seq(ReplyTokens)
  OBVIOUS
<1>4. \A data \in Replies \cup {<<>>} : data \in Seq(ReplyTokens)
  BY <1>1, <1>2, <1>3 DEF Replies
<1> QED
  BY <1>3, <1>4, EventHas

\* The buffer holds no more than its size.
Fits(p) == p.buf \in Seq(ReplyTokens) /\ Len(p.buf) <= PsockBufsize

LEMMA ReplyFits ==
    ASSUME NEW e \in Events(Replies), NEW p, IsSock(Tokens, p), p.unread = <<>>, Fits(p)
    PROVE  Fits(ReadTo(p, e, "nl").p)
<1> DEFINE data == e.data
           start == IF p.busy THEN p ELSE [p EXCEPT !.buf = <<>>]
           taken == [start EXCEPT !.state = "READ"]
           at == {i \in DOMAIN data : data[i] = "nl" /\ \A j \in 1 .. i - 1 : data[j] # "nl"}
           n == IF at = {} THEN Len(data) ELSE CHOOSE i \in at : TRUE
           front == SubSeq(data, 1, n)
           all == taken.buf \o front
           buf == Cut(all, PsockBufsize)
           rest == Drop(data, n)
           r == ReadTo(p, e, "nl")
<1>1. data \in Seq(ReplyTokens) /\ <<>> \in Seq(ReplyTokens) /\ PsockBufsize \in Nat
  BY RepliesAreTokens, PsockAssumption
<1>2. start = [f \in SockFields |-> start[f]] /\ start.unread = <<>> /\ Fits(start)
  <2>1. Len(<<>>) = 0
    OBVIOUS
  <2>2. CASE p.busy
    BY <2>2 DEF IsSock
  <2>3. CASE ~p.busy
    <3> DEFINE none == <<>>
    <3>1. start = [p EXCEPT !.buf = none] /\ none \in Seq(ReplyTokens) /\ Len(none) <= PsockBufsize
      BY <1>1, <2>1, <2>3, PsockAssumption
    <3> HIDE DEF none, start
    <3>2. start = [f \in SockFields |-> start[f]] /\ start.unread = p.unread /\ start.buf = none
      BY <3>1 DEF IsSock, SockFields
    <3> QED
      BY <3>1, <3>2 DEF Fits
  <2> QED
    BY <2>2, <2>3
<1>3. r = IF ~TakesNewdata(start, e) THEN [p |-> start, found |-> FALSE]
          ELSE [p |-> [taken EXCEPT !.buf = buf, !.unread = rest], found |-> at # {}]
  BY <1>2 DEF ReadTo, Scan
<1> HIDE DEF start, r, buf, rest
<1>4. CASE ~TakesNewdata(start, e)
  BY <1>2, <1>3, <1>4 DEF r
<1>5. CASE TakesNewdata(start, e)
  <2>1. n \in 0 .. Len(data) /\ Len(data) \in Nat
    <3>1. Len(data) \in Nat /\ at \subseteq 1 .. Len(data)
      BY <1>1
    <3> HIDE DEF at
    <3>2. CASE at = {}
      BY <3>1, <3>2
    <3>3. CASE at # {}
      <4>1. (CHOOSE i \in at : TRUE) \in at
        BY <3>3
      <4>2. n = CHOOSE i \in at : TRUE
        BY <3>3
      <4>3. n \in at
        BY <4>1, <4>2
      <4> HIDE DEF n
      <4>4. n \in 1 .. Len(data)
        BY <3>1, <4>3
      <4> HIDE DEF data
      <4> QED
        BY <3>1, <4>4
    <3> QED
      BY <3>2, <3>3
  <2> HIDE DEF n
  <2>2. front \in Seq(ReplyTokens)
    <3>1. n \in 0 .. Len(data)
      BY <2>1
    <3> HIDE DEF data
    <3> QED
      BY <1>1, <3>1, RestHas
  <2> HIDE DEF front
  <2>3. taken = [f \in SockFields |-> taken[f]] /\ taken.buf = start.buf
    BY <1>2 DEF SockFields
  <2> HIDE DEF taken
  <2>4. all \in Seq(ReplyTokens)
    BY <1>2, <2>2, <2>3, ConcatProperties DEF Fits
  <2> HIDE DEF all
  <2>5. buf \in Seq(ReplyTokens) /\ Len(buf) = IF Len(all) <= PsockBufsize THEN Len(all) ELSE PsockBufsize
    BY <1>1, <2>4, CutIsFront DEF buf
  <2>6. Len(buf) <= PsockBufsize
    BY <1>1, <2>5
  <2>7. r.p = [taken EXCEPT !.buf = buf, !.unread = rest]
    BY <1>3, <1>5
  <2>8. r.p.buf = buf
    BY <2>3, <2>7 DEF SockFields
  <2> QED
    BY <2>5, <2>6, <2>8 DEF Fits, r
<1> QED
  BY <1>4, <1>5

\* The codes smtp_done() is called with, and the buffer.
FitsInv == TalkInv /\ Fits(psock) /\ done \in Seq(0 .. 8)

LEMMA FitsBegins == SmtpInit => FitsInv
<1> SUFFICES ASSUME SmtpInit PROVE FitsInv
  OBVIOUS
<1>1. psock = NewPsock /\ done = <<>>
  BY DEF SmtpInit, PsockInit
<1>2. Len(<<>>) = 0 /\ <<>> \in Seq(0 .. 8)
  OBVIOUS
<1> QED
  BY <1>1, <1>2, TalkBegins, RepliesAreTokens, PsockAssumption DEF FitsInv, Fits, NewPsock

LEMMA FitsStays == FitsInv /\ [SmtpNext]_smtpVars => FitsInv'
<1> SUFFICES ASSUME FitsInv, [SmtpNext]_smtpVars PROVE FitsInv'
  OBVIOUS
<1> DEFINE p == ReadTo(psock, call, "nl").p
<1>1. TalkInv'
  BY TalkStaysGood DEF FitsInv
<1>2. /\ IsSock(Tokens, psock) /\ psock.unread = <<>> /\ Fits(psock) /\ done \in Seq(0 .. 8)
      /\ call # NoCall => call \in Events(Replies)
  BY TalkHas DEF FitsInv, TalkInv
<1>3. ASSUME NEW q, IsSock(Tokens, q), NEW a, Returns(q, a)
      PROVE  psock'.buf = q.buf
  <2>1. psock' = [q EXCEPT !.unread = [i \in DOMAIN q.unread |-> Junk]]
    BY <1>3 DEF Returns
  <2> QED
    BY <1>3, <2>1 DEF IsSock, SockFields
<1>4. ASSUME NEW code \in 0 .. 8
      PROVE  Append(done, code) \in Seq(0 .. 8)
  BY <1>2, AppendProperties
<1>5. CASE SmtpCalled \/ UNCHANGED smtpVars
  BY <1>1, <1>2, <1>5 DEF SmtpCalled, smtpVars, FitsInv
<1>6. CASE SmtpSend
  <2> DEFINE data == Statement.data
             q == SendBlocked(psock, data, call)
  <2>1. Ended(psock).buf = psock.buf
    BY <1>2 DEF Ended, IsSock, SockFields
  <2>2. q.buf = psock.buf /\ q = [f \in SockFields |-> q[f]]
    BY <1>2 DEF SendBlocked, IsSock, SockFields
  <2>3. psock'.buf = psock.buf
    <3>1. CASE PsockSend(data)
      BY <2>1, <3>1 DEF PsockSend, GoesOn
    <3>2. CASE PsockSendBlocks(data, Silent)
      <4>1. psock' = [q EXCEPT !.unread = [i \in DOMAIN q.unread |-> Junk]]
        BY <3>2 DEF PsockSendBlocks, Returns
      <4> HIDE DEF q
      <4>2. psock'.buf = q.buf
        BY <2>2, <4>1 DEF SockFields
      <4> QED
        BY <2>2, <4>2
    <3> QED
      BY <1>6, <3>1, <3>2 DEF SmtpSend
  <2> QED
    BY <1>1, <1>2, <1>6, <2>3 DEF SmtpSend, FitsInv, Fits
<1>7. call # NoCall => Fits(p) /\ IsSock(Tokens, p)
  BY <1>2, ReplyFits, ReadToReads
<1>8. CASE SmtpRead
  <2> DEFINE q == [p EXCEPT !.busy = TRUE,
                            !.state = IF @ = "READ" THEN "BLOCKED_NEWDATA" ELSE @]
  <2>1. Returns(q, Silent) /\ call # NoCall /\ done' = done
    BY <1>8 DEF SmtpRead, PsockReadBlocks, Running
  <2> HIDE DEF p
  <2>2. IsSock(Tokens, q) /\ q.buf = p.buf
    BY <1>7, <2>1 DEF IsSock, SockFields
  <2> HIDE DEF q
  <2>3. psock'.buf = p.buf
    BY <1>3, <2>1, <2>2
  <2> QED
    BY <1>1, <1>2, <1>7, <2>1, <2>3 DEF FitsInv, Fits
<1>9. CASE SmtpReply
  <2> DEFINE q == ReadResult("nl")
             error == Statement.error
  <2>1. /\ call # NoCall /\ ~AtEnd /\ Statement.op = "read"
        /\ \/ GoesOn(q) /\ UNCHANGED done
           \/ Returns(q, Close) /\ done' = Append(done, error)
    BY <1>9 DEF SmtpReply, Running
  <2>2. q = [p EXCEPT !.busy = FALSE]
    BY DEF ReadResult
  <2> HIDE DEF p, q
  <2>3. IsSock(Tokens, q) /\ q.buf = p.buf
    BY <1>7, <2>1, <2>2 DEF IsSock, SockFields
  <2>4. psock'.buf = p.buf
    <3>1. CASE GoesOn(q)
      BY <2>3, <3>1 DEF GoesOn
    <3>2. CASE Returns(q, Close)
      BY <1>3, <2>3, <3>2
    <3> QED
      BY <2>1, <3>1, <3>2
  <2>5. error \in 0 .. 8
    <3> DEFINE cc == smtp.cc
               pc == smtp.pc
    <3>1. /\ Program(cc) \in Seq(Statements) /\ pc \in Nat \ {0} /\ pc <= Len(Program(cc))
          /\ Program(cc)[pc].op = "read"
      BY <2>1, TalkHas DEF FitsInv, Statement
    <3>2. Program(cc)[pc] \in Statements
      BY <3>1
    <3> HIDE DEF cc, pc
    <3>3. \A s \in Statements : s.op = "read" => s.error \in 0 .. 8
      BY DEF Statements, Read, Send
    <3> QED
      BY <3>1, <3>2, <3>3 DEF Statement, cc, pc
  <2> HIDE DEF error
  <2>6. done' \in Seq(0 .. 8)
    BY <1>2, <1>4, <2>1, <2>5
  <2> QED
    BY <1>1, <1>7, <2>1, <2>4, <2>6 DEF FitsInv, Fits
<1>10. CASE SmtpEnd \/ SmtpOver
  <2>1. Returns(psock, Silent) /\ done' \in {done, Append(done, OK), Append(done, 1)}
    BY <1>10 DEF SmtpEnd, SmtpOver
  <2>2. psock'.buf = psock.buf
    BY <1>2, <1>3, <2>1
  <2>3. OK \in 0 .. 8 /\ 1 \in 0 .. 8
    BY DEF OK
  <2> QED
    BY <1>1, <1>2, <1>4, <2>1, <2>2, <2>3 DEF FitsInv, Fits
<1> QED
  BY <1>5, <1>6, <1>8, <1>9, <1>10 DEF SmtpNext

LEMMA SmtpTypes == FitsInv => SmtpTypeOK
<1> SUFFICES ASSUME FitsInv PROVE SmtpTypeOK
  OBVIOUS
<1>1. /\ smtp.pc \in Nat \ {0} /\ Len(Program(smtp.cc)) \in Nat /\ IsSock(Tokens, psock)
      /\ smtp.pc <= Len(Program(smtp.cc)) + 1
  BY TalkHas DEF FitsInv, TalkInv
<1>2. smtp.pc \in 1 .. Len(Program(smtp.cc)) + 1
  BY <1>1
<1>3. \A i \in DOMAIN done : done[i] \in 0 .. 8
  BY DEF FitsInv
<1>4. Junk \notin Tokens
  <2>1. Junk \notin Words
    BY DEF Junk, Words
  <2> QED
    BY <2>1, SmtpAssumption DEF Tokens
<1> DEFINE rest == psock.rest
<1>5. \A i \in DOMAIN rest : rest[i] # Junk
  <2>1. rest \in Seq(Tokens)
    BY <1>1 DEF IsSock
  <2> HIDE DEF rest
  <2>2. \A i \in DOMAIN rest : rest[i] \in Tokens
    BY <2>1
  <2> QED
    BY <1>4, <2>2
<1> QED
  BY <1>2, <1>3, <1>5 DEF SmtpTypeOK, FitsInv, Fits

\* The SMTP client never reads past its buffer, never sends from a buffer used for
\* other packets, and tells the program nothing but the codes of smtp.h.
THEOREM SmtpTypesHold == SmtpSpec => []SmtpTypeOK
BY SmtpTypes, FitsBegins, FitsStays, PTL DEF SmtpSpec

-----------------------------------------------------------------------------
(* The web server: what is sent again is what was sent, or a line of a     *)
(* report made anew.                                                       *)

FileTokens == UNION {{HttpdFiles[n].text[i] : i \in DOMAIN HttpdFiles[n].text} : n \in DOMAIN HttpdFiles}
ReportTokens ==
    UNION {{HttpdReport[n][i] : i \in DOMAIN HttpdReport[n]} : n \in DOMAIN HttpdReport}
HttpWords == {"", "200", "404", "binary"} \cup {HttpdTypes[dot] : dot \in DOMAIN HttpdTypes}
HttpTokens == HttpWords \cup FileTokens \cup ReportTokens
HttpInputs == HttpdInputs \ {<<>>}

LEMMA WordsHave == {"", "200", "404", "binary"} \subseteq HttpWords
BY DEF HttpWords

LEMMA OwnElements ==
    ASSUME NEW S, NEW data \in Seq(S), NEW T, \A i \in DOMAIN data : data[i] \in T
    PROVE  data \in Seq(T)
<1>1. /\ Len(data) \in Nat /\ DOMAIN data = 1 .. Len(data)
      /\ data = [i \in 1 .. Len(data) |-> data[i]]
  BY LenProperties
<1> QED
  BY <1>1

\* The smallest of some natural numbers is one of them.
LEMMA MinIsOne ==
    ASSUME NEW T, T \subseteq Nat, T # {}
    PROVE  Min(T) \in T
BY Printed!LeastIsThere DEF Min

LEMMA FilesHave ==
    ASSUME NEW n \in DOMAIN HttpdFiles
    PROVE  /\ HttpdFiles[n].name \in Seq(STRING)
           /\ HttpdFiles[n].text \in Seq(STRING) /\ HttpdFiles[n].text # <<>>
<1> DEFINE names == Seq(STRING)
           texts == Seq(STRING) \ {<<>>}
           files == [name : names, text : texts]
<1>1. HttpdFiles \in Seq(files)
  BY HttpdAssumption
<1> HIDE DEF names, texts
<1>2. HttpdFiles[n] \in files
  <2> HIDE DEF files
  <2> QED
    BY <1>1
<1>3. HttpdFiles[n].name \in names /\ HttpdFiles[n].text \in texts
  BY <1>2
<1> QED
  BY <1>3 DEF names, texts

LEMMA FilesAreTokens ==
    /\ \A n \in DOMAIN HttpdFiles : HttpdFiles[n].text \in Seq(HttpTokens)
    /\ \A n \in DOMAIN HttpdReport : HttpdReport[n] \in Seq(HttpTokens)
<1>2. ASSUME NEW n \in DOMAIN HttpdFiles
      PROVE  HttpdFiles[n].text \in Seq(HttpTokens)
  <2> DEFINE text == HttpdFiles[n].text
  <2>1. \A i \in DOMAIN text : text[i] \in FileTokens
    BY DEF FileTokens
  <2>2. \A i \in DOMAIN text : text[i] \in HttpTokens
    BY <2>1 DEF HttpTokens
  <2>3. text \in Seq(STRING)
    BY FilesHave
  <2> HIDE DEF text
  <2>4. text \in Seq(HttpTokens)
    BY <2>2, <2>3, OwnElements
  <2> QED
    BY <2>4 DEF text
<1>3. ASSUME NEW n \in DOMAIN HttpdReport
      PROVE  HttpdReport[n] \in Seq(HttpTokens)
  <2>1. \A i \in DOMAIN HttpdReport[n] : HttpdReport[n][i] \in ReportTokens
    BY DEF ReportTokens
  <2>2. \A i \in DOMAIN HttpdReport[n] : HttpdReport[n][i] \in HttpTokens
    BY <2>1 DEF HttpTokens
  <2>3. HttpdReport[n] \in Seq(STRING)
    BY HttpdAssumption
  <2> QED
    BY <2>2, <2>3, OwnElements
<1> QED
  BY <1>2, <1>3

\* A name that opens a file opens the first of those it could.
LEMMA OpensFirst ==
    ASSUME NEW name, Opens(name)
    PROVE  /\ Min(Matches(name)) \in DOMAIN HttpdFiles
           /\ TextOf(name) \in Seq(HttpTokens)
<1>1. DOMAIN HttpdFiles \subseteq Nat
  BY HttpdAssumption
<1>2. Matches(name) \subseteq DOMAIN HttpdFiles /\ Matches(name) # {}
  BY DEF Matches, Opens
<1>3. Min(Matches(name)) \in DOMAIN HttpdFiles
  BY <1>1, <1>2, MinIsOne
<1> QED
  BY <1>3, FilesAreTokens DEF TextOf

LEMMA IncludedIsTokens ==
    ASSUME NEW n \in DOMAIN HttpdInclude
    PROVE  Opens(HttpdInclude[n]) /\ TextOf(HttpdInclude[n]) \in Seq(HttpTokens)
<1>1. HttpdInclude[n] \in Range(HttpdInclude)
  BY DEF Range
<1> QED
  BY <1>1, HttpdAssumption, OpensFirst

LEMMA NotFoundOpens == Opens(NotFound)
BY HttpdAssumption

LEMMA TypeIsWord ==
    ASSUME NEW name
    PROVE  TypeOf(name) \in HttpWords
<1> DEFINE last == LastOf(Dots(name))
<1>1. \A i \in last : name[i] \in DOMAIN HttpdTypes
  BY DEF LastOf, Dots
<1>2. last # {} => (CHOOSE i \in last : TRUE) \in last
  OBVIOUS
<1>3. TypeOf(name) = IF last = {} THEN "binary" ELSE HttpdTypes[name[CHOOSE i \in last : TRUE]]
  BY DEF TypeOf
<1> HIDE DEF last
<1> QED
  BY <1>1, <1>2, <1>3 DEF HttpWords

HttpStatements == {"open", "status", "type", "part", "file", "include", "report", "close"}
HttpFields == {"timer", "sin", "reading", "turn", "output", "name", "status", "pc", "file", "script",
               "len", "report"}

\* The server's state, as far as it is about what is sent.
IsHttp(h) ==
    /\ h = [f \in HttpFields |-> h[f]]
    /\ h.reading \in {"method", "path", "lines"} /\ h.turn \in {"input", "output"}
    /\ h.output \in BOOLEAN /\ h.status \in HttpWords /\ h.pc \in HttpStatements
    /\ h.file \in Seq(HttpTokens) /\ h.script \in Seq(HttpTokens)
    /\ h.report \in Seq(HttpTokens) /\ h.len \in Nat

LEMMA NewHttpIsHttp == IsHttp(NewHttp) /\ ~NewHttp.output /\ NewHttp.turn = "input"
<1>1. <<>> \in Seq(HttpTokens)
  OBVIOUS
<1>2. "" \in HttpWords
  BY WordsHave
<1> QED
  BY <1>1, <1>2 DEF NewHttp, IsHttp, HttpFields, HttpStatements

\* What changes nothing but the request.
LEMMA ReadingIsHttp ==
    ASSUME NEW h, IsHttp(h), NEW timer, NEW sin, NEW name, NEW reading \in {"method", "path", "lines"},
           NEW turn \in {"input", "output"}
    PROVE  /\ IsHttp([h EXCEPT !.timer = timer, !.turn = turn])
           /\ IsHttp([h EXCEPT !.sin = sin, !.turn = turn])
           /\ IsHttp([h EXCEPT !.sin = sin])
           /\ IsHttp([h EXCEPT !.sin = sin, !.reading = reading])
           /\ IsHttp([h EXCEPT !.sin = sin, !.reading = reading, !.output = TRUE, !.name = name])
BY DEF IsHttp, HttpFields

LEMMA PartLenIsLen ==
    ASSUME NEW file \in Seq(HttpTokens)
    PROVE  PartLen(file) \in Nat
<1> DEFINE percents == {i \in 2 .. Len(file) :
                           file[i] = "%" \/ file[i] \in DOMAIN HttpdInclude \cup DOMAIN HttpdReport}
           T == {Len(file), AppMss} \cup {i - 1 : i \in percents}
<1>1. percents \subseteq 2 .. Len(file) /\ Len(file) \in Nat
  OBVIOUS
<1> HIDE DEF percents
<1>2. T \subseteq Nat /\ T # {}
  BY <1>1, AppAssumption
<1>3. PartLen(file) = Min(T)
  BY DEF PartLen, percents
<1> HIDE DEF T
<1> QED
  BY <1>2, <1>3, MinIsOne

\* The changes of the script.
SameRequest(h, k) ==
    k.output = h.output /\ k.reading = h.reading /\ k.turn = h.turn

LEMMA ScriptIsHttp ==
    ASSUME NEW h, IsHttp(h), NEW file \in Seq(HttpTokens)
    PROVE  IsHttp(Script(h, file)) /\ SameRequest(h, Script(h, file))
<1> DEFINE ended == [h EXCEPT !.pc = "close", !.file = <<>>]
           included == [h EXCEPT !.pc = "include", !.script = Tail(file),
                                 !.file = TextOf(HttpdInclude[file[1]])]
           reported == [h EXCEPT !.pc = "report", !.script = Tail(file),
                                 !.report = HttpdReport[file[1]]]
           part == [h EXCEPT !.pc = "part", !.file = file, !.len = PartLen(file)]
<1>1. CASE file = <<>>
  <2>1. Script(h, file) = ended
    BY <1>1 DEF Script
  <2>2. <<>> \in Seq(HttpTokens)
    OBVIOUS
  <2> QED
    BY <2>1, <2>2 DEF IsHttp, SameRequest, HttpFields, HttpStatements
<1>2. CASE file # <<>> /\ file[1] \in DOMAIN HttpdInclude
  <2>1. Script(h, file) = included
    BY <1>2 DEF Script
  <2>2. Tail(file) \in Seq(HttpTokens) /\ TextOf(HttpdInclude[file[1]]) \in Seq(HttpTokens)
    BY <1>2, IncludedIsTokens
  <2> QED
    BY <2>1, <2>2 DEF IsHttp, SameRequest, HttpFields, HttpStatements
<1>3. CASE file # <<>> /\ file[1] \notin DOMAIN HttpdInclude /\ file[1] \in DOMAIN HttpdReport
  <2>1. Script(h, file) = reported
    BY <1>3 DEF Script
  <2>2. Tail(file) \in Seq(HttpTokens) /\ HttpdReport[file[1]] \in Seq(HttpTokens)
    BY <1>3, FilesAreTokens
  <2> QED
    BY <2>1, <2>2 DEF IsHttp, SameRequest, HttpFields, HttpStatements
<1>4. CASE file # <<>> /\ file[1] \notin DOMAIN HttpdInclude /\ file[1] \notin DOMAIN HttpdReport
  <2>1. Script(h, file) = part
    BY <1>4 DEF Script
  <2> QED
    BY <2>1, PartLenIsLen DEF IsHttp, SameRequest, HttpFields, HttpStatements
<1> QED
  BY <1>1, <1>2, <1>3, <1>4, Zenon

LEMMA TextIsTokens ==
    ASSUME NEW h, IsHttp(h), h.pc \in {"status", "type", "part"}
    PROVE  /\ Text(h) \in Seq(HttpTokens)
           /\ IsHttp(AfterText(h)) /\ SameRequest(h, AfterText(h))
<1>1. \A word \in HttpWords : <<word>> \in Seq(HttpTokens)
  BY DEF HttpTokens
<1>2. Cut(h.file, h.len) \in Seq(HttpTokens) /\ Drop(h.file, h.len) \in Seq(HttpTokens)
  BY CutIsFront, DropIsRest DEF IsHttp
<1>3. Text(h) \in Seq(HttpTokens)
  <2>1. CASE h.pc = "status"
    BY <1>1, <2>1 DEF Text, IsHttp
  <2>2. CASE h.pc = "type"
    <3>1. TypeOf(h.name) \in HttpWords
      BY TypeIsWord
    <3>2. Text(h) = <<TypeOf(h.name)>>
      BY <2>2 DEF Text
    <3> QED
      BY <1>1, <3>1, <3>2
  <2>3. CASE h.pc = "part"
    BY <1>2, <2>3 DEF Text
  <2> QED
    BY <2>1, <2>2, <2>3
<1>4. /\ IsHttp([h EXCEPT !.pc = "type"]) /\ SameRequest(h, [h EXCEPT !.pc = "type"])
      /\ IsHttp([h EXCEPT !.pc = "file"]) /\ SameRequest(h, [h EXCEPT !.pc = "file"])
  BY DEF IsHttp, SameRequest, HttpFields, HttpStatements
<1>5. /\ IsHttp(Script(h, h.file)) /\ SameRequest(h, Script(h, h.file))
      /\ IsHttp(Script(h, Drop(h.file, h.len))) /\ SameRequest(h, Script(h, Drop(h.file, h.len)))
  <2>1. h.file \in Seq(HttpTokens)
    BY DEF IsHttp
  <2> QED
    BY <1>2, <2>1, ScriptIsHttp
<1>6. AfterText(h) \in {[h EXCEPT !.pc = "type"], [h EXCEPT !.pc = "file"], Script(h, h.file),
                        Script(h, Drop(h.file, h.len))}
  BY DEF AfterText
<1> QED
  BY <1>3, <1>4, <1>5, <1>6

LEMMA SentFileIsHttp ==
    ASSUME NEW h, IsHttp(h), h.pc \in {"file", "include"}
    PROVE  IsHttp(SentFile(h)) /\ SameRequest(h, SentFile(h))
<1> DEFINE rest == Drop(h.file, AppMss)
           more == [h EXCEPT !.file = rest]
           ended == [h EXCEPT !.file = <<>>, !.pc = "close"]
<1>1. SentFile(h) \in {more, ended, Script(h, h.script)}
  BY DEF SentFile
<1>2. rest \in Seq(HttpTokens) /\ <<>> \in Seq(HttpTokens)
  <2>1. h.file \in Seq(HttpTokens) /\ AppMss \in Nat
    BY AppAssumption DEF IsHttp
  <2>2. <<>> \in Seq(HttpTokens)
    OBVIOUS
  <2> QED
    BY <2>1, <2>2, DropIsRest
<1> HIDE DEF rest
<1>3. IsHttp(more) /\ SameRequest(h, more) /\ IsHttp(ended) /\ SameRequest(h, ended)
  BY <1>2 DEF IsHttp, SameRequest, HttpFields, HttpStatements
<1>4. IsHttp(Script(h, h.script)) /\ SameRequest(h, Script(h, h.script))
  <2>1. h.script \in Seq(HttpTokens)
    BY DEF IsHttp
  <2> QED
    BY <2>1, ScriptIsHttp
<1> QED
  BY <1>1, <1>3, <1>4

\* What is outstanding is the next part of what the statement sends: of a text the
\* protosocket keeps, or the piece that is made again.
IsOutstanding(h) ==
    \/ h.pc \in {"status", "type", "part"} /\ link.sent = Cut(psock.rest, AppMss)
    \/ h.pc \in {"file", "include"} /\ link.sent = Cut(h.file, AppMss)
    \/ h.pc = "report" /\ h.report # <<>> /\ link.sent = <<h.report[1]>>

HttpInv ==
    /\ IsHttp(http)
    /\ http.output => http.reading = "lines"
    /\ http.turn = "output" => http.output
    /\ SockInv(HttpTokens, HttpInputs) /\ PageIsSentAgain
    /\ Unacked => http.output /\ psock.busy /\ IsOutstanding(http)

LEMMA NewSockIsSock == IsSock(HttpTokens, NewPsock)
<1>1. <<>> \in Seq(HttpTokens)
  OBVIOUS
<1> QED
  BY <1>1 DEF NewPsock, IsSock, SockFields

LEMMA HttpdInitGood == HttpdInit => HttpInv
<1> SUFFICES ASSUME HttpdInit PROVE HttpInv
  OBVIOUS
<1>1. link = Link("none") /\ psock = NewPsock /\ call = NoCall /\ http = NewHttp
  BY DEF HttpdInit, PsockInit, LinkInit
<1>2. link \in Links(HttpTokens) /\ link.len = 0
  <2>1. "none" \in LinkStates
    BY DEF LinkStates
  <2> QED
    BY <1>1, <2>1, LinkIsLink
<1>3. ~Unacked
  BY <1>2 DEF Unacked
<1>4. SockInv(HttpTokens, HttpInputs) /\ PageIsSentAgain
  BY <1>1, <1>2, NewSockIsSock DEF SockInv, OpenIfOutstanding, PageIsSentAgain
<1> QED
  BY <1>1, <1>3, <1>4, NewHttpIsHttp DEF HttpInv

LEMMA HttpdCalledKeeps ==
    ASSUME HttpInv, HttpdEvent
    PROVE  HttpInv'
<1>1. PICK e \in Events(HttpInputs) : HttpdCalled(e)
  BY DEF HttpdEvent, HttpInputs
<1>2. /\ IsHttp(http) /\ SockInv(HttpTokens, HttpInputs) /\ PageIsSentAgain /\ IsSock(HttpTokens, psock)
      /\ http.output => http.reading = "lines"
      /\ Unacked => http.output /\ psock.busy /\ IsOutstanding(http)
  BY DEF HttpInv, SockInv
<1>3. Begin(e) /\ psock' = IF e.kind = "connected" THEN NewPsock ELSE psock
  BY <1>1 DEF HttpdCalled
<1>4. IsSock(HttpTokens, psock')
  BY <1>2, <1>3, NewSockIsSock
<1>5. SockInv(HttpTokens, HttpInputs)' /\ PageIsSentAgain' /\ (Unacked' => Unacked) /\ link' = link
  BY <1>2, <1>3, <1>4, SockBegins DEF StaysSame
<1>6. CASE e.kind = "connected"
  <2>1. http' = NewHttp
    BY <1>1, <1>6 DEF HttpdCalled, Opened, EndsIt
  <2>2. link.state = "none"
    BY <1>3, <1>6 DEF Begin, Happens, CanHappen
  <2>3. ~Unacked
    BY <1>2, <2>2 DEF Unacked, SockInv, OpenIfOutstanding
  <2> QED
    BY <1>5, <2>1, <2>3, NewHttpIsHttp DEF HttpInv
<1>7. CASE e.kind # "connected"
  <2> DEFINE polled == [http EXCEPT !.timer = Timer(http, e), !.turn = "input"]
  <2>1. http' \in {http, polled}
    BY <1>1, <1>7 DEF HttpdCalled
  <2>2. /\ polled.output = http.output /\ polled.reading = http.reading
        /\ polled.turn = "input" /\ polled.pc = http.pc /\ polled.file = http.file
        /\ polled.report = http.report /\ IsHttp(polled)
    BY <1>2, ReadingIsHttp DEF IsHttp, HttpFields
  <2> HIDE DEF polled
  <2>3. /\ http'.output = http.output /\ http'.reading = http.reading
        /\ http'.turn \in {http.turn, "input"} /\ http'.pc = http.pc
        /\ http'.file = http.file /\ http'.report = http.report /\ IsHttp(http')
    BY <1>2, <2>1, <2>2
  <2>4. psock' = psock
    BY <1>3, <1>7
  <2>5. IsOutstanding(http) => IsOutstanding(http)'
    BY <1>5, <2>3, <2>4 DEF IsOutstanding
  <2>6. http.turn = "output" => http.output
    BY DEF HttpInv
  <2> QED
    BY <1>2, <1>5, <2>3, <2>4, <2>5, <2>6 DEF HttpInv
<1> QED
  BY <1>6, <1>7

\* handle_input() runs before anything is sent, or with the page on its way.
LEMMA HttpdInputKeeps ==
    ASSUME HttpInv, HttpdRefuse \/ HttpdMethod \/ HttpdPath \/ HttpdLine \/ HttpdWaits
    PROVE  HttpInv'
<1>1. /\ IsHttp(http) /\ SockInv(HttpTokens, HttpInputs) /\ PageIsSentAgain /\ IsSock(HttpTokens, psock)
      /\ http.output => http.reading = "lines"
      /\ Unacked => http.output /\ psock.busy /\ IsOutstanding(http)
  BY DEF HttpInv, SockInv
<1>2. call # NoCall /\ http.turn = "input"
  BY DEF HttpdRefuse, HttpdMethod, HttpdPath, HttpdLine, HttpdWaits, Handling
<1>3. Otherwise \in {Silent, Close, Abort}
  BY DEF Otherwise
<1>4. ASSUME IsHttp(http'), UNCHANGED <<psock, call, link, wire>>,
             http'.pc = http.pc, http'.file = http.file, http'.report = http.report,
             http.output => http'.output, http'.output => http'.reading = "lines",
             http'.turn = "output" => http'.output
      PROVE  HttpInv'
  <2>1. SockInv(HttpTokens, HttpInputs)' /\ PageIsSentAgain' /\ (Unacked' => Unacked)
    BY <1>1, <1>4 DEF SockInv, OpenIfOutstanding, PageIsSentAgain, Unacked, Happens
  <2>2. IsOutstanding(http) => IsOutstanding(http)'
    BY <1>4 DEF IsOutstanding
  <2> QED
    BY <1>1, <1>4, <2>1, <2>2 DEF HttpInv
<1>5. ASSUME IsHttp(http'), NEW a \in {Silent, Close, Abort}, Returns(psock, a),
             ~http.output, ~http'.output, http'.turn = "input"
      PROVE  HttpInv'
  <2>1. ~Unacked
    BY <1>1, <1>5
  <2>2. SockInv(HttpTokens, HttpInputs)' /\ PageIsSentAgain' /\ ~Unacked'
    BY <1>1, <1>2, <1>5, <2>1, SockIsQuiet DEF StaysSame
  <2> QED
    BY <1>5, <2>2 DEF HttpInv
<1>6. CASE HttpdRefuse
  <2>1. /\ http.reading # "lines" /\ http' = [http EXCEPT !.sin = NewPsock]
        /\ Returns(psock, Close)
    BY <1>6 DEF HttpdRefuse
  <2>2. IsHttp(http')
    BY <1>1, <2>1, ReadingIsHttp
  <2>3. http'.output = http.output /\ http'.turn = http.turn
    BY <1>1, <2>1 DEF IsHttp, HttpFields
  <2> QED
    BY <1>1, <1>2, <1>5, <2>1, <2>2, <2>3
<1>7. CASE HttpdMethod
  <2>1. /\ http.reading = "method" /\ http' = [http EXCEPT !.sin = Sin, !.reading = "path"]
        /\ UNCHANGED <<psock, call, link, wire>>
    BY <1>7 DEF HttpdMethod
  <2>2. IsHttp(http')
    BY <1>1, <2>1, ReadingIsHttp
  <2>3. /\ http'.output = http.output /\ http'.turn = http.turn
        /\ http'.pc = http.pc /\ http'.file = http.file /\ http'.report = http.report
    BY <1>1, <2>1 DEF IsHttp, HttpFields
  <2> QED
    BY <1>1, <1>2, <1>4, <2>1, <2>2, <2>3
<1>8. CASE HttpdPath
  <2>1. /\ http' = [http EXCEPT !.sin = Sin, !.reading = "lines", !.output = TRUE,
                                !.name = NameIn(Sin.buf)]
        /\ UNCHANGED <<psock, call, link, wire>>
    BY <1>8 DEF HttpdPath
  <2>2. IsHttp(http')
    BY <1>1, <2>1, ReadingIsHttp
  <2>3. /\ http'.output /\ http'.reading = "lines"
        /\ http'.pc = http.pc /\ http'.file = http.file /\ http'.report = http.report
    BY <1>1, <2>1 DEF IsHttp, HttpFields
  <2> QED
    BY <1>4, <2>1, <2>2, <2>3
<1>9. CASE HttpdLine
  <2>1. http' = [http EXCEPT !.sin = Sin] /\ UNCHANGED <<psock, call, link, wire>>
    BY <1>9 DEF HttpdLine
  <2>2. IsHttp(http')
    BY <1>1, <2>1, ReadingIsHttp
  <2>3. /\ http'.output = http.output /\ http'.turn = http.turn /\ http'.reading = http.reading
        /\ http'.pc = http.pc /\ http'.file = http.file /\ http'.report = http.report
    BY <1>1, <2>1 DEF IsHttp, HttpFields
  <2> QED
    BY <1>1, <1>2, <1>4, <2>1, <2>2, <2>3
<1>10. CASE HttpdWaits
  <2> DEFINE turn == IF http.output THEN "output" ELSE http.turn
  <2>1. PICK sin : http' = [http EXCEPT !.sin = sin, !.turn = IF http.output THEN "output" ELSE @]
    BY <1>10 DEF HttpdWaits
  <2>2. turn \in {"input", "output"} /\ http' = [http EXCEPT !.sin = sin, !.turn = turn]
    BY <1>2, <2>1
  <2>3. /\ http.output => turn = "output"
        /\ ~http.output => turn = "input"
    BY <1>2
  <2> HIDE DEF turn
  <2>4. IsHttp(http')
    BY <1>1, <2>2, ReadingIsHttp
  <2>5. /\ http'.output = http.output /\ http'.turn = turn /\ http'.reading = http.reading
        /\ http'.pc = http.pc /\ http'.file = http.file /\ http'.report = http.report
    BY <1>1, <2>2 DEF IsHttp, HttpFields
  <2>6. CASE http.output
    BY <1>1, <1>4, <1>10, <2>3, <2>4, <2>5, <2>6 DEF HttpdWaits
  <2>7. CASE ~http.output
    <3>1. Returns(psock, Otherwise)
      BY <1>10, <2>7 DEF HttpdWaits
    <3> QED
      BY <1>3, <1>5, <2>3, <2>4, <2>5, <2>7, <3>1
  <2> QED
    BY <2>6, <2>7
<1> QED
  BY <1>6, <1>7, <1>8, <1>9, <1>10

\* A retransmission is of something that is not acknowledged.
LEMMA RexmitIsUnacked ==
    ASSUME NEW S, NEW inputs, SockInv(S, inputs), call # NoCall, call.kind = "rexmit"
    PROVE  Unacked /\ link.state = "open"
<1>1. call \in Events(inputs) /\ CanHappen(link, call)
  BY DEF SockInv, Happens
<1>2. ~call.acks
  BY <1>1, EventHas
<1> QED
  BY <1>1, <1>2 DEF CanHappen, Unacked

\* A line of a report that is made anew takes the place of the one outstanding.
LEMMA SockChanges ==
    ASSUME NEW S, NEW inputs, SockInv(S, inputs), call # NoCall, call.kind = "rexmit",
           NEW line \in HttpdChanging, Unacked, psock.busy, link.sent = <<line>>,
           NEW other, PsockGenerates(<<"changed">>, other)
    PROVE  /\ SockInv(S, inputs)' /\ PageIsSentAgain' /\ psock'.busy
           /\ link'.sent = <<line>> /\ link'.state = "open" /\ link'.len = 1
<1> DEFINE p == [psock EXCEPT !.state = "DATA_SENT", !.busy = TRUE]
           again == [link EXCEPT !.nrtx = @ + 1]
           a == Answer(<<"changed">>)
<1>1. Returns(p, a)
  BY DEF PsockGenerates
<1>2. IsSock(S, p) /\ p.busy = TRUE
  BY DEF SockInv, IsSock, SockFields
<1> HIDE DEF p
<1>3. /\ link = [f \in LinkFields |-> link[f]] /\ link \in Links(S)
      /\ link.state \in LinkStates /\ link.len \in 0 .. AppMss
      /\ link.sent \in Seq(S) /\ link.nrtx \in Nat
  BY LinkHas DEF SockInv
<1>4. link.state = "open" /\ link.len = 1 /\ Len(link.sent) = link.len
  <2>1. link.state = "open" /\ Len(link.sent) = link.len
    BY RexmitIsUnacked DEF SockInv, OpenIfOutstanding, Unacked
  <2> QED
    BY <2>1
<1>5. a.data = <<"changed">> /\ Cut(<<"changed">>, 1) = <<"changed">>
  BY DEF Answer, Cut
<1> HIDE DEF a
<1>6. link' = again /\ wire' = <<"changed">>
  BY <1>1, <1>4, <1>5 DEF Returns, Answered, After
<1>7. /\ again = [f \in LinkFields |-> again[f]] /\ again.state = link.state
      /\ again.len = link.len /\ again.sent = link.sent /\ again.nrtx = link.nrtx + 1
  BY <1>3 DEF LinkFields
<1> HIDE DEF again
<1>8. again \in Links(S)
  <2>1. again.nrtx \in Nat
    BY <1>3, <1>7
  <2> QED
    BY <1>3, <1>7, <2>1, MakesLink
<1>9. PageIsSentAgain'
  BY <1>6, <1>7 DEF PageIsSentAgain
<1>10. OpenIfOutstanding(link')
  BY <1>4, <1>6, <1>7 DEF OpenIfOutstanding
<1>11. IsSock(S, psock') /\ psock'.busy = p.busy /\ call' = NoCall
  BY <1>1, <1>2, SockForgets DEF Returns
<1> QED
  BY <1>2, <1>4, <1>6, <1>7, <1>8, <1>9, <1>10, <1>11 DEF SockInv, OpenIfOutstanding

\* handle_output(): every statement sends its own text, or makes its own piece, again.
LEMMA HttpdOutputKeeps ==
    ASSUME HttpInv,
           HttpdOpen \/ HttpdText \/ HttpdFile \/ HttpdScript \/ HttpdScriptEnds \/ HttpdClose
    PROVE  HttpInv'
<1>1. /\ IsHttp(http) /\ SockInv(HttpTokens, HttpInputs) /\ PageIsSentAgain /\ IsSock(HttpTokens, psock)
      /\ http.output => http.reading = "lines"
      /\ http.turn = "output" => http.output
      /\ Unacked => http.output /\ psock.busy /\ IsOutstanding(http)
  BY DEF HttpInv, SockInv
<1>2. call # NoCall /\ http.turn = "output" /\ http.output
  BY <1>1 DEF HttpdOpen, HttpdText, HttpdFile, HttpdScript, HttpdScriptEnds, HttpdClose, At, Handling
<1>3. Otherwise \in {Silent, Abort}
  BY DEF Otherwise
<1>4. ASSUME IsHttp(http'), SameRequest(http, http'),
             SockInv(HttpTokens, HttpInputs)' /\ PageIsSentAgain', ~Unacked'
      PROVE  HttpInv'
  BY <1>1, <1>4 DEF HttpInv, SameRequest
<1>5. ASSUME NEW h, IsHttp(h), SameRequest(http, h), ~Unacked, Continues(h)
      PROVE  HttpInv'
  <2>1. http' = h /\ UNCHANGED <<psock, call, got, link, wire>>
    BY <1>5 DEF Continues
  <2>2. GoesOn(psock)
    BY <2>1 DEF GoesOn
  <2>3. SockInv(HttpTokens, HttpInputs)' /\ PageIsSentAgain' /\ ~Unacked'
    BY <1>1, <1>5, <2>2, SockGoesOn DEF StaysSame
  <2> QED
    BY <1>4, <1>5, <2>1, <2>3
<1>6. ASSUME http' = http, SockInv(HttpTokens, HttpInputs)' /\ PageIsSentAgain',
             Unacked' => psock'.busy /\ IsOutstanding(http)'
      PROVE  HttpInv'
  BY <1>1, <1>2, <1>6 DEF HttpInv
<1>7. CASE HttpdOpen
  <2> DEFINE found == Opens(http.name)
             name == IF found THEN http.name ELSE NotFound
             file == TextOf(name)
             status == IF found THEN "200" ELSE "404"
             h == [http EXCEPT !.name = name, !.file = file, !.pc = "status", !.status = status]
  <2>1. Continues(h) /\ http.pc = "open"
    BY <1>7 DEF HttpdOpen, At
  <2>2. Opens(name)
    BY NotFoundOpens
  <2>3. file \in Seq(HttpTokens)
    BY <2>2, OpensFirst
  <2>4. status \in HttpWords
    BY WordsHave
  <2> HIDE DEF file, status, name
  <2>5. IsHttp(h) /\ SameRequest(http, h)
    BY <1>1, <2>3, <2>4 DEF IsHttp, SameRequest, HttpFields, HttpStatements
  <2>6. ~Unacked
    BY <1>1, <2>1 DEF IsOutstanding
  <2> QED
    BY <1>5, <2>1, <2>5, <2>6
<1>8. CASE HttpdText
  <2>1. http.pc \in {"status", "type", "part"}
    BY <1>8 DEF HttpdText
  <2>2. Sending
    BY <1>1, <2>1 DEF Sending, IsOutstanding
  <2>3. /\ Text(http) \in Seq(HttpTokens)
        /\ IsHttp(AfterText(http)) /\ SameRequest(http, AfterText(http))
    BY <1>1, <2>1, TextIsTokens
  <2>4. CASE PsockSend(Text(http)) /\ http' = AfterText(http)
    <3>1. SockInv(HttpTokens, HttpInputs)' /\ PageIsSentAgain' /\ ~Unacked'
      BY <1>1, <2>2, <2>3, <2>4, SockSends DEF StaysSame
    <3> QED
      BY <1>4, <2>3, <2>4, <3>1
  <2>5. CASE PsockSendBlocks(Text(http), Otherwise) /\ UNCHANGED http
    <3>1. SockInv(HttpTokens, HttpInputs)' /\ PageIsSentAgain' /\ Sending'
      BY <1>1, <1>2, <1>3, <2>2, <2>3, <2>5, SockSendsOn DEF StaysSame
    <3>2. Unacked' => psock'.busy /\ IsOutstanding(http)'
      BY <2>1, <2>5, <3>1 DEF Sending, IsOutstanding
    <3> QED
      BY <1>6, <2>5, <3>1, <3>2
  <2> QED
    BY <1>8, <2>4, <2>5 DEF HttpdText
<1>9. CASE HttpdFile
  <2> DEFINE piece == Cut(http.file, AppMss)
  <2>1. http.pc \in {"file", "include"}
    BY <1>9 DEF HttpdFile
  <2>2. piece \in Seq(HttpTokens) /\ Len(piece) <= AppMss
    <3>1. http.file \in Seq(HttpTokens) /\ AppMss \in Nat
      BY <1>1, AppAssumption DEF IsHttp
    <3>2. /\ piece \in Seq(HttpTokens) /\ Len(http.file) \in Nat
          /\ Len(piece) = IF Len(http.file) <= AppMss THEN Len(http.file) ELSE AppMss
      BY <3>1, CutIsFront
    <3> HIDE DEF piece
    <3> QED
      BY <3>1, <3>2
  <2>3. Unacked => psock.busy /\ link.sent = piece
    BY <1>1, <2>1 DEF IsOutstanding
  <2>4. CASE PsockGenerated /\ http' = SentFile(http)
    <3>1. SockInv(HttpTokens, HttpInputs)' /\ PageIsSentAgain' /\ ~Unacked'
      BY <1>1, <2>4, SockGenerated DEF StaysSame
    <3>2. IsHttp(http') /\ SameRequest(http, http')
      BY <1>1, <2>1, <2>4, SentFileIsHttp
    <3> QED
      BY <1>4, <3>1, <3>2
  <2>5. CASE PsockGenerates(piece, Otherwise) /\ UNCHANGED http
    <3> HIDE DEF piece
    <3>1. SockInv(HttpTokens, HttpInputs)' /\ PageIsSentAgain' /\ (Unacked' => psock'.busy /\ link'.sent = piece)
      BY <1>1, <1>2, <1>3, <2>2, <2>3, <2>5, SockGenerates DEF StaysSame
    <3>2. Unacked' => psock'.busy /\ IsOutstanding(http)'
      BY <2>1, <2>5, <3>1 DEF piece, IsOutstanding
    <3> QED
      BY <1>6, <2>5, <3>1, <3>2
  <2> QED
    BY <1>9, <2>4, <2>5 DEF HttpdFile
<1>10. CASE HttpdScript
  <2> DEFINE piece == <<http.report[1]>>
  <2>1. http.pc = "report" /\ http.report # <<>>
    BY <1>10 DEF HttpdScript, At
  <2>2. piece \in Seq(HttpTokens) /\ Len(piece) <= AppMss
    <3> DEFINE line == http.report[1]
    <3>1. line \in HttpTokens
      BY <1>1, <2>1 DEF IsHttp
    <3> HIDE DEF line
    <3>2. <<line>> \in Seq(HttpTokens) /\ Len(<<line>>) = 1
      BY <3>1
    <3>3. piece = <<line>> /\ 1 <= AppMss
      BY AppAssumption DEF line
    <3> HIDE DEF piece
    <3> QED
      BY <3>2, <3>3
  <2>3. Unacked => psock.busy /\ link.sent = piece
    BY <1>1, <2>1 DEF IsOutstanding
  <2>4. CASE PsockGenerated /\ http' = [http EXCEPT !.report = Tail(@)]
    <3>1. SockInv(HttpTokens, HttpInputs)' /\ PageIsSentAgain' /\ ~Unacked'
      BY <1>1, <2>4, SockGenerated DEF StaysSame
    <3>2. Tail(http.report) \in Seq(HttpTokens)
      BY <1>1, <2>1 DEF IsHttp
    <3>3. IsHttp(http') /\ SameRequest(http, http')
      BY <1>1, <2>4, <3>2 DEF IsHttp, SameRequest, HttpFields
    <3> QED
      BY <1>4, <3>1, <3>3
  <2> DEFINE line == http.report[1]
             changed == line \in HttpdChanging /\ call.kind = "rexmit"
  <2>5. CASE PsockGenerates(<<Generated(line)>>, Otherwise) /\ UNCHANGED http /\ changed
    <3>1. PsockGenerates(<<"changed">>, Otherwise)
      BY <2>5 DEF Generated
    <3>2. Unacked
      BY <1>1, <1>2, <2>5, RexmitIsUnacked
    <3>3. /\ SockInv(HttpTokens, HttpInputs)' /\ PageIsSentAgain' /\ psock'.busy
          /\ link'.sent = <<line>>
      BY <1>1, <1>2, <2>3, <2>5, <3>1, <3>2, SockChanges
    <3>4. Unacked' => psock'.busy /\ IsOutstanding(http)'
      BY <2>1, <2>5, <3>3 DEF IsOutstanding
    <3> QED
      BY <1>6, <2>5, <3>3, <3>4
  <2>6. CASE PsockGenerates(<<Generated(line)>>, Otherwise) /\ UNCHANGED http /\ ~changed
    <3>1. PsockGenerates(piece, Otherwise)
      BY <2>6 DEF Generated
    <3> HIDE DEF piece
    <3>2. SockInv(HttpTokens, HttpInputs)' /\ PageIsSentAgain' /\ (Unacked' => psock'.busy /\ link'.sent = piece)
      BY <1>1, <1>2, <1>3, <2>2, <2>3, <3>1, SockGenerates DEF StaysSame
    <3>3. Unacked' => psock'.busy /\ IsOutstanding(http)'
      BY <2>1, <2>6, <3>2 DEF piece, IsOutstanding
    <3> QED
      BY <1>6, <2>6, <3>2, <3>3
  <2> QED
    BY <1>10, <2>4, <2>5, <2>6 DEF HttpdScript
<1>11. CASE HttpdScriptEnds
  <2>1. http.pc = "report" /\ http.report = <<>> /\ Continues(Script(http, http.script))
    BY <1>11 DEF HttpdScriptEnds, At
  <2>2. ~Unacked
    BY <1>1, <2>1 DEF IsOutstanding
  <2>3. http.script \in Seq(HttpTokens)
    BY <1>1 DEF IsHttp
  <2>4. IsHttp(Script(http, http.script)) /\ SameRequest(http, Script(http, http.script))
    BY <1>1, <2>3, ScriptIsHttp
  <2> QED
    BY <1>5, <2>1, <2>2, <2>4
<1>12. CASE HttpdClose
  <2>1. http.pc = "close" /\ http' = [http EXCEPT !.pc = "open"] /\ Returns(psock, Close)
    BY <1>12 DEF HttpdClose, At
  <2>2. ~Unacked
    BY <1>1, <2>1 DEF IsOutstanding
  <2>3. SockInv(HttpTokens, HttpInputs)' /\ PageIsSentAgain' /\ ~Unacked'
    BY <1>1, <1>2, <2>1, <2>2, SockIsQuiet DEF StaysSame
  <2>4. IsHttp(http') /\ SameRequest(http, http')
    BY <1>1, <2>1 DEF IsHttp, SameRequest, HttpFields, HttpStatements
  <2> QED
    BY <1>4, <2>3, <2>4
<1> QED
  BY <1>7, <1>8, <1>9, <1>10, <1>11, <1>12

LEMMA HttpdStepGood == HttpInv /\ [HttpdNext]_httpdVars => HttpInv'
<1> SUFFICES ASSUME HttpInv, [HttpdNext]_httpdVars PROVE HttpInv'
  OBVIOUS
<1>1. CASE HttpdEvent
  BY <1>1, HttpdCalledKeeps
<1>2. CASE HttpdRefuse \/ HttpdMethod \/ HttpdPath \/ HttpdLine \/ HttpdWaits
  BY <1>2, HttpdInputKeeps
<1>3. CASE HttpdOpen \/ HttpdText \/ HttpdFile \/ HttpdScript \/ HttpdScriptEnds \/ HttpdClose
  BY <1>3, HttpdOutputKeeps
<1>4. CASE HttpdOver
  <2>1. call # NoCall /\ EndsIt(call) /\ Returns(psock, Silent) /\ http' = http
    BY <1>4 DEF HttpdOver
  <2>2. SockInv(HttpTokens, HttpInputs) /\ PageIsSentAgain /\ IsSock(HttpTokens, psock)
    BY DEF HttpInv, SockInv
  <2>3. SockInv(HttpTokens, HttpInputs)' /\ PageIsSentAgain' /\ ~Unacked'
    BY <2>1, <2>2, SockIsQuiet DEF StaysSame
  <2>4. IsHttp(http') /\ (http'.output => http'.reading = "lines")
        /\ (http'.turn = "output" => http'.output)
    BY <2>1 DEF HttpInv
  <2> QED
    BY <2>3, <2>4 DEF HttpInv
<1>5. CASE UNCHANGED httpdVars
  <2>1. UNCHANGED <<http, link, wire, psock, call>>
    BY <1>5 DEF httpdVars
  <2>2. PageIsSentAgain'
    BY <2>1, SameStays DEF StaysSame, HttpInv
  <2> QED
    BY <2>1, <2>2 DEF HttpInv, SockInv, OpenIfOutstanding, Unacked, Happens, IsOutstanding
<1> QED
  BY <1>1, <1>2, <1>3, <1>4, <1>5 DEF HttpdNext, HttpdRuns

\* The web server sends the same again as well, from its files, from what the
\* protosocket keeps or by calling the function of a script once more, whatever else
\* the client sends meanwhile: only a line of a report that is made of counters is
\* made anew, and then it is that line again and nothing else.
THEOREM HttpdRepeats == HttpdSpec => []PageIsSentAgain
<1>1. HttpInv => PageIsSentAgain
  BY DEF HttpInv
<1>2. HttpInv /\ [HttpdNext]_httpdVars => HttpInv'
  BY HttpdStepGood
<1> QED
  BY <1>1, <1>2, HttpdInitGood, PTL DEF HttpdSpec

-----------------------------------------------------------------------------
(* All applications.                                                       *)

AppsInv ==
    /\ DhcpInv /\ AppsSendTheSame
    /\ app = "telnetd" => TelInv
    /\ app = "smtp" => SmtpInv
    /\ app = "httpd" => HttpInv

LEMMA AppsInitGood == AppsInit => AppsInv
<1> SUFFICES ASSUME AppsInit PROVE AppsInv
  OBVIOUS
<1>1. DhcpInv /\ TelInv /\ SmtpInv /\ HttpInv
  BY DhcpInitGood, TelInitGood, SmtpInitGood, HttpdInitGood DEF AppsInit
<1>2. RexmitIsSame /\ PageIsSentAgain
  BY <1>1 DEF TelInv, HttpInv
<1> QED
  BY <1>1, <1>2 DEF AppsInv, AppsSendTheSame

LEMMA DhcpStays == DhcpInv /\ UNCHANGED dhcpOnly => DhcpInv'
BY DEF DhcpInv, DhcpcTypeOK, UnboundIsUnconfigured, ConfiguredIsGranted, dhcpOnly

LEMMA AppsStepGood == AppsInv /\ [AppsNext]_appsVars => AppsInv'
<1> SUFFICES ASSUME AppsInv, [AppsNext]_appsVars PROVE AppsInv'
  OBVIOUS
<1>1. DhcpInv /\ AppsSendTheSame
  BY DEF AppsInv
<1>0. UNCHANGED <<app, link, wire>> => AppsSendTheSame'
  BY <1>1 DEF AppsSendTheSame, RexmitIsSame, PageIsSentAgain
<1>2. CASE app = "dhcpc" /\ DhcpcNext /\ UNCHANGED <<app, link, wire>>
  <2>1. DhcpInv'
    BY <1>1, <1>2, DhcpStepGood
  <2> QED
    BY <1>0, <1>2, <2>1 DEF AppsInv
<1>3. CASE app = "telnetd" /\ TelnetdNext /\ UNCHANGED <<app, dhcpOnly>>
  <2>1. TelInv'
    BY <1>3, TelStepGood DEF AppsInv
  <2> QED
    BY <1>1, <1>3, <2>1, DhcpStays DEF AppsInv, AppsSendTheSame, TelInv
<1>4. CASE app = "smtp" /\ SmtpNext /\ UNCHANGED <<app, dhcpOnly>>
  <2>1. SmtpInv'
    BY <1>4, SmtpStepGood DEF AppsInv
  <2> QED
    BY <1>1, <1>4, <2>1, DhcpStays DEF AppsInv, AppsSendTheSame, SmtpInv
<1>5. CASE app = "httpd" /\ HttpdNext /\ UNCHANGED <<app, dhcpOnly>>
  <2>1. HttpInv'
    BY <1>5, HttpdStepGood DEF AppsInv
  <2> QED
    BY <1>1, <1>5, <2>1, DhcpStays DEF AppsInv, AppsSendTheSame, HttpInv
<1>6. CASE app = "webclient" /\ UNCHANGED <<app, link, wire, dhcpOnly>>
  BY <1>0, <1>1, <1>6, DhcpStays DEF AppsInv
<1>7. CASE UNCHANGED appsVars
  <2>1. UNCHANGED <<app, link, wire, dhcpOnly>> /\ UNCHANGED <<telVars, smtpVars, httpdVars>>
    BY <1>7 DEF appsVars, sockOnly, telOnly, smtpOnly, httpdOnly, telVars, smtpVars, httpdVars
  <2>2. (TelInv => TelInv') /\ (SmtpInv => SmtpInv') /\ (HttpInv => HttpInv')
    BY <2>1, TelStepGood, SmtpStepGood, HttpdStepGood
  <2> QED
    BY <1>0, <1>1, <2>1, <2>2, DhcpStays DEF AppsInv
<1> QED
  BY <1>2, <1>3, <1>4, <1>5, <1>6, <1>7 DEF AppsNext

\* The stack keeps no copy of what it sends, and relies on every application to make
\* the same data again: they do, whatever is lost and whenever they are asked, except
\* for the lines of the web server's reports that are made of counters.
THEOREM AppsRepeat == AppsSpec => []AppsSendTheSame
<1>1. AppsInv => AppsSendTheSame
  BY DEF AppsInv
<1>2. AppsInv /\ [AppsNext]_appsVars => AppsInv'
  BY AppsStepGood
<1> QED
  BY <1>1, <1>2, AppsInitGood, PTL DEF AppsSpec

-----------------------------------------------------------------------------
(* The web client: the program gets the text of a page, and a server the   *)
(* request for it.                                                         *)

\* The tokens of requests and replies; the words of a request are named for the
\* provers, which do not know them for strings.
WebTokens == STRING \cup {"get", "host", "crnl"}

WebPages == DOMAIN WebReplies \cup {WebMoved[field] : field \in DOMAIN WebMoved}

WebStates == {"STATUSLINE", "HEADERS", "DATA", "CLOSE"}

Webs == [state : WebStates, flag : {"NONE", "OK", "MOVED"}, timer : 0 .. WebWrap - 1,
         page : WebPages \cup {<<"", "">>}, left : 0 .. 5, ptr : 0 .. 5, line : Seq(WebTokens)]

WebConns == [used : BOOLEAN, link : Links(WebTokens), wire : Seq(WebTokens),
             page : WebPages \cup {<<"", "">>},
             got : Seq(WebTokens), rest : Seq(WebTokens), replied : BOOLEAN]

WebTolds == [data : Seq(WebTokens), page : WebPages \cup {<<"", "">>},
             asked : BOOLEAN, mixed : BOOLEAN]

\* Client w, connections cs and history t have their types.
AreTyped(w, cs, t) ==
    /\ w \in Webs /\ Len(w.line) <= WebLine
    /\ cs \in [WebSlots -> WebConns]
    /\ t \in WebTolds
    /\ \A c \in WebSlots : ~cs[c].used => cs[c] = NoConn
    /\ (\E c \in WebSlots : cs[c].used) => t.asked
    /\ t.asked => w.page \in WebPages /\ w.ptr + w.left = 5

\* The line that is being read, of which k tokens of the reply are read.
LineIs(reply, k, line) ==
    LET n == Len(line)
    IN  n < WebLine =>
            /\ n <= k /\ (n = k \/ reply[k - n] = "nl")
            /\ n > 0 => Head(line) = reply[k - n + 1]
            /\ \A j \in (k - n) + 1 .. k : reply[j] # "nl"

\* Where the parser is and what the program was told when k tokens of the reply
\* are read.
Reads(reply, k, w, data) ==
    CASE w.state = "STATUSLINE" -> data = <<>>
      [] w.state = "HEADERS" -> data = <<>> /\ LineIs(reply, k, w.line)
      [] w.state = "DATA" ->
             \E n \in 1 .. k : EndsHeaders(reply, n)
                               /\ data = IF w.flag = "MOVED" THEN <<>> ELSE SubSeq(reply, n + 1, k)

\* A connection that is not opened yet will send the whole request.
OpeningIs(conn, w) ==
    /\ w.ptr = 0 /\ w.page = conn.page /\ w.line = <<>>
    /\ conn.got = <<>> /\ ~conn.replied

\* On a connection that is open the request is acknowledged up to ptr, and the
\* next chunk of it is outstanding.
OpenIs(conn, w, data) ==
    LET request == Request(conn.page)
        reply == WebReplies[conn.page]
    IN  /\ conn.got = SubSeq(request, 1, w.ptr)
        /\ conn.link.len = ChunkLen(w)
        /\ conn.link.sent = SubSeq(request, w.ptr + 1, w.ptr + ChunkLen(w))
        /\ w.left > 0 => w.page = conn.page /\ ~conn.replied
        /\ w.state # "CLOSE" =>
               \E k \in 0 .. Len(reply) : /\ ReplyLeft(conn) = SubSeq(reply, k + 1, Len(reply))
                                          /\ Reads(reply, k, w, data)

TextIs(data, page) ==
    data = <<>> \/ (page \in DOMAIN WebReplies /\ \E text \in Body(page) : IsPrefix(data, text))

\* A connection is current until the server has closed it.
IsCurrent(conn) == conn.used /\ conn.link.state # "last ack"

\* How the current connection and the client are.
Stands(conn, w, t) ==
    /\ conn.page \in DOMAIN WebReplies
    /\ conn.link.state = "none" => OpeningIs(conn, w)
    /\ conn.link.state # "none" =>
           /\ conn.link.state = "open" /\ w.timer < WebTimeout
           /\ t.page = conn.page /\ OpenIs(conn, w, t.data)

\* At most one connection is current, and the client is as that one says.
AreRight(w, cs, t) ==
    /\ \A c, d \in WebSlots : IsCurrent(cs[c]) /\ IsCurrent(cs[d]) => c = d
    /\ w.timer <= WebTimeout
    /\ TextIs(t.data, t.page)
    /\ \A c \in WebSlots : IsCurrent(cs[c]) => Stands(cs[c], w, t)

WebGood(w, cs, t) == AreTyped(w, cs, t) /\ (~t.mixed => AreRight(w, cs, t))

WebInv == WebGood(web, conns, told)

LEMMA FiveAre ==
    ASSUME NEW S, NEW a \in S, NEW b \in S, NEW c \in S, NEW d \in S, NEW e \in S
    PROVE  LET s == <<a, b, c, d, e>>
           IN  /\ s \in Seq(S) /\ Len(s) = 5
               /\ s[1] = a /\ s[2] = b /\ s[3] = c /\ s[4] = d /\ s[5] = e
OBVIOUS

LEMMA RequestHas ==
    ASSUME NEW page, IsPage(page)
    PROVE  /\ Request(page) \in Seq(WebTokens) /\ Len(Request(page)) = 5
           /\ \A n \in 1 .. 5 : Request(page)[n] = "crnl" <=> n = 5
<1> DEFINE r == Request(page)
           f == page[2]
           h == page[1]
<1>1. f \in STRING /\ h \in STRING /\ f # "crnl" /\ h # "crnl"
  BY DEF IsPage
<1>2. r = <<"get", f, "host", h, "crnl">>
  BY DEF Request
<1> HIDE DEF r, f, h
<1>3. /\ f \in WebTokens /\ h \in WebTokens
      /\ "get" \in WebTokens /\ "host" \in WebTokens /\ "crnl" \in WebTokens
  BY <1>1 DEF WebTokens
<1>4. /\ r \in Seq(WebTokens) /\ Len(r) = 5
      /\ r[1] = "get" /\ r[2] = f /\ r[3] = "host" /\ r[4] = h /\ r[5] = "crnl"
  BY <1>1, <1>2, <1>3, FiveAre
<1>5. ASSUME NEW n \in 1 .. 5
      PROVE  r[n] = "crnl" <=> n = 5
  <2>1. n = 1 \/ n = 2 \/ n = 3 \/ n = 4 \/ n = 5
    OBVIOUS
  <2> QED
    BY <1>1, <1>4, <2>1
<1> QED
  BY <1>4, <1>5, Zenon DEF r

\* A part of a sequence.
LEMMA PartHas ==
    ASSUME NEW S, NEW s \in Seq(S), NEW a \in Nat, NEW b \in Nat, a <= b, b <= Len(s)
    PROVE  /\ SubSeq(s, a + 1, b) \in Seq(S) /\ Len(SubSeq(s, a + 1, b)) = b - a
           /\ \A i \in 1 .. b - a : SubSeq(s, a + 1, b)[i] = s[a + i]
<1>1. \A i \in a + 1 .. b : s[i] \in S
  BY ElementOfSeq
<1>2. a + 1 \in Int /\ b \in Int /\ (b - (a + 1)) + 1 = b - a
  OBVIOUS
<1>3. /\ SubSeq(s, a + 1, b) \in Seq(S)
      /\ Len(SubSeq(s, a + 1, b)) = IF a + 1 <= b THEN (b - (a + 1)) + 1 ELSE 0
      /\ \A i \in 1 .. (b - (a + 1)) + 1 : SubSeq(s, a + 1, b)[i] = s[((a + 1) + i) - 1]
  BY <1>1, <1>2, SubSeqProperties
<1> DEFINE t == SubSeq(s, a + 1, b)
<1> HIDE DEF t
<1>4. ASSUME NEW i \in 1 .. b - a
      PROVE  t[i] = s[a + i]
  <2>1. i \in 1 .. (b - (a + 1)) + 1 /\ ((a + 1) + i) - 1 = a + i
    BY <1>2
  <2> QED
    BY <1>3, <2>1 DEF t
<1>5. Len(t) = b - a
  BY <1>2, <1>3 DEF t
<1> QED
  BY <1>3, <1>4, <1>5 DEF t

\* Two parts that lie one behind the other.
LEMMA PartsAdd ==
    ASSUME NEW S, NEW s \in Seq(S), NEW a \in Nat, NEW b \in Nat, NEW c \in Nat,
           a <= b, b <= c, c <= Len(s)
    PROVE  SubSeq(s, a + 1, b) \o SubSeq(s, b + 1, c) = SubSeq(s, a + 1, c)
<1>1. a + 1 \in 1 .. Len(s) + 1 /\ b \in (a + 1) - 1 .. Len(s) /\ c \in b .. Len(s)
  OBVIOUS
<1> QED
  BY <1>1, ConcatAdjacentSubSeq

LEMMA FrontHas ==
    ASSUME NEW S, NEW s \in Seq(S), NEW n \in Nat, n <= Len(s)
    PROVE  /\ SubSeq(s, 1, n) \in Seq(S) /\ Len(SubSeq(s, 1, n)) = n
           /\ \A i \in 1 .. n : SubSeq(s, 1, n)[i] = s[i]
<1>1. n \in 0 .. Len(s)
  OBVIOUS
<1> QED
  BY <1>1, RestHas

LEMMA FrontIsPrefix ==
    ASSUME NEW S, NEW s \in Seq(S), NEW n \in Nat, n <= Len(s)
    PROVE  IsPrefix(SubSeq(s, 1, n), s)
<1> DEFINE t == SubSeq(s, 1, n)
<1>2. t \in Seq(S) /\ Len(t) = n
  BY FrontHas
<1>3. SubSeq(t, 1, Len(t)) = t
  BY <1>2, SubSeqFull
<1> QED
  BY <1>2, <1>3 DEF IsPrefix

\* The end of a request tells that all of it is there.
LEMMA EndIsAll ==
    ASSUME NEW page, IsPage(page), NEW n \in 0 .. 5,
           SubSeq(Request(page), 1, n) # <<>>, Last(SubSeq(Request(page), 1, n)) = "crnl"
    PROVE  n = 5
<1> DEFINE r == Request(page)
           t == SubSeq(r, 1, n)
<1>1. r \in Seq(WebTokens) /\ Len(r) = 5 /\ \A k \in 1 .. 5 : r[k] = "crnl" <=> k = 5
  BY RequestHas
<1> HIDE DEF r
<1>2. n \in Nat /\ n <= Len(r)
  BY <1>1
<1>4. t \in Seq(WebTokens) /\ Len(t) = n /\ \A i \in 1 .. n : t[i] = r[i]
  BY <1>1, <1>2, FrontHas
<1>5. t # <<>> /\ t[Len(t)] = "crnl"
  BY DEF r, Last
<1> HIDE DEF t
<1>6. n \in 1 .. 5
  BY <1>4, <1>5, EmptySeq
<1> QED
  BY <1>1, <1>4, <1>5, <1>6

-----------------------------------------------------------------------------
\* The parser, while it reads what came in one segment for client w: it leaves
\* the request alone.
Parsers == [web : Webs, data : Seq(WebTokens), abort : BOOLEAN]

Parsing(w) ==
    {p \in Parsers : /\ p.web.ptr = w.ptr /\ p.web.left = w.left /\ p.web.timer = w.timer
                     /\ Len(p.web.line) <= WebLine
                     /\ w.page \in WebPages => p.web.page \in WebPages}

WebParsed == INSTANCE FoldTheorems WITH Op <- LAMBDA c, p, t : ParseToken(p, t)

LEMMA ParseFolds ==
    ASSUME NEW w, NEW data
    PROVE  Parse(w, data) = WebParsed!Folded(0, [web |-> w, data |-> <<>>, abort |-> FALSE], data)
BY DEF Parse, WebParsed!Folded, WebParsed!FoldLeft, FoldLeft, WebParsed!MapThenFoldSet,
       MapThenFoldSet, WebParsed!Max, Max

LEMMA LineGrows ==
    ASSUME NEW w \in Webs, NEW p \in Parsing(w), NEW t \in WebTokens, ~LineFull(p)
    PROVE  LET q == [p EXCEPT !.web.line = Append(@, t)]
           IN  /\ q \in Parsing(w) /\ q.web.line = Append(p.web.line, t)
               /\ q.web.state = p.web.state /\ q.web.flag = p.web.flag
               /\ q.data = p.data /\ q.abort = p.abort
<1> DEFINE l == Append(p.web.line, t)
           q == [p EXCEPT !.web.line = l]
<1>0. p \in Parsers /\ p.web \in Webs /\ p.web.line \in Seq(WebTokens)
  BY DEF Parsing, Parsers, Webs
<1>1. p \in Parsers /\ p.web \in Webs /\ p.web.line \in Seq(WebTokens) /\ Len(p.web.line) < WebLine
  BY <1>0, LenProperties, WebAssumption DEF LineFull
<1>2. l \in Seq(WebTokens) /\ Len(l) <= WebLine
  BY <1>1, AppendProperties, WebAssumption
<1> HIDE DEF l
<1>3. q.web = [p.web EXCEPT !.line = l] /\ q.data = p.data /\ q.abort = p.abort /\ q \in Parsers
  BY <1>1, <1>2 DEF Parsers, Webs
<1> HIDE DEF q
<1>4. /\ q.web.line = l /\ q.web.state = p.web.state /\ q.web.flag = p.web.flag
      /\ q.web.ptr = p.web.ptr /\ q.web.left = p.web.left /\ q.web.timer = p.web.timer
      /\ q.web.page = p.web.page
  BY <1>1, <1>3 DEF Webs
<1>5. q \in Parsing(w)
  <2>1. /\ p.web.ptr = w.ptr /\ p.web.left = w.left /\ p.web.timer = w.timer
        /\ w.page \in WebPages => p.web.page \in WebPages
    BY DEF Parsing
  <2> QED
    BY <1>2, <1>3, <1>4, <2>1 DEF Parsing
<1> QED
  BY <1>3, <1>4, <1>5 DEF q, l

\* What the parser does with the token that ends a line, or with a token of the text.
LEMMA ParserHas ==
    ASSUME NEW w, NEW p \in Parsing(w)
    PROVE  /\ p \in Parsers /\ p.web \in Webs /\ p.data \in Seq(WebTokens)
           /\ WebLine \in Nat /\ <<>> \in Seq(WebTokens) /\ Len(<<>>) = 0 /\ 0 <= WebLine
           /\ p.web.ptr = w.ptr /\ p.web.left = w.left /\ p.web.timer = w.timer
           /\ Len(p.web.line) <= WebLine /\ (w.page \in WebPages => p.web.page \in WebPages)
<1>1. WebLine \in Nat
  BY WebAssumption
<1> QED
  BY <1>1 DEF Parsing, Parsers

LEMMA ParserGoesTo ==
    ASSUME NEW w \in Webs, NEW p \in Parsing(w),
           NEW state \in WebStates,
           NEW q, q = [p EXCEPT !.web.state = state]
    PROVE  /\ q \in Parsing(w) /\ q.web.state = state /\ q.web.flag = p.web.flag
           /\ q.data = p.data /\ q.abort = p.abort
BY ParserHas DEF Parsing, Parsers, Webs

LEMMA ParserSkips ==
    ASSUME NEW w \in Webs, NEW p \in Parsing(w),
           NEW q, q = [p EXCEPT !.web.line = <<>>]
    PROVE  /\ q \in Parsing(w) /\ q.web.line = <<>> /\ q.web.state = p.web.state
           /\ q.data = p.data /\ q.abort = p.abort
BY ParserHas DEF Parsing, Parsers, Webs

LEMMA ParserAborts ==
    ASSUME NEW w \in Webs, NEW p \in Parsing(w),
           NEW q, q = [p EXCEPT !.abort = TRUE]
    PROVE  /\ q \in Parsing(w) /\ q.web = p.web /\ q.data = p.data /\ q.abort
BY ParserHas DEF Parsing, Parsers, Webs

LEMMA FlagIs == \A status : Flag(status) \in {"NONE", "OK", "MOVED"}
BY DEF Flag

LEMMA MovedIsPage == \A field \in DOMAIN WebMoved : WebMoved[field] \in WebPages
BY DEF WebPages

\* The parser has read k tokens of the reply, of which the program had got some
\* before this segment.
ReadsTo(reply, k, p, before) ==
    /\ p.web.state # "CLOSE"
    /\ p.abort => before \o p.data = <<>>
    /\ ~p.abort => Reads(reply, k, p.web, before \o p.data)

LEMMA ReadsIs ==
    ASSUME NEW reply, NEW k, NEW w, NEW data
    PROVE  /\ w.state = "STATUSLINE" => (Reads(reply, k, w, data) <=> data = <<>>)
           /\ w.state = "HEADERS" =>
                  (Reads(reply, k, w, data) <=> data = <<>> /\ LineIs(reply, k, w.line))
           /\ w.state = "DATA" =>
                  (Reads(reply, k, w, data) <=>
                      \E n \in 1 .. k : /\ EndsHeaders(reply, n)
                                        /\ data = IF w.flag = "MOVED" THEN <<>>
                                                  ELSE SubSeq(reply, n + 1, k))
BY DEF Reads

\* A line begins after the end of a line.
LEMMA LineBegins ==
    ASSUME NEW reply \in Seq(WebTokens), NEW k \in 0 .. Len(reply) - 1, reply[k + 1] = "nl"
    PROVE  LineIs(reply, k + 1, <<>>)
<1>1. Len(<<>>) = 0 /\ k \in Nat /\ (k + 1) - 0 = k + 1
  OBVIOUS
<1>2. \A j \in (k + 1) + 1 .. k + 1 : reply[j] # "nl"
  OBVIOUS
<1> QED
  BY <1>1, <1>2 DEF LineIs

\* A line goes on.
LEMMA LineGoesOn ==
    ASSUME NEW reply \in Seq(WebTokens), NEW k \in 0 .. Len(reply) - 1, reply[k + 1] # "nl",
           NEW line \in Seq(WebTokens), Len(line) < WebLine, LineIs(reply, k, line)
    PROVE  LineIs(reply, k + 1, Append(line, reply[k + 1]))
<1> DEFINE n == Len(line)
           t == reply[k + 1]
           l == Append(line, t)
<1>1. k \in Nat /\ n \in Nat /\ t \in WebTokens /\ WebLine \in Nat
  <2>1. k + 1 \in 1 .. Len(reply) /\ Len(reply) \in Nat
    BY LenProperties
  <2> QED
    BY <2>1, ElementOfSeq, LenProperties, WebAssumption
<1>2. /\ n <= k /\ (n = k \/ reply[k - n] = "nl")
      /\ n > 0 => Head(line) = reply[k - n + 1]
      /\ \A j \in (k - n) + 1 .. k : reply[j] # "nl"
  BY DEF LineIs
<1>3. Len(l) = n + 1 /\ Head(l) = IF line = <<>> THEN t ELSE Head(line)
  BY <1>1, AppendProperties, HeadTailAppend
<1>4. (k + 1) - (n + 1) = k - n /\ n + 1 <= k + 1
  BY <1>1, <1>2
<1>5. \A j \in (k - n) + 1 .. k + 1 : reply[j] # "nl"
  <2> SUFFICES ASSUME NEW j \in (k - n) + 1 .. k + 1, j # k + 1
               PROVE  reply[j] # "nl"
    OBVIOUS
  <2>1. j \in (k - n) + 1 .. k
    BY <1>1
  <2> QED
    BY <2>1, <1>2
<1>6. Head(l) = reply[k - n + 1]
  <2>1. CASE n = 0
    <3>1. line = <<>> /\ k - n + 1 = k + 1
      BY <2>1, <1>1, EmptySeq
    <3> QED
      BY <3>1, <1>3
  <2>2. CASE n # 0
    <3>1. n > 0 /\ line # <<>>
      BY <2>2, <1>1, EmptySeq
    <3> QED
      BY <3>1, <1>2, <1>3
  <2> QED
    BY <2>1, <2>2
<1> HIDE DEF l, t, n
<1>7. n + 1 = k + 1 \/ reply[(k + 1) - (n + 1)] = "nl"
  BY <1>1, <1>2, <1>4
<1>8. LineIs(reply, k + 1, l)
  BY <1>1, <1>3, <1>4, <1>5, <1>6, <1>7 DEF LineIs
<1> QED
  BY <1>8 DEF l, t

\* The line that ends now begins with a CR.
LEMMA HeadersEnd ==
    ASSUME NEW reply \in Seq(WebTokens), NEW k \in 0 .. Len(reply) - 1, reply[k + 1] = "nl",
           NEW line \in Seq(WebTokens), Len(line) < WebLine, LineIs(reply, k, line),
           line # <<>>, Head(line) = "cr"
    PROVE  EndsHeaders(reply, k + 1)
<1> DEFINE n == Len(line)
           i == k - n + 1
<1>1. k \in Nat /\ n \in Nat /\ n > 0
  BY LenProperties, EmptySeq
<1>2. /\ n <= k /\ (n = k \/ reply[k - n] = "nl") /\ "cr" = reply[i]
      /\ \A j \in i .. k : reply[j] # "nl"
  BY <1>1 DEF LineIs
<1>3. i \in 1 .. (k + 1) - 1 /\ (k + 1) - 1 = k /\ i - 1 = k - n /\ (n = k => i = 1)
  BY <1>1, <1>2
<1> HIDE DEF i, n
<1> QED
  BY <1>2, <1>3 DEF EndsHeaders

\* One more token keeps the parser in step with the reply, and the request as it is.
ParsesOn(w, p, q, t) ==
    /\ q \in Parsing(w)
    /\ \A reply \in Seq(WebTokens), before \in Seq(WebTokens) :
         \A k \in 0 .. Len(reply) - 1 :
           reply[k + 1] = t /\ ReadsTo(reply, k, p, before) => ReadsTo(reply, k + 1, q, before)

\* Nothing changes, as long as the place in the reply does not matter.
LEMMA ParserStands ==
    ASSUME NEW w, NEW p \in Parsing(w), NEW t,
           p.abort \/ p.web.state = "STATUSLINE" \/ (p.web.state = "HEADERS" /\ LineFull(p))
    PROVE  ParsesOn(w, p, p, t)
<1>1. ASSUME NEW reply, NEW before, NEW k, ReadsTo(reply, k, p, before)
      PROVE  ReadsTo(reply, k + 1, p, before)
  <2>1. CASE p.abort
    BY <1>1, <2>1 DEF ReadsTo
  <2>2. CASE ~p.abort /\ p.web.state = "STATUSLINE"
    BY <1>1, <2>2, ReadsIs, Zenon DEF ReadsTo
  <2>3. CASE ~p.abort /\ p.web.state = "HEADERS" /\ LineFull(p)
    <3>1. p.web.line \in Seq(WebTokens) /\ WebLine \in Nat
      BY WebAssumption DEF Parsing, Parsers, Webs
    <3>2. ~(Len(p.web.line) < WebLine)
      BY <2>3, <3>1, LenProperties DEF LineFull
    <3>3. LineIs(reply, k + 1, p.web.line)
      BY <3>2 DEF LineIs
    <3> QED
      BY <1>1, <2>3, <3>3, ReadsIs, Zenon DEF ReadsTo
  <2> QED
    BY <2>1, <2>2, <2>3
<1> QED
  BY <1>1, Zenon DEF ParsesOn

LEMMA StatuslineGood ==
    ASSUME NEW w \in Webs, NEW p \in Parsing(w), NEW t \in WebTokens,
           ~p.abort, p.web.state = "STATUSLINE"
    PROVE  ParsesOn(w, p, ParseStatusline(p, t), t)
<1>1. CASE LineFull(p)
  BY <1>1, ParserStands, Zenon DEF ParseStatusline
<1>2. CASE ~LineFull(p) /\ t # "nl"
  <2> DEFINE q == [p EXCEPT !.web.line = Append(@, t)]
  <2>1. /\ q \in Parsing(w) /\ q.web.state = p.web.state /\ q.data = p.data /\ q.abort = p.abort
    BY <1>2, LineGrows, Zenon
  <2>2. ParseStatusline(p, t) = q
    BY <1>2, Zenon DEF ParseStatusline
  <2> HIDE DEF q
  <2>3. ASSUME NEW reply, NEW before, NEW k, ReadsTo(reply, k, p, before)
        PROVE  ReadsTo(reply, k + 1, q, before)
    <3>1. before \o p.data = <<>> /\ q.web.state # "CLOSE"
      BY <2>1, <2>3, ReadsIs, Zenon DEF ReadsTo
    <3> QED
      BY <2>1, <3>1, ReadsIs, Zenon DEF ReadsTo
  <2> QED
    BY <2>1, <2>2, <2>3, Zenon DEF ParsesOn
<1>3. CASE ~LineFull(p) /\ t = "nl" /\ (p.web.line = <<>> \/ Head(p.web.line) \notin WebStatuses)
  <2> DEFINE q == [p EXCEPT !.abort = TRUE]
  <2>1. q \in Parsing(w) /\ q.web = p.web /\ q.data = p.data /\ q.abort
    BY ParserAborts, Zenon
  <2>2. ParseStatusline(p, t) = q
    BY <1>3, Zenon DEF ParseStatusline
  <2> HIDE DEF q
  <2>3. ASSUME NEW reply, NEW before, NEW k, ReadsTo(reply, k, p, before)
        PROVE  ReadsTo(reply, k + 1, q, before)
    <3>1. before \o p.data = <<>> /\ q.web.state # "CLOSE"
      BY <2>1, <2>3, ReadsIs, Zenon DEF ReadsTo
    <3> QED
      BY <2>1, <3>1, ReadsIs, Zenon DEF ReadsTo
  <2> QED
    BY <2>1, <2>2, <2>3, Zenon DEF ParsesOn
<1>4. CASE ~LineFull(p) /\ t = "nl" /\ ~(p.web.line = <<>> \/ Head(p.web.line) \notin WebStatuses)
  <2> DEFINE flag == Flag(Head(p.web.line))
             q == [p EXCEPT !.web.flag = flag, !.web.line = <<>>, !.web.state = "HEADERS"]
  <2>0. flag \in {"NONE", "OK", "MOVED"} /\ "HEADERS" \in WebStates
    BY FlagIs DEF WebStates
  <2> HIDE DEF flag
  <2>e. q = [p EXCEPT !.web.flag = flag, !.web.line = <<>>, !.web.state = "HEADERS"]
    OBVIOUS
  <2> HIDE DEF q
  <2>1. /\ q \in Parsing(w) /\ q.web.state = "HEADERS" /\ q.web.line = <<>>
        /\ q.data = p.data /\ q.abort = p.abort
    BY <2>0, <2>e, ParserHas DEF Parsing, Parsers, Webs
  <2>2. ParseStatusline(p, t) = q
    BY <1>4, Zenon DEF ParseStatusline, q, flag
  <2>3. ASSUME NEW reply \in Seq(WebTokens), NEW before, NEW k \in 0 .. Len(reply) - 1,
               reply[k + 1] = t, ReadsTo(reply, k, p, before)
        PROVE  ReadsTo(reply, k + 1, q, before)
    <3>1. LineIs(reply, k + 1, q.web.line)
      BY <1>4, <2>1, <2>3, LineBegins, Zenon
    <3>2. q.web.state # "CLOSE"
      BY <2>1
    <3>3. before \o p.data = <<>>
      BY <2>3, ReadsIs, Zenon DEF ReadsTo
    <3> QED
      BY <2>1, <3>1, <3>2, <3>3, ReadsIs, Zenon DEF ReadsTo
  <2> QED
    BY <2>1, <2>2, <2>3, Zenon DEF ParsesOn
<1> QED
  BY <1>1, <1>2, <1>3, <1>4, Zenon

\* In the headers the program is told nothing.
LEMMA HeadersGood ==
    ASSUME NEW w \in Webs, NEW p \in Parsing(w), NEW t \in WebTokens,
           ~p.abort, p.web.state = "HEADERS"
    PROVE  ParsesOn(w, p, ParseHeaders(p, t), t)
<1>1. CASE LineFull(p)
  BY <1>1, ParserStands, Zenon DEF ParseHeaders
<1> DEFINE line == p.web.line
<1>0. /\ line \in Seq(WebTokens) /\ p.web.state \in WebStates
      /\ p.web.flag \in {"NONE", "OK", "MOVED"} /\ WebLine \in Nat
  BY WebAssumption DEF Parsing, Parsers, Webs
<1>f. ~LineFull(p) => Len(line) < WebLine
  BY <1>0, LenProperties DEF LineFull
<1>r. ASSUME NEW reply, NEW before, NEW k, ReadsTo(reply, k, p, before)
      PROVE  before \o p.data = <<>> /\ LineIs(reply, k, line)
  BY <1>r, ReadsIs, Zenon DEF ReadsTo
<1>2. CASE ~LineFull(p) /\ t # "nl"
  <2> DEFINE q == [p EXCEPT !.web.line = Append(@, t)]
  <2>1. /\ q \in Parsing(w) /\ q.web.line = Append(line, t)
        /\ q.web.state = p.web.state /\ q.data = p.data /\ q.abort = p.abort
    BY <1>2, LineGrows, Zenon
  <2>2. ParseHeaders(p, t) = q
    BY <1>2, Zenon DEF ParseHeaders
  <2> HIDE DEF q
  <2>3. ASSUME NEW reply \in Seq(WebTokens), NEW before, NEW k \in 0 .. Len(reply) - 1,
               reply[k + 1] = t, ReadsTo(reply, k, p, before)
        PROVE  ReadsTo(reply, k + 1, q, before)
    <3>1. LineIs(reply, k, line) /\ before \o p.data = <<>>
      BY <1>r, <2>3
    <3>2. LineIs(reply, k + 1, q.web.line)
      BY <1>0, <1>2, <1>f, <2>1, <2>3, <3>1, LineGoesOn, Zenon
    <3>3. q.web.state # "CLOSE"
      BY <2>1
    <3> QED
      BY <2>1, <3>1, <3>2, <3>3, ReadsIs, Zenon DEF ReadsTo
  <2> QED
    BY <2>1, <2>2, <2>3, Zenon DEF ParsesOn
<1>3. CASE ~LineFull(p) /\ t = "nl" /\ line # <<>> /\ Head(line) = "cr"
  <2> DEFINE q == [p EXCEPT !.web.state = "DATA"]
  <2>0. "DATA" \in WebStates
    BY DEF WebStates
  <2>e. q = [p EXCEPT !.web.state = "DATA"]
    OBVIOUS
  <2> HIDE DEF q
  <2>1. /\ q \in Parsing(w) /\ q.web.state = "DATA" /\ q.web.flag = p.web.flag
        /\ q.data = p.data /\ q.abort = p.abort
    BY <1>0, <2>0, <2>e, ParserGoesTo
  <2>2. ParseHeaders(p, t) = q
    BY <1>3, Zenon DEF ParseHeaders, q
  <2>3. ASSUME NEW reply \in Seq(WebTokens), NEW before, NEW k \in 0 .. Len(reply) - 1,
               reply[k + 1] = t, ReadsTo(reply, k, p, before)
        PROVE  ReadsTo(reply, k + 1, q, before)
    <3>1. LineIs(reply, k, line) /\ before \o p.data = <<>>
      BY <1>r, <2>3
    <3>2. EndsHeaders(reply, k + 1)
      BY <1>0, <1>3, <1>f, <2>3, <3>1, HeadersEnd, Zenon
    <3>3. q.web.state # "CLOSE"
      BY <2>1
    <3>4. k + 1 \in 1 .. k + 1 /\ SubSeq(reply, (k + 1) + 1, k + 1) = <<>>
      BY SubSeqEmpty
    <3>5. \E n \in 1 .. k + 1 :
             /\ EndsHeaders(reply, n)
             /\ before \o q.data = IF q.web.flag = "MOVED" THEN <<>> ELSE SubSeq(reply, n + 1, k + 1)
      BY <2>1, <3>1, <3>2, <3>4, Zenon
    <3>6. Reads(reply, k + 1, q.web, before \o q.data)
      BY <2>1, <3>5, ReadsIs, Zenon
    <3> QED
      BY <2>1, <3>3, <3>6, Zenon DEF ReadsTo
  <2> QED
    BY <2>1, <2>2, <2>3, Zenon DEF ParsesOn
<1>4. ASSUME ~LineFull(p), t = "nl", NEW q \in Parsing(w), q.web.line = <<>>,
             q.web.state = p.web.state, q.data = p.data, q.abort = p.abort
      PROVE  ParsesOn(w, p, q, t)
  <2>3. ASSUME NEW reply \in Seq(WebTokens), NEW before, NEW k \in 0 .. Len(reply) - 1,
               reply[k + 1] = t, ReadsTo(reply, k, p, before)
        PROVE  ReadsTo(reply, k + 1, q, before)
    <3>1. before \o p.data = <<>>
      BY <1>r, <2>3
    <3>2. LineIs(reply, k + 1, q.web.line)
      BY <1>4, <2>3, LineBegins, Zenon
    <3>3. q.web.state # "CLOSE"
      BY <1>4
    <3> QED
      BY <1>4, <3>1, <3>2, <3>3, ReadsIs, Zenon DEF ReadsTo
  <2> QED
    BY <1>4, <2>3, Zenon DEF ParsesOn
<1>5. CASE ~LineFull(p) /\ t = "nl" /\ ~(line # <<>> /\ Head(line) = "cr")
  <2>1. CASE line = <<>>
    <3>1. ParseHeaders(p, t) = p
      BY <1>5, <2>1, Zenon DEF ParseHeaders
    <3> QED
      BY <1>4, <1>5, <2>1, <3>1, Zenon
  <2>2. CASE line # <<>> /\ Head(line) \in DOMAIN WebMoved
    <3> DEFINE page == WebMoved[Head(line)]
               q == [p EXCEPT !.web.page = page, !.web.line = <<>>]
    <3>0. page \in WebPages
      BY <2>2, MovedIsPage
    <3>1. ParseHeaders(p, t) = q
      BY <1>5, <2>2, Zenon DEF ParseHeaders
    <3> HIDE DEF page
    <3>e. q = [p EXCEPT !.web.page = page, !.web.line = <<>>]
      OBVIOUS
    <3> HIDE DEF q
    <3>2. /\ q \in Parsing(w) /\ q.web.line = <<>> /\ q.web.state = p.web.state
          /\ q.data = p.data /\ q.abort = p.abort
      BY <3>0, <3>e, ParserHas DEF Parsing, Parsers, Webs
    <3> QED
      BY <1>4, <1>5, <3>1, <3>2, Zenon
  <2>3. CASE line # <<>> /\ Head(line) \notin DOMAIN WebMoved
    <3> DEFINE q == [p EXCEPT !.web.line = <<>>]
    <3>1. ParseHeaders(p, t) = q
      BY <1>5, <2>3, Zenon DEF ParseHeaders
    <3>2. /\ q \in Parsing(w) /\ q.web.line = <<>> /\ q.web.state = p.web.state
          /\ q.data = p.data /\ q.abort = p.abort
      BY <1>0, ParserSkips, Zenon
    <3> QED
      BY <1>4, <1>5, <3>1, <3>2, Zenon
  <2> QED
    BY <2>1, <2>2, <2>3
<1> QED
  BY <1>1, <1>2, <1>3, <1>5

LEMMA TokenJoins ==
    ASSUME NEW a \in Seq(WebTokens), NEW b \in Seq(WebTokens), NEW c \in WebTokens
    PROVE  a \o Append(b, c) = (a \o b) \o <<c>>
<1> DEFINE one == <<c>>
<1>1. one \in Seq(WebTokens) /\ Append(b, c) = b \o one
  BY OneMore
<1> HIDE DEF one
<1>2. a \o (b \o one) = (a \o b) \o one
  BY <1>1, ConcatAssociative
<1> QED
  BY <1>1, <1>2 DEF one

\* The text goes to the program as it comes, unless the page has moved.
LEMMA TextGoesOn ==
    ASSUME NEW reply \in Seq(WebTokens), NEW k \in 0 .. Len(reply) - 1,
           NEW n \in 1 .. k, NEW before \in Seq(WebTokens), NEW data \in Seq(WebTokens),
           before \o data = SubSeq(reply, n + 1, k)
    PROVE  before \o Append(data, reply[k + 1]) = SubSeq(reply, n + 1, k + 1)
<1> DEFINE t == reply[k + 1]
           all == SubSeq(reply, n + 1, k)
<1>1. k + 1 \in 1 .. Len(reply) /\ n + 1 \in 1 .. Len(reply) /\ k + 1 \in n + 1 .. Len(reply)
      /\ (k + 1) - 1 = k
  BY LenProperties
<1>2. t \in WebTokens
  BY <1>1, ElementOfSeq
<1>3. before \o Append(data, t) = all \o <<t>>
  <2>1. before \o Append(data, t) = (before \o data) \o <<t>>
    <3> HIDE DEF t
    <3> QED
      BY <1>2, TokenJoins, Zenon
  <2> QED
    BY <2>1, Zenon
<1>4. SubSeq(reply, n + 1, k + 1) = SubSeq(reply, n + 1, (k + 1) - 1) \o <<t>>
  BY <1>1, SubSeqRecursiveSecond
<1> HIDE DEF t
<1>5. before \o Append(data, t) = SubSeq(reply, n + 1, k + 1)
  BY <1>1, <1>3, <1>4
<1> QED
  BY <1>5 DEF t

LEMMA TextGood ==
    ASSUME NEW w \in Webs, NEW p \in Parsing(w), NEW t \in WebTokens,
           ~p.abort, p.web.state \notin {"STATUSLINE", "HEADERS"},
           NEW q, q = IF p.web.flag = "MOVED" THEN p ELSE [p EXCEPT !.data = Append(@, t)]
    PROVE  ParsesOn(w, p, q, t)
<1>1. /\ q \in Parsing(w) /\ q.web = p.web /\ q.abort = p.abort
      /\ q.data = IF p.web.flag = "MOVED" THEN p.data ELSE Append(p.data, t)
  <2>1. CASE p.web.flag = "MOVED"
    BY <2>1, Zenon
  <2>2. CASE p.web.flag # "MOVED"
    <3> DEFINE d == Append(p.data, t)
    <3>1. q = [p EXCEPT !.data = d]
      BY <2>2
    <3>2. d \in Seq(WebTokens)
      BY ParserHas, AppendProperties
    <3> HIDE DEF d
    <3>3. p \in Parsers
      BY ParserHas
    <3>4. q \in Parsers /\ q.web = p.web /\ q.abort = p.abort /\ q.data = d
      BY <3>1, <3>2, <3>3 DEF Parsers
    <3>5. q \in Parsing(w)
      BY <3>4 DEF Parsing
    <3> QED
      BY <2>2, <3>4, <3>5, Zenon DEF d
  <2> QED
    BY <2>1, <2>2
<1>2. ASSUME NEW reply \in Seq(WebTokens), NEW before \in Seq(WebTokens),
             NEW k \in 0 .. Len(reply) - 1, reply[k + 1] = t, ReadsTo(reply, k, p, before)
      PROVE  ReadsTo(reply, k + 1, q, before)
  <2>1. p.web.state \in WebStates /\ p.data \in Seq(WebTokens) /\ p.web.state # "CLOSE"
    BY <1>2 DEF Parsing, Parsers, Webs, ReadsTo
  <2>2. p.web.state = "DATA"
    BY <2>1 DEF WebStates
  <2>3. PICK n \in 1 .. k :
            /\ EndsHeaders(reply, n)
            /\ before \o p.data = IF p.web.flag = "MOVED" THEN <<>> ELSE SubSeq(reply, n + 1, k)
    BY <1>2, <2>2, ReadsIs, Zenon DEF ReadsTo
  <2>4. n \in 1 .. k + 1
    OBVIOUS
  <2>5. before \o q.data = IF p.web.flag = "MOVED" THEN <<>> ELSE SubSeq(reply, n + 1, k + 1)
    <3>1. CASE p.web.flag = "MOVED"
      BY <1>1, <2>3, <3>1, Zenon
    <3>2. CASE p.web.flag # "MOVED"
      <4>1. before \o p.data = SubSeq(reply, n + 1, k) /\ q.data = Append(p.data, reply[k + 1])
        BY <1>1, <1>2, <2>3, <3>2, Zenon
      <4> QED
        <5>1. before \o Append(p.data, reply[k + 1]) = SubSeq(reply, n + 1, k + 1)
          BY <2>1, <4>1, TextGoesOn
        <5> QED
          BY <3>2, <4>1, <5>1, Zenon
    <3> QED
      BY <3>1, <3>2
  <2>6. Reads(reply, k + 1, q.web, before \o q.data)
    BY <1>1, <2>2, <2>3, <2>4, <2>5, ReadsIs, Zenon
  <2> QED
    BY <1>1, <2>1, <2>6, Zenon DEF ReadsTo
<1> QED
  BY <1>1, <1>2, Zenon DEF ParsesOn

LEMMA ParseTokenGood ==
    ASSUME NEW w \in Webs, NEW p \in Parsing(w), NEW t \in WebTokens
    PROVE  ParsesOn(w, p, ParseToken(p, t), t)
<1>1. CASE p.abort
  <2>1. ParseToken(p, t) = p
    BY <1>1 DEF ParseToken
  <2> QED
    BY <1>1, <2>1, ParserStands, Zenon
<1>2. CASE ~p.abort /\ p.web.state = "STATUSLINE"
  <2>1. ParseToken(p, t) = ParseStatusline(p, t)
    BY <1>2 DEF ParseToken
  <2> QED
    BY <1>2, <2>1, StatuslineGood, Zenon
<1>3. CASE ~p.abort /\ p.web.state = "HEADERS"
  <2>1. ParseToken(p, t) = ParseHeaders(p, t)
    BY <1>3 DEF ParseToken
  <2> QED
    BY <1>3, <2>1, HeadersGood, Zenon
<1>4. CASE ~p.abort /\ p.web.state \notin {"STATUSLINE", "HEADERS"}
  <2>1. ParseToken(p, t) = IF p.web.flag = "MOVED" THEN p ELSE [p EXCEPT !.data = Append(@, t)]
    BY <1>4 DEF ParseToken
  <2> QED
    BY <1>4, <2>1, TextGood, Zenon
<1> QED
  BY <1>1, <1>2, <1>3, <1>4

\* A segment is parsed: the request stays as it is, and if it is the next part of a
\* reply, so much more of it is read.
LEMMA ParseGood ==
    ASSUME NEW w \in Webs, Len(w.line) <= WebLine, NEW data \in Seq(WebTokens)
    PROVE  /\ Parse(w, data) \in Parsing(w)
           /\ \A reply \in Seq(WebTokens), before \in Seq(WebTokens) : \A k \in Nat :
                 /\ k + Len(data) <= Len(reply)
                 /\ \A j \in 1 .. Len(data) : data[j] = reply[k + j]
                 /\ w.state # "CLOSE" /\ Reads(reply, k, w, before)
                 => ReadsTo(reply, k + Len(data), Parse(w, data), before)
           /\ data = <<>> => Parse(w, data) = [web |-> w, data |-> <<>>, abort |-> FALSE]
<1> DEFINE base == [web |-> w, data |-> <<>>, abort |-> FALSE]
<1>1. base \in Parsing(w) /\ base.web = w /\ base.data = <<>> /\ base.abort = FALSE
  BY DEF Parsing, Parsers
<1> HIDE DEF base
<1>2. PICK f : WebParsed!IsHistory(0, f, base, data)
  BY WebParsed!FoldLeftSteps, Zenon
<1>3. f[0] = base /\ f[Len(data)] = Parse(w, data) /\ Len(data) \in Nat
      /\ \A k \in 1 .. Len(data) : f[k] = ParseToken(f[k - 1], data[k])
  BY <1>2, ParseFolds, LenProperties, Zenon DEF WebParsed!IsHistory, base
<1> DEFINE T == {i \in Nat : i <= Len(data) => f[i] \in Parsing(w)}
<1>4. ASSUME NEW i \in Nat, i \in T, i + 1 <= Len(data)
      PROVE  /\ f[i] \in Parsing(w) /\ f[i + 1] \in Parsing(w) /\ i + 1 \in 1 .. Len(data)
             /\ ParsesOn(w, f[i], f[i + 1], data[i + 1])
  <2>1. i + 1 \in 1 .. Len(data) /\ (i + 1) - 1 = i /\ i <= Len(data)
    BY <1>3, <1>4
  <2>2. f[i] \in Parsing(w) /\ data[i + 1] \in WebTokens /\ f[i + 1] = ParseToken(f[i], data[i + 1])
    BY <1>3, <1>4, <2>1, ElementOfSeq
  <2>3. ParsesOn(w, f[i], f[i + 1], data[i + 1])
    BY <2>2, ParseTokenGood, Zenon
  <2> QED
    BY <2>1, <2>2, <2>3 DEF ParsesOn
<1>5. \A i \in Nat : i \in T
  <2>1. 0 \in T
    BY <1>1, <1>3
  <2>2. \A i \in Nat : i \in T => i + 1 \in T
    BY <1>4
  <2> HIDE DEF T
  <2> QED
    BY <2>1, <2>2, WebParsed!SetInduction
<1>6. Parse(w, data) \in Parsing(w)
  BY <1>3, <1>5
<1>7. ASSUME NEW reply \in Seq(WebTokens), NEW before \in Seq(WebTokens), NEW k \in Nat,
             k + Len(data) <= Len(reply), \A j \in 1 .. Len(data) : data[j] = reply[k + j],
             w.state # "CLOSE", Reads(reply, k, w, before)
      PROVE  ReadsTo(reply, k + Len(data), Parse(w, data), before)
  <2> DEFINE R == {i \in Nat : i <= Len(data) => ReadsTo(reply, k + i, f[i], before)}
  <2>1. 0 \in R
    <3>1. before \o <<>> = before /\ k + 0 = k
      BY ConcatEmptySeq
    <3>2. ReadsTo(reply, k, base, before)
      BY <1>1, <1>7, <3>1, Zenon DEF ReadsTo
    <3> QED
      BY <1>3, <3>1, <3>2
  <2>2. ASSUME NEW i \in Nat, i \in R
        PROVE  i + 1 \in R
    <3> SUFFICES ASSUME i + 1 <= Len(data)
                 PROVE  ReadsTo(reply, k + (i + 1), f[i + 1], before)
      OBVIOUS
    <3>1. ParsesOn(w, f[i], f[i + 1], data[i + 1]) /\ i + 1 \in 1 .. Len(data)
      BY <1>4, <1>5, Zenon
    <3>2. /\ k + i \in 0 .. Len(reply) - 1 /\ (k + i) + 1 = k + (i + 1)
          /\ ReadsTo(reply, k + i, f[i], before)
      BY <1>3, <1>7, <2>2, LenProperties
    <3>3. reply[(k + i) + 1] = data[i + 1]
      BY <1>7, <3>1, <3>2
    <3> HIDE DEF R
    <3>4. ReadsTo(reply, (k + i) + 1, f[i + 1], before)
      BY <3>1, <3>2, <3>3, Zenon DEF ParsesOn
    <3> QED
      BY <3>2, <3>4
  <2> HIDE DEF R
  <2>3. Len(data) \in R
    BY <1>3, <2>1, <2>2, WebParsed!SetInduction
  <2> QED
    BY <1>3, <2>3 DEF R
<1>8. ASSUME data = <<>>
      PROVE  Parse(w, data) = base
  <2>1. Len(data) = 0
    BY <1>8
  <2> QED
    BY <1>3, <2>1
<1> QED
  BY <1>6, <1>7, <1>8 DEF base

-----------------------------------------------------------------------------
\* The pages and replies have the types that the tokens have.
LEMMA ReplyIsTokens ==
    ASSUME NEW page \in DOMAIN WebReplies
    PROVE  WebReplies[page] \in Seq(WebTokens) /\ IsPage(page)
<1>1. STRING \subseteq WebTokens
  BY DEF WebTokens
<1> QED
  BY <1>1, WebAssumption, SeqMonotonic

LEMMA PagesArePages == \A page \in WebPages : IsPage(page)
BY WebAssumption DEF WebPages

LEMMA WebDataIsTokens ==
    ASSUME NEW e \in Events(WebReplyData)
    PROVE  e.data \in Seq(WebTokens)
<1>1. e.data \in WebReplyData \cup {<<>>}
  BY EventHas
<1>2. ASSUME NEW page \in DOMAIN WebReplies, NEW n \in 0 .. Len(WebReplies[page]), NEW m \in 1 .. AppMss
      PROVE  Cut(Drop(WebReplies[page], n), m) \in Seq(WebTokens)
  <2> DEFINE R == WebReplies[page]
  <2>1. R \in Seq(WebTokens) /\ n \in Nat /\ m \in Nat
    BY ReplyIsTokens
  <2> HIDE DEF R
  <2>2. Drop(R, n) \in Seq(WebTokens)
    BY <2>1, DropIsRest
  <2> QED
    BY <2>1, <2>2, CutIsFront DEF R
<1>3. CASE e.data \in WebReplyData
  <2>1. \E page \in DOMAIN WebReplies : \E n \in 0 .. Len(WebReplies[page]) : \E m \in 1 .. AppMss :
            e.data = Cut(Drop(WebReplies[page], n), m)
    <3>1. PICK page \in DOMAIN WebReplies :
              e.data \in {Cut(Drop(WebReplies[page], n), m) :
                             n \in 0 .. Len(WebReplies[page]), m \in 1 .. AppMss}
      BY <1>3 DEF WebReplyData
    <3> QED
      BY <3>1
  <2> QED
    BY <1>2, <2>1, Zenon
<1>4. CASE e.data = <<>>
  BY <1>4
<1> QED
  BY <1>1, <1>3, <1>4

\* What is left after the first n.
LEMMA DropHas ==
    ASSUME NEW S, NEW s \in Seq(S), NEW n \in Nat, n <= Len(s)
    PROVE  Drop(s, n) = SubSeq(s, n + 1, Len(s))
<1>1. CASE n = Len(s)
  <2> DEFINE t == SubSeq(s, n + 1, Len(s))
  <2>1. n \in 0 .. Len(s) /\ Len(s) - n = 0
    BY <1>1
  <2>2. t \in Seq(S) /\ Len(t) = 0
    BY <2>1, RestHas
  <2> HIDE DEF t
  <2>3. t = <<>>
    BY <2>2, EmptySeq
  <2> QED
    BY <1>1, <2>3 DEF t, Drop
<1>2. CASE n # Len(s)
  <2>1. ~(Len(s) <= n)
    BY <1>2, LenProperties
  <2> QED
    BY <2>1 DEF Drop
<1> QED
  BY <1>1, <1>2

LEMMA DropNothing ==
    ASSUME NEW S, NEW s \in Seq(S)
    PROVE  Drop(s, 0) = s
<1>1. Drop(s, 0) = SubSeq(s, 0 + 1, Len(s)) /\ 0 + 1 = 1
  <2>1. 0 \in Nat /\ 0 <= Len(s)
    BY LenProperties
  <2> QED
    BY <2>1, DropHas
<1>2. SubSeq(s, 1, Len(s)) = s
  BY SubSeqFull
<1> QED
  BY <1>1, <1>2

\* The next piece of a reply of which k tokens are gone.
IsNext(reply, k, rest, data) ==
    rest = SubSeq(reply, k + 1, Len(reply)) /\ data = Cut(rest, Len(data))

IsTaken(reply, k, rest, data) ==
    /\ k + Len(data) \in 0 .. Len(reply)
    /\ \A j \in 1 .. Len(data) : data[j] = reply[k + j]
    /\ Drop(rest, Len(data)) = SubSeq(reply, (k + Len(data)) + 1, Len(reply))

LEMMA ReplyPieces ==
    ASSUME NEW S, NEW reply \in Seq(S), NEW k \in 0 .. Len(reply),
           NEW rest, NEW data \in Seq(S), IsNext(reply, k, rest, data)
    PROVE  IsTaken(reply, k, rest, data)
<1> DEFINE m == Len(data)
           n == Len(reply)
<1>0. rest = SubSeq(reply, k + 1, Len(reply)) /\ data = Cut(rest, Len(data))
  BY Zenon DEF IsNext
<1>1. m \in Nat /\ n \in Nat /\ k \in Nat
  BY LenProperties
<1>2. /\ rest \in Seq(S) /\ Len(rest) = n - k
      /\ \A i \in 1 .. n - k : rest[i] = reply[k + i]
  BY <1>0, RestHas
<1>3. /\ m = IF Len(rest) <= m THEN Len(rest) ELSE m
      /\ \A i \in 1 .. m : data[i] = rest[i]
  <2> DEFINE c == Cut(rest, m)
  <2>1. Len(c) = (IF Len(rest) <= m THEN Len(rest) ELSE m) /\ \A i \in 1 .. Len(c) : c[i] = rest[i]
    BY <1>1, <1>2, CutIsFront
  <2>2. c = data
    BY <1>0
  <2> HIDE DEF c
  <2> QED
    BY <2>1, <2>2
<1>4. m <= n - k
  BY <1>1, <1>2, <1>3
<1>5. \A j \in 1 .. m : data[j] = reply[k + j]
  BY <1>1, <1>2, <1>3, <1>4
<1>6. Drop(rest, m) = SubSeq(rest, m + 1, n - k)
  BY <1>1, <1>2, <1>4, DropHas
<1>7. SubSeq(rest, m + 1, n - k) = SubSeq(reply, (k + m) + 1, n)
  <2> DEFINE a == SubSeq(rest, m + 1, n - k)
             b == SubSeq(reply, (k + m) + 1, n)
  <2>1. n - k \in Nat /\ k + m \in Nat /\ k + m <= n /\ (n - k) - m = n - (k + m)
    BY <1>1, <1>4
  <2> HIDE DEF m, n
  <2>2. a \in Seq(S) /\ Len(a) = (n - k) - m /\ \A i \in 1 .. (n - k) - m : a[i] = rest[m + i]
    BY <1>1, <1>2, <1>4, <2>1, PartHas
  <2>3. b \in Seq(S) /\ Len(b) = n - (k + m) /\ \A i \in 1 .. n - (k + m) : b[i] = reply[(k + m) + i]
    <3>1. n <= Len(reply)
      BY <1>1 DEF n
    <3> QED
      BY <1>1, <2>1, <3>1, PartHas
  <2> HIDE DEF a, b
  <2>4. ASSUME NEW i \in 1 .. n - (k + m)
        PROVE  a[i] = b[i]
    <3>1. m + i \in 1 .. n - k /\ k + (m + i) = (k + m) + i
      BY <1>1, <2>1
    <3> QED
      BY <1>2, <2>1, <2>2, <2>3, <3>1
  <2>5. a = b
    BY <2>1, <2>2, <2>3, <2>4, SeqEqual
  <2> QED
    BY <2>5 DEF a, b
<1>8. k + m \in 0 .. n
  BY <1>1, <1>4
<1>9. Drop(rest, m) = SubSeq(reply, (k + m) + 1, n)
  BY <1>6, <1>7, Zenon
<1> QED
  BY <1>5, <1>8, <1>9, Zenon DEF IsTaken

\* What the program has of a reply is the beginning of the text of the page.
LEMMA ReadsText ==
    ASSUME NEW page \in DOMAIN WebReplies, NEW k \in 0 .. Len(WebReplies[page]),
           NEW w, w.state \in WebStates, w.state # "CLOSE",
           NEW data, Reads(WebReplies[page], k, w, data)
    PROVE  TextIs(data, page)
<1> DEFINE R == WebReplies[page]
<1>1. R \in Seq(WebTokens)
  BY ReplyIsTokens
<1>2. CASE w.state = "DATA"
  <2>1. PICK n \in 1 .. k : /\ EndsHeaders(R, n)
                            /\ data = IF w.flag = "MOVED" THEN <<>> ELSE SubSeq(R, n + 1, k)
    BY <1>2, ReadsIs, Zenon
  <2> DEFINE text == SubSeq(R, n + 1, Len(R))
  <2>2. text \in Body(page)
    <3>1. n \in DOMAIN R
      BY <1>1, LenProperties
    <3> QED
      BY <2>1, <3>1, Zenon DEF Body
  <2>3. CASE data = SubSeq(R, n + 1, k)
    <3> HIDE DEF R
    <3>1. n \in 0 .. Len(R) /\ k \in Nat /\ n \in Nat /\ n <= k /\ k <= Len(R) /\ Len(R) \in Nat
      BY <1>1, LenProperties DEF R
    <3>2. /\ data \in Seq(WebTokens) /\ Len(data) = k - n
          /\ \A i \in 1 .. k - n : data[i] = R[n + i]
      BY <1>1, <2>3, <3>1, PartHas
    <3>3. /\ text \in Seq(WebTokens) /\ Len(text) = Len(R) - n
          /\ \A i \in 1 .. Len(R) - n : text[i] = R[n + i]
      BY <1>1, <3>1, RestHas
    <3> HIDE DEF text
    <3>4. IsPrefix(data, text)
      <4> DEFINE front == SubSeq(text, 1, k - n)
      <4>1. k - n \in Nat /\ k - n <= Len(text)
        BY <3>1, <3>3
      <4>2. front \in Seq(WebTokens) /\ Len(front) = k - n /\ \A i \in 1 .. k - n : front[i] = text[i]
        BY <3>3, <4>1, FrontHas
      <4> HIDE DEF front
      <4>3. \A i \in 1 .. k - n : front[i] = data[i]
        BY <3>1, <3>2, <3>3, <4>1, <4>2
      <4>4. front = data
        BY <3>2, <4>2, <4>3, SeqEqual
      <4>5. SubSeq(text, 1, Len(data)) = data /\ Len(data) <= Len(text)
        BY <3>2, <4>1, <4>4 DEF front
      <4>6. IsPrefix(SubSeq(text, 1, k - n), text)
        BY <3>3, <4>1, FrontIsPrefix
      <4> QED
        BY <4>4, <4>6, Zenon DEF front
    <3> QED
      BY <2>2, <3>4, Zenon DEF TextIs
  <2> QED
    BY <2>1, <2>3, Zenon DEF TextIs
<1>3. CASE w.state # "DATA"
  <2>1. w.state \in {"STATUSLINE", "HEADERS"}
    BY <1>3 DEF WebStates
  <2>2. data = <<>>
    <3>1. CASE w.state = "STATUSLINE"
      BY <3>1, ReadsIs, Zenon
    <3>2. CASE w.state = "HEADERS"
      BY <3>2, ReadsIs, Zenon
    <3> QED
      BY <2>1, <3>1, <3>2
  <2> QED
    BY <2>2 DEF TextIs
<1> QED
  BY <1>2, <1>3

-----------------------------------------------------------------------------
\* The part of the request that is sent next.
LEMMA PartFits ==
    ASSUME NEW a \in 0 .. 5, NEW n \in Nat, a + n \in 0 .. 5
    PROVE  a \in Nat /\ a + n \in Nat /\ a <= a + n /\ a + n <= 5 /\ (a + n) - a = n
OBVIOUS

LEMMA PartsMove ==
    ASSUME NEW a \in 0 .. 5, NEW b \in 0 .. 5, NEW n \in Nat, a + b = 5
    PROVE  (a + n) + (b - n) = 5
OBVIOUS

LEMMA ChunkHas ==
    ASSUME NEW w \in Webs, w.page \in WebPages, w.ptr + w.left = 5
    PROVE  /\ w.ptr \in 0 .. 5 /\ w.left \in 0 .. 5
           /\ ChunkLen(w) \in 0 .. AppMss /\ ChunkLen(w) \in Nat
           /\ w.ptr + ChunkLen(w) \in 0 .. 5 /\ w.left - ChunkLen(w) \in 0 .. 5
           /\ ChunkLen(w) = 0 <=> w.left = 0
           /\ Chunk(w) \in Seq(WebTokens) /\ Len(Chunk(w)) = ChunkLen(w)
<1>1. w.ptr \in 0 .. 5 /\ w.left \in 0 .. 5 /\ AppMss \in Nat \ {0}
  BY AppAssumption DEF Webs
<1>2. ChunkLen(w) = IF w.left > AppMss THEN AppMss ELSE w.left
  BY DEF ChunkLen
<1>3. /\ ChunkLen(w) \in 0 .. AppMss /\ ChunkLen(w) \in Nat
      /\ w.ptr + ChunkLen(w) \in 0 .. 5 /\ w.left - ChunkLen(w) \in 0 .. 5
      /\ ChunkLen(w) = 0 <=> w.left = 0
  BY <1>1, <1>2
<1> DEFINE r == Request(w.page)
           n == ChunkLen(w)
<1>4. r \in Seq(WebTokens) /\ Len(r) = 5
  BY PagesArePages, RequestHas
<1>5. Chunk(w) = SubSeq(r, w.ptr + 1, w.ptr + n)
  BY DEF Chunk
<1> HIDE DEF r, n
<1>6. w.ptr \in Nat /\ w.ptr + n \in Nat /\ w.ptr <= w.ptr + n /\ w.ptr + n <= Len(r)
      /\ (w.ptr + n) - w.ptr = n
  <2>1. w.ptr \in 0 .. 5 /\ n \in Nat /\ w.ptr + n \in 0 .. 5
    BY <1>1, <1>3, Zenon DEF n
  <2> QED
    BY <1>4, <2>1, PartFits, Zenon
<1>7. Chunk(w) \in Seq(WebTokens) /\ Len(Chunk(w)) = (w.ptr + n) - w.ptr
  <2> DEFINE from == w.ptr
             to == w.ptr + n
  <2>1. from \in Nat /\ to \in Nat /\ from <= to /\ to <= Len(r) /\ Chunk(w) = SubSeq(r, from + 1, to)
    BY <1>5, <1>6
  <2> HIDE DEF from, to
  <2>2. SubSeq(r, from + 1, to) \in Seq(WebTokens) /\ Len(SubSeq(r, from + 1, to)) = to - from
    BY <1>4, <2>1, PartHas
  <2>3. Chunk(w) \in Seq(WebTokens) /\ Len(Chunk(w)) = to - from
    BY <2>1, <2>2, Zenon
  <2> QED
    BY <2>3 DEF from, to
<1> QED
  BY <1>1, <1>3, <1>6, <1>7 DEF n

LEMMA AckedHas ==
    ASSUME NEW w \in Webs, w.page \in WebPages, w.ptr + w.left = 5
    PROVE  /\ AckedChunk(w) \in Webs
           /\ AckedChunk(w).ptr = w.ptr + ChunkLen(w) /\ AckedChunk(w).left = w.left - ChunkLen(w)
           /\ AckedChunk(w).ptr + AckedChunk(w).left = 5
           /\ AckedChunk(w).page = w.page /\ AckedChunk(w).timer = w.timer
           /\ AckedChunk(w).state = w.state /\ AckedChunk(w).flag = w.flag
           /\ AckedChunk(w).line = w.line
<1> DEFINE left == w.left - ChunkLen(w)
           ptr == w.ptr + ChunkLen(w)
<1>1. left \in 0 .. 5 /\ ptr \in 0 .. 5 /\ ptr + left = 5
  <2>1. /\ left \in 0 .. 5 /\ ptr \in 0 .. 5 /\ ChunkLen(w) \in Nat
        /\ w.ptr \in 0 .. 5 /\ w.left \in 0 .. 5
    BY ChunkHas, Zenon
  <2> QED
    BY <2>1, PartsMove, Zenon
<1>2. AckedChunk(w) = [w EXCEPT !.left = left, !.ptr = ptr]
  BY DEF AckedChunk
<1> HIDE DEF left, ptr
<1>3. /\ AckedChunk(w) \in Webs /\ AckedChunk(w).ptr = ptr /\ AckedChunk(w).left = left
      /\ AckedChunk(w).page = w.page /\ AckedChunk(w).timer = w.timer
      /\ AckedChunk(w).state = w.state /\ AckedChunk(w).flag = w.flag
      /\ AckedChunk(w).line = w.line
  BY <1>1, <1>2 DEF Webs
<1> QED
  BY <1>1, <1>3 DEF left, ptr

-----------------------------------------------------------------------------
\* What becomes of a link, whatever the call for event e answers.
LEMMA DoesIsTyped ==
    ASSUME NEW S, NEW l \in Links(S), NEW a \in AnswersOf(S)
    PROVE  Does(l, a).link \in Links(S) /\ Does(l, a).wire \in Seq(S)
<1>1. a.data \in Seq(S) /\ l.len \in Nat /\ AppMss \in Nat /\ <<>> \in Seq(S)
  BY LinkHas, AppAssumption DEF AnswersOf
<1>2. "none" \in LinkStates /\ "closing" \in LinkStates
  BY DEF LinkStates
<1>3. Sends(l, a.data).link \in Links(S) /\ Sends(l, a.data).wire \in Seq(S)
  <2> DEFINE first == Cut(a.data, AppMss)
             n == Len(first)
  <2>1. first \in Seq(S) /\ n \in 0 .. AppMss
    <3>1. first \in Seq(S) /\ n = IF Len(a.data) <= AppMss THEN Len(a.data) ELSE AppMss
      BY <1>1, CutIsFront
    <3> QED
      BY <1>1, <3>1, LenProperties
  <2>2. Cut(a.data, l.len) \in Seq(S)
    BY <1>1, CutIsFront
  <2>3. Sends(l, a.data) = IF l.len = 0 THEN [link |-> [l EXCEPT !.len = n, !.sent = first], wire |-> first]
                           ELSE [link |-> l, wire |-> Cut(a.data, l.len)]
    BY DEF Sends
  <2> HIDE DEF first, n
  <2>4. [l EXCEPT !.len = n, !.sent = first] \in Links(S)
    BY <2>1 DEF Links
  <2> QED
    BY <2>1, <2>2, <2>3, <2>4
<1>4. \A state \in LinkStates : Ends(state).link \in Links(S) /\ Ends(state).wire \in Seq(S)
  BY <1>1, LinkIsLink DEF Ends
<1> QED
  BY <1>2, <1>3, <1>4 DEF Does

LEMMA AfterIsTyped ==
    ASSUME NEW S, NEW l \in Links(S), NEW e, NEW a \in AnswersOf(S)
    PROVE  After(l, e, a).link \in Links(S) /\ After(l, e, a).wire \in Seq(S)
<1>1. a.data \in Seq(S) /\ l.len \in Nat /\ l.nrtx \in Nat /\ l.nrtx + 1 \in Nat /\ 0 \in Nat /\ <<>> \in Seq(S)
  BY LinkHas DEF AnswersOf
<1>2. "none" \in LinkStates /\ "open" \in LinkStates /\ "last ack" \in LinkStates
  BY DEF LinkStates
<1>3. \A state \in LinkStates : /\ Ends(state).link \in Links(S) /\ Ends(state).wire \in Seq(S)
                                /\ Link(state) \in Links(S)
  BY <1>1, LinkIsLink DEF Ends
<1>4. CASE e.kind = "closed"
  BY <1>2, <1>3, <1>4 DEF After
<1>5. CASE e.kind \in {"aborted", "timedout"}
  BY <1>2, <1>3, <1>5 DEF After
<1>6. CASE e.kind = "rexmit"
  <2>1. [l EXCEPT !.nrtx = @ + 1] \in Links(S)
    BY <1>1 DEF Links
  <2>2. Cut(a.data, l.len) \in Seq(S)
    BY <1>1, CutIsFront
  <2> QED
    BY <1>6, <2>1, <2>2 DEF After
<1>7. CASE e.kind = "connected"
  <2>1. After(l, e, a) = Does(Link("open"), a)
    BY <1>7 DEF After
  <2> QED
    BY <1>2, <1>3, <2>1, DoesIsTyped
<1>8. CASE e.kind \notin {"closed", "aborted", "timedout", "rexmit", "connected"}
  <2> DEFINE now == IF e.acks THEN Link("open") ELSE [l EXCEPT !.nrtx = 0]
  <2>1. After(l, e, a) = Does(now, a)
    BY <1>8 DEF After
  <2>2. [l EXCEPT !.nrtx = 0] \in Links(S)
    BY <1>1 DEF Links
  <2>3. now \in Links(S)
    BY <1>2, <1>3, <2>2
  <2> HIDE DEF now
  <2> QED
    BY <2>1, <2>3, DoesIsTyped
<1> QED
  BY <1>4, <1>5, <1>6, <1>7, <1>8

\* With nothing outstanding a short answer is sent whole.
LEMMA LinkSends ==
    ASSUME NEW S, NEW l \in Links(S), NEW e, NEW data \in Seq(S), Len(data) <= AppMss,
           \/ e.kind = "connected"
           \/ e.kind \in {"poll", "input"} /\ l.state = "open" /\ (e.acks \/ l.len = 0)
    PROVE  LET after == After(l, e, Answer(data)).link
           IN  after.state = "open" /\ after.len = Len(data) /\ after.sent = data
<1>1. Cut(data, AppMss) = data
  BY DEF Cut
<1>2. "open" \in LinkStates /\ l.nrtx \in Nat
  BY LinkHas DEF LinkStates
<1>3. Answer(data).data = data /\ ~Answer(data).abort /\ ~Answer(data).close
  BY AnswersHave
<1>4. ASSUME NEW m \in Links(S), m.state = "open", m.len = 0
      PROVE  LET after == Does(m, Answer(data)).link
             IN  after.state = "open" /\ after.len = Len(data) /\ after.sent = data
  <2>1. Does(m, Answer(data)).link = [m EXCEPT !.len = Len(data), !.sent = data]
    BY <1>1, <1>3, <1>4 DEF Does, Sends
  <2> QED
    BY <1>4, <2>1 DEF Links
<1>5. Link("open") \in Links(S) /\ Link("open").len = 0 /\ Link("open").state = "open"
  BY <1>2, LinkIsLink
<1>6. CASE e.kind = "connected"
  <2>1. After(l, e, Answer(data)) = Does(Link("open"), Answer(data))
    BY <1>6 DEF After
  <2> QED
    BY <1>4, <1>5, <2>1
<1>7. CASE e.kind \in {"poll", "input"} /\ l.state = "open" /\ (e.acks \/ l.len = 0)
  <2> DEFINE now == IF e.acks THEN Link("open") ELSE [l EXCEPT !.nrtx = 0]
  <2>1. After(l, e, Answer(data)) = Does(now, Answer(data))
    BY <1>7 DEF After
  <2>2. now \in Links(S) /\ now.state = "open" /\ now.len = 0
    BY <1>5, <1>7 DEF Links
  <2> HIDE DEF now
  <2> QED
    BY <1>4, <2>1, <2>2
<1> QED
  BY <1>6, <1>7

LEMMA LinkAgain ==
    ASSUME NEW S, NEW l \in Links(S), NEW e, e.kind = "rexmit", NEW a
    PROVE  LET after == After(l, e, a).link
           IN  after.state = l.state /\ after.len = l.len /\ after.sent = l.sent
<1>1. After(l, e, a).link = [l EXCEPT !.nrtx = @ + 1]
  BY DEF After
<1> QED
  BY <1>1 DEF Links

LEMMA LinkEnds ==
    ASSUME NEW S, NEW l \in Links(S), NEW e, NEW a
    PROVE  /\ e.kind \in {"aborted", "timedout"} => After(l, e, a).link.state = "none"
           /\ e.kind = "closed" =>
                  After(l, e, a).link.state = IF l.state = "open" THEN "last ack" ELSE "none"
           /\ e.kind \in {"poll", "input"} /\ a.abort => After(l, e, a).link.state = "none"
<1>1. \A state : Ends(state).link.state = state
  BY DEF Ends, Link
<1> QED
  BY <1>1 DEF After, Does

-----------------------------------------------------------------------------
\* The connection, after event e on it was answered a.
Becomes(conn, e, a) ==
    LET after == After(conn.link, e, a)
    IN  IF after.link.state = "none" THEN NoConn
        ELSE [conn EXCEPT !.link = after.link, !.wire = after.wire,
                          !.got = IF e.acks THEN @ \o conn.link.sent ELSE @,
                          !.replied = @ \/ Newdata(e),
                          !.rest = Drop(ReplyLeft(conn), Len(e.data))]

LEMMA NoConnHas == NoConn \in WebConns /\ ~NoConn.used /\ ~IsCurrent(NoConn)
<1>1. Link("none") \in Links(WebTokens)
  BY LinkIsLink DEF LinkStates
<1>2. <<>> \in Seq(WebTokens)
  OBVIOUS
<1> QED
  BY <1>1, <1>2 DEF NoConn, WebConns, IsCurrent

LEMMA BecomesHas ==
    ASSUME NEW conn \in WebConns, conn.page \in DOMAIN WebReplies,
           NEW e \in Events(WebReplyData), NEW a \in AnswersOf(WebTokens),
           After(conn.link, e, a).link.state # "none"
    PROVE  LET b == Becomes(conn, e, a)
           IN  /\ b \in WebConns /\ b.used = conn.used /\ b.page = conn.page
               /\ b.link = After(conn.link, e, a).link
               /\ b.got = IF e.acks THEN conn.got \o conn.link.sent ELSE conn.got
               /\ b.replied <=> conn.replied \/ Newdata(e)
               /\ ReplyLeft(b) = Drop(ReplyLeft(conn), Len(e.data))
<1> DEFINE b == Becomes(conn, e, a)
           l == After(conn.link, e, a).link
           v == After(conn.link, e, a).wire
           g == IF e.acks THEN conn.got \o conn.link.sent ELSE conn.got
           d == conn.replied \/ Newdata(e)
           s == Drop(ReplyLeft(conn), Len(e.data))
<1>1. /\ conn.link \in Links(WebTokens) /\ conn.got \in Seq(WebTokens) /\ conn.rest \in Seq(WebTokens)
      /\ conn.link.sent \in Seq(WebTokens) /\ conn.replied \in BOOLEAN
  BY LinkHas DEF WebConns
<1>2. e.data \in Seq(WebTokens) /\ e.acks \in BOOLEAN /\ Len(e.data) \in Nat
  BY EventHas, WebDataIsTokens, LenProperties
<1>3. l \in Links(WebTokens) /\ v \in Seq(WebTokens)
  BY <1>1, AfterIsTyped
<1>4. ReplyLeft(conn) \in Seq(WebTokens)
  BY <1>1, ReplyIsTokens DEF ReplyLeft
<1>5. s \in Seq(WebTokens)
  BY <1>2, <1>4, DropIsRest
<1>6. g \in Seq(WebTokens)
  BY <1>1, ConcatProperties
<1>7. d \in BOOLEAN
  BY <1>1
<1>8. b = [conn EXCEPT !.link = l, !.wire = v, !.got = g, !.replied = d, !.rest = s]
  BY Zenon DEF Becomes
<1>9. d \/ s = WebReplies[conn.page]
  <2> SUFFICES ASSUME ~d
               PROVE  s = WebReplies[conn.page]
    OBVIOUS
  <2>1. e.data = <<>> /\ ~conn.replied
    BY DEF Newdata
  <2>2. Len(e.data) = 0
    BY <2>1
  <2>3. ReplyLeft(conn) = WebReplies[conn.page]
    BY <2>1 DEF ReplyLeft
  <2>4. Drop(ReplyLeft(conn), 0) = ReplyLeft(conn)
    BY <1>4, DropNothing
  <2> QED
    BY <2>2, <2>3, <2>4, Zenon
<1> HIDE DEF b, l, v, g, d, s
<1>10. /\ b \in WebConns /\ b.used = conn.used /\ b.page = conn.page
       /\ b.link = l /\ b.got = g /\ b.replied = d /\ b.rest = s
  BY <1>3, <1>5, <1>6, <1>7, <1>8 DEF WebConns
<1>11. ReplyLeft(b) = s
  BY <1>9, <1>10 DEF ReplyLeft
<1> QED
  BY <1>10, <1>11 DEF b, l, g, d, s

-----------------------------------------------------------------------------
\* Where the parser is depends on what it keeps of the reply only.
LEMMA ReadsSame ==
    ASSUME NEW reply, NEW k, NEW data, NEW w, NEW v,
           v.state = w.state, v.flag = w.flag, v.line = w.line, Reads(reply, k, w, data)
    PROVE  Reads(reply, k, v, data)
BY Zenon DEF Reads

\* The client, when an acknowledgement and data came.
HandledBy(w, e) ==
    LET t == IF e.acks \/ Newdata(e) THEN [w EXCEPT !.timer = 0] ELSE w
    IN  Parse(IF e.acks /\ t.left > 0 THEN AckedChunk(t) ELSE t, e.data)

\* What the parser begins with.
Before(w, e) ==
    LET t == IF e.acks \/ Newdata(e) THEN [w EXCEPT !.timer = 0] ELSE w
    IN  IF e.acks /\ t.left > 0 THEN AckedChunk(t) ELSE t

LEMMA BeforeHas ==
    ASSUME NEW w \in Webs, w.page \in WebPages, w.ptr + w.left = 5, NEW e, e.acks \in BOOLEAN,
           NEW v, v = Before(w, e)
    PROVE  /\ v \in Webs /\ v.page = w.page /\ v.ptr + v.left = 5
           /\ v.state = w.state /\ v.flag = w.flag /\ v.line = w.line
           /\ v.timer = IF e.acks \/ Newdata(e) THEN 0 ELSE w.timer
           /\ v.ptr = IF e.acks /\ w.left > 0 THEN w.ptr + ChunkLen(w) ELSE w.ptr
           /\ v.left = IF e.acks /\ w.left > 0 THEN w.left - ChunkLen(w) ELSE w.left
           /\ ~e.acks /\ ~Newdata(e) => v = w
<1> DEFINE t == IF e.acks \/ Newdata(e) THEN [w EXCEPT !.timer = 0] ELSE w
<1>1. /\ t \in Webs /\ t.page = w.page /\ t.ptr = w.ptr /\ t.left = w.left
      /\ t.state = w.state /\ t.flag = w.flag /\ t.line = w.line
      /\ t.timer = IF e.acks \/ Newdata(e) THEN 0 ELSE w.timer
      /\ ~e.acks /\ ~Newdata(e) => t = w
  <2>1. 0 \in 0 .. WebWrap - 1
    BY WebAssumption
  <2> QED
    BY <2>1 DEF Webs
<1>2. v = IF e.acks /\ t.left > 0 THEN AckedChunk(t) ELSE t
  BY DEF Before
<1> HIDE DEF t
<1>3. ChunkLen(t) = ChunkLen(w)
  BY <1>1, Zenon DEF ChunkLen
<1>4. CASE e.acks /\ t.left > 0
  BY <1>1, <1>2, <1>3, <1>4, AckedHas
<1>5. CASE ~(e.acks /\ t.left > 0)
  BY <1>1, <1>2, <1>5
<1> QED
  BY <1>4, <1>5

LEMMA HandledHas ==
    ASSUME NEW w \in Webs, Len(w.line) <= WebLine, w.page \in WebPages, w.ptr + w.left = 5,
           NEW e \in Events(WebReplyData)
    PROVE  LET p == HandledBy(w, e)
           IN
           /\ p.web \in Webs /\ Len(p.web.line) <= WebLine
           /\ p.web.page \in WebPages /\ p.web.ptr + p.web.left = 5
           /\ p.data \in Seq(WebTokens) /\ p.abort \in BOOLEAN
           /\ p.web.timer = IF e.acks \/ Newdata(e) THEN 0 ELSE w.timer
           /\ p.web.ptr = IF e.acks /\ w.left > 0 THEN w.ptr + ChunkLen(w) ELSE w.ptr
           /\ p.web.left = IF e.acks /\ w.left > 0 THEN w.left - ChunkLen(w) ELSE w.left
           /\ ~Newdata(e) => p.data = <<>> /\ ~p.abort /\ p.web.page = w.page
           /\ ~e.acks /\ ~Newdata(e) => p.web = w
           /\ \A reply \in Seq(WebTokens), before \in Seq(WebTokens) : \A k \in Nat :
                 /\ k + Len(e.data) <= Len(reply)
                 /\ \A j \in 1 .. Len(e.data) : e.data[j] = reply[k + j]
                 /\ w.state # "CLOSE" /\ Reads(reply, k, w, before)
                 => ReadsTo(reply, k + Len(e.data), p, before)
<1> DEFINE p == HandledBy(w, e)
           v == Before(w, e)
<1>1. e.data \in Seq(WebTokens) /\ e.acks \in BOOLEAN /\ <<>> \in Seq(WebTokens)
  BY EventHas, WebDataIsTokens
<1>2. /\ v \in Webs /\ v.page = w.page /\ v.ptr + v.left = 5
      /\ v.state = w.state /\ v.flag = w.flag /\ v.line = w.line
      /\ v.timer = IF e.acks \/ Newdata(e) THEN 0 ELSE w.timer
      /\ v.ptr = IF e.acks /\ w.left > 0 THEN w.ptr + ChunkLen(w) ELSE w.ptr
      /\ v.left = IF e.acks /\ w.left > 0 THEN w.left - ChunkLen(w) ELSE w.left
      /\ ~e.acks /\ ~Newdata(e) => v = w
  BY <1>1, BeforeHas
<1>3. p = Parse(v, e.data)
  BY Zenon DEF HandledBy, Before
<1> HIDE DEF v, p
<1>4. /\ p \in Parsing(v)
      /\ \A reply \in Seq(WebTokens), before \in Seq(WebTokens) : \A k \in Nat :
            /\ k + Len(e.data) <= Len(reply)
            /\ \A j \in 1 .. Len(e.data) : e.data[j] = reply[k + j]
            /\ v.state # "CLOSE" /\ Reads(reply, k, v, before)
            => ReadsTo(reply, k + Len(e.data), p, before)
      /\ e.data = <<>> => p = [web |-> v, data |-> <<>>, abort |-> FALSE]
  <2>1. Len(v.line) <= WebLine
    BY <1>2
  <2> QED
    BY <1>1, <1>2, <1>3, <2>1, ParseGood, Zenon
<1>5. /\ p \in Parsers /\ p.web \in Webs /\ p.data \in Seq(WebTokens)
      /\ p.web.ptr = v.ptr /\ p.web.left = v.left /\ p.web.timer = v.timer
      /\ Len(p.web.line) <= WebLine /\ p.web.page \in WebPages
  BY <1>2, <1>4, ParserHas
<1>6. p.abort \in BOOLEAN
  BY <1>5 DEF Parsers
<1>7. ~Newdata(e) => p.data = <<>> /\ ~p.abort /\ p.web = v
  BY <1>4 DEF Newdata
<1>8. ASSUME NEW reply \in Seq(WebTokens), NEW before \in Seq(WebTokens), NEW k \in Nat,
             k + Len(e.data) <= Len(reply), \A j \in 1 .. Len(e.data) : e.data[j] = reply[k + j],
             w.state # "CLOSE", Reads(reply, k, w, before)
      PROVE  ReadsTo(reply, k + Len(e.data), p, before)
  <2>1. Reads(reply, k, v, before) /\ v.state # "CLOSE"
    BY <1>2, <1>8, ReadsSame, Zenon
  <2> QED
    BY <1>4, <1>8, <2>1, Zenon
<1>9. p.web.ptr + p.web.left = 5
  BY <1>2, <1>5
<1>10. ~Newdata(e) => p.web.page = w.page
  BY <1>2, <1>7
<1> QED
  BY <1>2, <1>5, <1>6, <1>7, <1>8, <1>9, <1>10, Zenon DEF p

-----------------------------------------------------------------------------
\* What a server sends on a connection.
Serves(conn, e) ==
    LET stream == IF e.acks THEN conn.got \o conn.link.sent ELSE conn.got
        asks == stream # <<>> /\ Last(stream) = "crnl"
        rest == ReplyLeft(conn)
    IN  /\ Newdata(e) => e.kind # "connected" /\ asks /\ e.data = Cut(rest, Len(e.data))
        /\ e.kind = "closed" /\ conn.link.state = "open" => asks /\ Drop(rest, Len(e.data)) = <<>>

LEMMA FrontsAdd ==
    ASSUME NEW S, NEW s \in Seq(S), NEW b \in Nat, NEW c \in Nat, b <= c, c <= Len(s)
    PROVE  SubSeq(s, 1, b) \o SubSeq(s, b + 1, c) = SubSeq(s, 1, c)
<1>1. 1 \in 1 .. Len(s) + 1 /\ b \in 1 - 1 .. Len(s) /\ c \in b .. Len(s)
  OBVIOUS
<1> QED
  BY <1>1, ConcatAdjacentSubSeq

\* The request, as far as the server has it after e.
LEMMA RequestGoesOn ==
    ASSUME NEW conn \in WebConns, conn.page \in DOMAIN WebReplies, conn.link.state = "open",
           NEW w \in Webs, Len(w.line) <= WebLine, w.page \in WebPages, w.ptr + w.left = 5,
           NEW data, OpenIs(conn, w, data),
           NEW e \in Events(WebReplyData), CanHappen(conn.link, e), Serves(conn, e)
    PROVE  LET p == HandledBy(w, e)
           IN
           /\ (IF e.acks THEN conn.got \o conn.link.sent ELSE conn.got)
                 = SubSeq(Request(conn.page), 1, p.web.ptr)
           /\ Newdata(e) => p.web.left = 0
           /\ p.web.left > 0 => p.web.page = conn.page /\ ~conn.replied /\ ~Newdata(e)
           /\ e.acks => conn.link.len > 0
           /\ ~e.acks => ChunkLen(p.web) = ChunkLen(w)
<1> DEFINE p == HandledBy(w, e)
           r == Request(conn.page)
           n == ChunkLen(w)
           stream == IF e.acks THEN conn.got \o conn.link.sent ELSE conn.got
<1>1. r \in Seq(WebTokens) /\ Len(r) = 5 /\ IsPage(conn.page)
  BY ReplyIsTokens, RequestHas
<1>2. /\ conn.got = SubSeq(r, 1, w.ptr) /\ conn.link.len = n
      /\ conn.link.sent = SubSeq(r, w.ptr + 1, w.ptr + n)
      /\ w.left > 0 => w.page = conn.page /\ ~conn.replied
  BY DEF OpenIs
<1>3. /\ w.ptr \in 0 .. 5 /\ w.left \in 0 .. 5 /\ n \in Nat
      /\ w.ptr + n \in 0 .. 5 /\ (n = 0 <=> w.left = 0)
  BY ChunkHas
<1>4. e.acks \in BOOLEAN /\ e.kind \in Kinds /\ (e.kind \notin {"input", "closed"} => ~e.acks)
  BY EventHas
<1>5. e.acks => conn.link.len > 0
  BY <1>4 DEF CanHappen, CanInput, CanClose
<1>6. /\ p.web.ptr = IF e.acks /\ w.left > 0 THEN w.ptr + n ELSE w.ptr
      /\ p.web.left = IF e.acks /\ w.left > 0 THEN w.left - n ELSE w.left
      /\ ~Newdata(e) => p.web.page = w.page
  BY HandledHas
<1>a. p.web \in Webs /\ p.web.ptr + p.web.left = 5
  BY HandledHas
<1> HIDE DEF n, r, p
<1>7. e.acks => w.left > 0
  BY <1>2, <1>3, <1>5
<1>8. stream = SubSeq(r, 1, p.web.ptr)
  <2>1. CASE e.acks
    <3> DEFINE a == w.ptr
               b == w.ptr + n
    <3>1. a \in Nat /\ b \in Nat /\ a <= b /\ b <= Len(r)
      BY <1>1, <1>3, PartFits, Zenon
    <3>2. conn.got = SubSeq(r, 1, a) /\ conn.link.sent = SubSeq(r, a + 1, b) /\ p.web.ptr = b
      BY <1>2, <1>6, <1>7, <2>1
    <3> HIDE DEF a, b
    <3>3. SubSeq(r, 1, a) \o SubSeq(r, a + 1, b) = SubSeq(r, 1, b)
      BY <1>1, <3>1, FrontsAdd
    <3> QED
      BY <2>1, <3>2, <3>3, Zenon
  <2>2. CASE ~e.acks
    BY <1>2, <1>6, <2>2
  <2> QED
    BY <2>1, <2>2
<1>9. Newdata(e) => p.web.left = 0
  <2> SUFFICES ASSUME Newdata(e)
               PROVE  p.web.left = 0
    OBVIOUS
  <2>1. stream # <<>> /\ Last(stream) = "crnl"
    BY Zenon DEF Serves
  <2>2. p.web.ptr \in 0 .. 5 /\ p.web.ptr + p.web.left = 5 /\ p.web.left \in 0 .. 5
    BY <1>3, <1>6, <1>a DEF Webs
  <2> HIDE DEF stream
  <2>3. SubSeq(r, 1, p.web.ptr) # <<>> /\ Last(SubSeq(r, 1, p.web.ptr)) = "crnl"
    BY <1>8, <2>1, Zenon
  <2>4. p.web.ptr = 5
    BY <1>1, <2>2, <2>3, EndIsAll, Zenon DEF r
  <2> QED
    BY <2>2, <2>4
<1>10. p.web.left > 0 => p.web.page = conn.page /\ ~conn.replied /\ ~Newdata(e)
  <2> SUFFICES ASSUME p.web.left > 0
               PROVE  p.web.page = conn.page /\ ~conn.replied /\ ~Newdata(e)
    OBVIOUS
  <2>1. ~Newdata(e)
    BY <1>9
  <2>2. w.left > 0
    BY <1>3, <1>6
  <2> QED
    BY <1>2, <1>6, <2>1, <2>2, Zenon
<1>11. ~e.acks => ChunkLen(p.web) = ChunkLen(w)
  <2> SUFFICES ASSUME ~e.acks
               PROVE  ChunkLen(p.web) = ChunkLen(w)
    OBVIOUS
  <2>1. p.web.left = w.left
    BY <1>6
  <2> QED
    BY <2>1, Zenon DEF ChunkLen
<1> QED
  BY <1>5, <1>8, <1>9, <1>10, <1>11, Zenon DEF r, p

LEMMA CutZero ==
    ASSUME NEW S, NEW s \in Seq(S)
    PROVE  Cut(s, 0) = <<>>
<1> DEFINE t == Cut(s, 0)
<1>1. 0 \in Nat /\ Len(s) \in Nat
  BY LenProperties
<1>2. t \in Seq(S) /\ Len(t) = IF Len(s) <= 0 THEN Len(s) ELSE 0
  BY <1>1, CutIsFront
<1> HIDE DEF t
<1>3. t = <<>>
  BY <1>1, <1>2, EmptySeq
<1> QED
  BY <1>3 DEF t

\* The reply, as far as the program has it after e.
LEMMA ReplyGoesOn ==
    ASSUME NEW conn \in WebConns, conn.page \in DOMAIN WebReplies,
           NEW w \in Webs, Len(w.line) <= WebLine, w.page \in WebPages, w.ptr + w.left = 5,
           w.state # "CLOSE",
           NEW data \in Seq(WebTokens), OpenIs(conn, w, data),
           NEW e \in Events(WebReplyData), Serves(conn, e)
    PROVE  LET p == HandledBy(w, e)
           IN
           /\ TextIs(data \o p.data, conn.page)
           /\ p.web.state # "CLOSE"
           /\ ~p.abort => \E k \in 0 .. Len(WebReplies[conn.page]) :
                 /\ Drop(ReplyLeft(conn), Len(e.data))
                       = SubSeq(WebReplies[conn.page], k + 1, Len(WebReplies[conn.page]))
                 /\ Reads(WebReplies[conn.page], k, p.web, data \o p.data)
<1> DEFINE p == HandledBy(w, e)
           R == WebReplies[conn.page]
           rest == ReplyLeft(conn)
<1>1. R \in Seq(WebTokens)
  BY ReplyIsTokens
<1>2. PICK k \in 0 .. Len(R) : rest = SubSeq(R, k + 1, Len(R)) /\ Reads(R, k, w, data)
  BY Zenon DEF OpenIs
<1>3. e.data \in Seq(WebTokens) /\ Len(e.data) \in Nat
  BY WebDataIsTokens, LenProperties
<1>4. rest \in Seq(WebTokens)
  <2> HIDE DEF R, rest
  <2> QED
    BY <1>1, <1>2, RestHas
<1> HIDE DEF rest
<1>5. e.data = Cut(rest, Len(e.data))
  <2>1. CASE Newdata(e)
    BY <2>1, Zenon DEF Serves, rest
  <2>2. CASE ~Newdata(e)
    <3>1. e.data = <<>> /\ Len(e.data) = 0
      BY <2>2 DEF Newdata
    <3>2. Cut(rest, 0) = <<>>
      BY <1>4, CutZero
    <3> QED
      BY <3>1, <3>2
  <2> QED
    BY <2>1, <2>2
<1> HIDE DEF R
<1> DEFINE n == k + Len(e.data)
<1>6. /\ n \in 0 .. Len(R) /\ \A j \in 1 .. Len(e.data) : e.data[j] = R[k + j]
      /\ Drop(rest, Len(e.data)) = SubSeq(R, n + 1, Len(R))
  <2>1. IsNext(R, k, rest, e.data)
    BY <1>2, <1>5, Zenon DEF IsNext, R
  <2>2. k \in 0 .. Len(R)
    BY DEF R
  <2>3. IsTaken(R, k, rest, e.data)
    BY <1>1, <1>3, <2>1, <2>2, ReplyPieces, Zenon
  <2> QED
    BY <2>3, Zenon DEF IsTaken
<1>7. k \in Nat /\ n <= Len(R)
  BY <1>6
<1>8. ReadsTo(R, n, p, data)
  BY <1>1, <1>2, <1>6, <1>7, HandledHas, Zenon
<1>a. p.web \in Webs
  BY HandledHas
<1> HIDE DEF n, p
<1>9. p.web \in Webs /\ p.web.state \in WebStates /\ p.web.state # "CLOSE"
  BY <1>8, <1>a DEF Webs, ReadsTo
<1>10. TextIs(data \o p.data, conn.page)
  <2>1. CASE p.abort
    BY <1>8, <2>1, Zenon DEF ReadsTo, TextIs
  <2>2. CASE ~p.abort
    <3>1. Reads(R, n, p.web, data \o p.data)
      BY <1>8, <2>2, Zenon DEF ReadsTo
    <3> QED
      BY <1>6, <1>9, <3>1, ReadsText, Zenon DEF R
  <2> QED
    BY <2>1, <2>2
<1>11. ~p.abort => Reads(R, n, p.web, data \o p.data)
  BY <1>8, Zenon DEF ReadsTo
<1> QED
  BY <1>6, <1>9, <1>10, <1>11, Zenon DEF R, rest, p

\* A connection that stays open is right again.
LEMMA OpenGoesOn ==
    ASSUME NEW conn \in WebConns, conn.page \in DOMAIN WebReplies, conn.link.state = "open",
           NEW w \in Webs, Len(w.line) <= WebLine, w.page \in WebPages, w.ptr + w.left = 5,
           w.state # "CLOSE",
           NEW data \in Seq(WebTokens), OpenIs(conn, w, data),
           NEW e \in Events(WebReplyData), CanHappen(conn.link, e), Serves(conn, e),
           ~HandledBy(w, e).abort,
           NEW b, b.page = conn.page,
           b.got = IF e.acks THEN conn.got \o conn.link.sent ELSE conn.got,
           b.replied <=> conn.replied \/ Newdata(e),
           ReplyLeft(b) = Drop(ReplyLeft(conn), Len(e.data)),
           b.link.len = ChunkLen(HandledBy(w, e).web), b.link.sent = Chunk(HandledBy(w, e).web)
    PROVE  OpenIs(b, HandledBy(w, e).web, data \o HandledBy(w, e).data)
<1> DEFINE p == HandledBy(w, e)
           R == WebReplies[conn.page]
           r == Request(conn.page)
           x == p.web
<1>1. /\ x \in Webs /\ x.page \in WebPages /\ x.ptr + x.left = 5
  BY HandledHas
<1>2. /\ b.got = SubSeq(r, 1, x.ptr)
      /\ x.left > 0 => x.page = conn.page /\ ~conn.replied /\ ~Newdata(e)
  BY RequestGoesOn, Zenon
<1>3. \E k \in 0 .. Len(R) :
        ReplyLeft(b) = SubSeq(R, k + 1, Len(R)) /\ Reads(R, k, x, data \o p.data)
  BY ReplyGoesOn, Zenon
<1>4. r \in Seq(WebTokens) /\ Len(r) = 5
  BY ReplyIsTokens, RequestHas
<1> HIDE DEF x, r, R, p
<1>5. b.link.sent = SubSeq(r, x.ptr + 1, x.ptr + ChunkLen(x))
  <2>1. CASE x.left > 0
    BY <1>2, <2>1, Zenon DEF Chunk, x, r, p
  <2>2. CASE ~(x.left > 0)
    <3> DEFINE t == SubSeq(r, x.ptr + 1, x.ptr)
               u == Chunk(x)
    <3>0. /\ x.ptr \in 0 .. 5 /\ x.left \in 0 .. 5 /\ (ChunkLen(x) = 0 <=> x.left = 0)
          /\ u \in Seq(WebTokens) /\ Len(u) = ChunkLen(x)
      BY <1>1, ChunkHas
    <3>1. x.ptr \in Nat /\ x.ptr <= Len(r) /\ ChunkLen(x) = 0 /\ x.ptr + 0 = x.ptr /\ x.ptr - x.ptr = 0
          /\ u \in Seq(WebTokens) /\ Len(u) = 0
      BY <1>4, <2>2, <3>0
    <3>2. t \in Seq(WebTokens) /\ Len(t) = 0
      <4> DEFINE m == x.ptr
      <4>1. m \in Nat /\ m <= m /\ m <= Len(r) /\ m - m = 0
        BY <3>1
      <4> HIDE DEF m
      <4>2. SubSeq(r, m + 1, m) \in Seq(WebTokens) /\ Len(SubSeq(r, m + 1, m)) = m - m
        BY <1>4, <4>1, PartHas
      <4> QED
        BY <4>1, <4>2 DEF m
    <3> HIDE DEF t, u
    <3>3. t = u
      BY <3>1, <3>2, EmptySeq
    <3>4. b.link.sent = t
      BY <3>3, Zenon DEF u, x, p
    <3> QED
      BY <3>1, <3>4, Zenon DEF t
  <2> QED
    BY <2>1, <2>2
<1>6. x.left > 0 => x.page = b.page /\ ~b.replied
  BY <1>2, Zenon
<1>7. b.link.len = ChunkLen(x)
  BY DEF x, p
<1> QED
  BY <1>2, <1>3, <1>5, <1>6, <1>7, Zenon DEF OpenIs, R, r, x, p

-----------------------------------------------------------------------------
\* One connection changes.
LEMMA CallIsTyped ==
    ASSUME NEW w, NEW cs, NEW t, AreTyped(w, cs, t),
           NEW c \in WebSlots, NEW b \in WebConns, ~b.used => b = NoConn,
           NEW v \in Webs, Len(v.line) <= WebLine, v.page \in WebPages, v.ptr + v.left = 5,
           NEW u \in WebTolds, u.asked
    PROVE  AreTyped(v, [cs EXCEPT ![c] = b], u)
<1> DEFINE ds == [cs EXCEPT ![c] = b]
<1>1. /\ cs \in [WebSlots -> WebConns]
      /\ \A d \in WebSlots : ~cs[d].used => cs[d] = NoConn
  BY DEF AreTyped
<1>2. /\ ds \in [WebSlots -> WebConns]
      /\ \A d \in WebSlots : ds[d] = IF d = c THEN b ELSE cs[d]
  BY <1>1
<1> HIDE DEF ds
<1>3. \A d \in WebSlots : ~ds[d].used => ds[d] = NoConn
  BY <1>1, <1>2
<1>4. AreTyped(v, ds, u)
  BY <1>2, <1>3 DEF AreTyped
<1> QED
  BY <1>4 DEF ds

\* No other connection is current.
LEMMA OnlyIsRight ==
    ASSUME NEW cs \in [WebSlots -> WebConns], NEW c \in WebSlots,
           \A d \in WebSlots : IsCurrent(cs[d]) => d = c,
           NEW b, NEW v, NEW u, v.timer <= WebTimeout, TextIs(u.data, u.page),
           IsCurrent(b) => Stands(b, v, u)
    PROVE  AreRight(v, [cs EXCEPT ![c] = b], u)
<1> DEFINE ds == [cs EXCEPT ![c] = b]
<1>1. \A d \in WebSlots : ds[d] = IF d = c THEN b ELSE cs[d]
  OBVIOUS
<1> HIDE DEF ds
<1>2. \A d \in WebSlots : IsCurrent(ds[d]) => d = c
  BY <1>1
<1>3. \A d \in WebSlots : IsCurrent(ds[d]) => Stands(ds[d], v, u)
  <2> SUFFICES ASSUME NEW d \in WebSlots, IsCurrent(ds[d])
               PROVE  Stands(ds[d], v, u)
    OBVIOUS
  <2>1. ds[d] = b
    BY <1>1, <1>2
  <2> QED
    BY <2>1
<1>4. AreRight(v, ds, u)
  BY <1>2, <1>3 DEF AreRight
<1> QED
  BY <1>4 DEF ds

LEMMA CallIsRight ==
    ASSUME NEW w, NEW cs, NEW t, AreTyped(w, cs, t), AreRight(w, cs, t),
           NEW c \in WebSlots, IsCurrent(cs[c]),
           NEW b, NEW v, NEW u, v.timer <= WebTimeout, TextIs(u.data, u.page),
           IsCurrent(b) => Stands(b, v, u)
    PROVE  AreRight(v, [cs EXCEPT ![c] = b], u)
<1>1. /\ cs \in [WebSlots -> WebConns]
      /\ \A d \in WebSlots : IsCurrent(cs[d]) => d = c
  BY Zenon DEF AreTyped, AreRight
<1> QED
  BY <1>1, OnlyIsRight, Zenon

\* A connection that is not current is done with.
LEMMA CallIsNothing ==
    ASSUME NEW w, NEW cs, NEW t, AreTyped(w, cs, t), AreRight(w, cs, t),
           NEW c \in WebSlots, NEW b, ~IsCurrent(b)
    PROVE  AreRight(w, [cs EXCEPT ![c] = b], t)
<1> DEFINE ds == [cs EXCEPT ![c] = b]
<1>1. cs \in [WebSlots -> WebConns]
  BY DEF AreTyped
<1>2. \A d \in WebSlots : ds[d] = IF d = c THEN b ELSE cs[d]
  BY <1>1
<1> HIDE DEF ds
<1>3. \A d \in WebSlots : IsCurrent(ds[d]) => IsCurrent(cs[d]) /\ ds[d] = cs[d]
  BY <1>2
<1>4. AreRight(w, ds, t)
  BY <1>3, Zenon DEF AreRight
<1> QED
  BY <1>4 DEF ds

LEMMA HappenedIs ==
    ASSUME NEW c, NEW e, NEW a
    PROVE  Happened(c, e, a) = [conns EXCEPT ![c] = Becomes(conns[c], e, a)]
BY Zenon DEF Happened, Becomes

LEMMA HandledIs ==
    ASSUME NEW e
    PROVE  Handled(e) = HandledBy(web, e)
BY DEF Handled, HandledBy

\* What becomes of a connection that is used.
LEMMA BecomesTyped ==
    ASSUME NEW conn \in WebConns, conn.used, NEW e \in Events(WebReplyData),
           NEW a \in AnswersOf(WebTokens),
           After(conn.link, e, a).link.state = "none" \/ conn.page \in DOMAIN WebReplies
    PROVE  LET b == Becomes(conn, e, a)
           IN
           /\ b \in WebConns /\ (~b.used => b = NoConn)
           /\ After(conn.link, e, a).link.state = "none" => b = NoConn
           /\ After(conn.link, e, a).link.state = "last ack" => ~IsCurrent(b)
<1> DEFINE b == Becomes(conn, e, a)
<1>1. CASE After(conn.link, e, a).link.state = "none"
  <2>1. b = NoConn
    BY <1>1, Zenon DEF Becomes
  <2>2. "none" # "last ack"
    OBVIOUS
  <2> QED
    BY <1>1, <2>1, <2>2, NoConnHas, Zenon
<1>2. CASE After(conn.link, e, a).link.state # "none"
  <2>1. b \in WebConns /\ b.used /\ b.link = After(conn.link, e, a).link
    BY <1>2, BecomesHas, Zenon
  <2> QED
    BY <1>2, <2>1, Zenon DEF IsCurrent
<1> QED
  BY <1>1, <1>2

\* The calls for a connection that is not current change nothing else.
LEMMA OldEnds ==
    ASSUME NEW conn \in WebConns, conn.used, ~IsCurrent(conn),
           NEW e \in Events(WebReplyData), CanHappen(conn.link, e),
           NEW a \in AnswersOf(WebTokens)
    PROVE  /\ e.kind \in {"closed", "aborted", "timedout"} /\ ~e.acks /\ ~Newdata(e)
           /\ Becomes(conn, e, a) = NoConn
<1>1. conn.link.state = "last ack" /\ conn.link \in Links(WebTokens)
  BY DEF IsCurrent, WebConns
<1>2. /\ e.kind \in Kinds /\ (e.kind \notin {"input", "closed"} => ~e.acks)
      /\ (e.kind \notin {"input", "closed", "connected"} => e.data = <<>>) /\ e.acks \in BOOLEAN
  BY EventHas
<1>3. e.kind \in {"closed", "aborted", "timedout"}
  BY <1>1, <1>2 DEF CanHappen, CanInput, Kinds
<1>4. ~e.acks /\ ~Newdata(e)
  BY <1>1, <1>2, <1>3 DEF CanHappen, CanClose, Newdata
<1>5. After(conn.link, e, a).link.state = "none"
  <2>1. "last ack" # "open"
    OBVIOUS
  <2> QED
    BY <1>1, <1>3, <2>1, LinkEnds
<1> QED
  BY <1>3, <1>4, <1>5, Zenon DEF Becomes

-----------------------------------------------------------------------------
\* Event e happens on connection c.
WebHappens(c, e) ==
    /\ c \in WebSlots /\ e \in Events(WebReplyData)
    /\ conns[c].used /\ CanHappen(conns[c].link, e) /\ WebServes(c, e)

LEMMA WebHas ==
    ASSUME WebInv, ~told.mixed, NEW c, NEW e, WebHappens(c, e)
    PROVE  /\ AreTyped(web, conns, told) /\ AreRight(web, conns, told)
           /\ c \in WebSlots /\ e \in Events(WebReplyData)
           /\ conns[c] \in WebConns /\ conns[c].used /\ conns[c].link \in Links(WebTokens)
           /\ CanHappen(conns[c].link, e) /\ Serves(conns[c], e)
           /\ web \in Webs /\ Len(web.line) <= WebLine /\ told.asked
           /\ web.page \in WebPages /\ web.ptr + web.left = 5
           /\ web.timer <= WebTimeout /\ TextIs(told.data, told.page)
           /\ told \in WebTolds /\ told.data \in Seq(WebTokens)
           /\ IsCurrent(conns[c]) =>
                 /\ conns[c].page \in DOMAIN WebReplies
                 /\ conns[c].link.state = "none" => OpeningIs(conns[c], web)
                 /\ conns[c].link.state # "none" =>
                        /\ conns[c].link.state = "open" /\ web.timer < WebTimeout
                        /\ told.page = conns[c].page /\ OpenIs(conns[c], web, told.data)
<1>1. AreTyped(web, conns, told) /\ AreRight(web, conns, told)
  BY Zenon DEF WebInv, WebGood
<1>2. /\ c \in WebSlots /\ e \in Events(WebReplyData) /\ conns[c].used
      /\ CanHappen(conns[c].link, e) /\ Serves(conns[c], e)
  <2>1. WebServes(c, e) <=> Serves(conns[c], e)
    BY DEF WebServes, Serves
  <2> QED
    BY <2>1, Zenon DEF WebHappens
<1>3. /\ conns[c] \in WebConns /\ web \in Webs /\ Len(web.line) <= WebLine /\ told.asked
      /\ web.page \in WebPages /\ web.ptr + web.left = 5 /\ told \in WebTolds /\ told.asked
  BY <1>1, <1>2 DEF AreTyped
<1>4. conns[c].link \in Links(WebTokens) /\ told.data \in Seq(WebTokens)
  BY <1>3 DEF WebConns, WebTolds
<1>5. /\ web.timer <= WebTimeout /\ TextIs(told.data, told.page)
      /\ IsCurrent(conns[c]) => Stands(conns[c], web, told)
  BY <1>1, <1>2, Zenon DEF AreRight
<1> QED
  BY <1>1, <1>2, <1>3, <1>4, <1>5, Zenon DEF Stands

\* The connection is established.
LEMMA ConnectedKeeps ==
    ASSUME WebInv, ~told.mixed, NEW c, NEW e, WebHappens(c, e), WebConnected(c, e)
    PROVE  WebInv'
<1> DEFINE conn == conns[c]
           w == [web EXCEPT !.timer = 0, !.state = "STATUSLINE"]
           a == Answer(Chunk(w))
           b == Becomes(conn, e, a)
           u == [told EXCEPT !.data = <<>>, !.page = conn.page]
<1>1. /\ web' = w /\ conns' = [conns EXCEPT ![c] = b] /\ told' = u /\ e.kind = "connected"
  <2>1. web' = w /\ conns' = Happened(c, e, a) /\ told' = u /\ e.kind = "connected"
    BY DEF WebConnected
  <2> QED
    BY <2>1, HappenedIs, Zenon
<1>2. /\ AreTyped(web, conns, told) /\ AreRight(web, conns, told)
      /\ c \in WebSlots /\ e \in Events(WebReplyData)
      /\ conn \in WebConns /\ conn.used /\ conn.link \in Links(WebTokens)
      /\ CanHappen(conn.link, e) /\ Serves(conn, e)
      /\ web \in Webs /\ Len(web.line) <= WebLine
      /\ web.page \in WebPages /\ web.ptr + web.left = 5 /\ told \in WebTolds /\ told.asked
  BY WebHas, Zenon
<1>3. conn.link.state = "none" /\ IsCurrent(conn)
  BY <1>1, <1>2 DEF CanHappen, IsCurrent
<1>4. conn.page \in DOMAIN WebReplies /\ OpeningIs(conn, web)
  BY <1>2, <1>3, WebHas, Zenon
<1>5. /\ w \in Webs /\ w.line = web.line /\ w.page = web.page /\ w.ptr = web.ptr /\ w.left = web.left
      /\ w.timer = 0 /\ w.state = "STATUSLINE" /\ w.flag = web.flag
  <2>1. 0 \in 0 .. WebWrap - 1
    BY WebAssumption
  <2> QED
    BY <1>2, <2>1 DEF Webs, WebStates
<1> HIDE DEF w
<1>6. /\ Chunk(w) \in Seq(WebTokens) /\ Len(Chunk(w)) = ChunkLen(w) /\ ChunkLen(w) <= AppMss
  <2>1. w.page \in WebPages /\ w.ptr + w.left = 5
    BY <1>2, <1>5
  <2>2. /\ Chunk(w) \in Seq(WebTokens) /\ Len(Chunk(w)) = ChunkLen(w) /\ ChunkLen(w) \in 0 .. AppMss
    BY <1>5, <2>1, ChunkHas
  <2> QED
    BY <2>2, AppAssumption
<1>7. a \in AnswersOf(WebTokens)
  BY <1>6, AnswersHave
<1>8. LET after == After(conn.link, e, a).link
      IN  after.state = "open" /\ after.len = Len(Chunk(w)) /\ after.sent = Chunk(w)
  BY <1>1, <1>2, <1>6, LinkSends
<1>9. ~Newdata(e) /\ ~e.acks /\ e.data = <<>> /\ Len(e.data) = 0
  <2>1. ~Newdata(e)
    BY <1>1, <1>2, Zenon DEF Serves
  <2>2. ~e.acks
    BY <1>1, <1>2, EventHas
  <2> QED
    BY <2>1, <2>2 DEF Newdata
<1>10. /\ b \in WebConns /\ b.used = conn.used /\ b.page = conn.page
       /\ b.link = After(conn.link, e, a).link
       /\ b.got = conn.got /\ (b.replied <=> conn.replied)
       /\ ReplyLeft(b) = Drop(ReplyLeft(conn), 0)
  <2>1. After(conn.link, e, a).link.state # "none"
    BY <1>8
  <2>2. /\ b \in WebConns /\ b.used = conn.used /\ b.page = conn.page
        /\ b.link = After(conn.link, e, a).link
        /\ b.got = IF e.acks THEN conn.got \o conn.link.sent ELSE conn.got
        /\ b.replied <=> conn.replied \/ Newdata(e)
        /\ ReplyLeft(b) = Drop(ReplyLeft(conn), Len(e.data))
    BY <1>2, <1>4, <1>7, <2>1, BecomesHas, Zenon
  <2> HIDE DEF b
  <2> QED
    BY <1>9, <2>2, Zenon
<1> HIDE DEF b, a
<1>11. ReplyLeft(b) = WebReplies[conn.page]
  <2>1. ReplyLeft(conn) = WebReplies[conn.page]
    BY <1>4 DEF ReplyLeft, OpeningIs
  <2>2. Drop(WebReplies[conn.page], 0) = WebReplies[conn.page]
    BY <1>4, ReplyIsTokens, DropNothing
  <2> QED
    BY <1>10, <2>1, <2>2, Zenon
<1>12. u \in WebTolds /\ u.data = <<>> /\ u.page = conn.page /\ u.asked = told.asked
  <2>1. conn.page \in WebPages /\ <<>> \in Seq(WebTokens)
    BY <1>4 DEF WebPages
  <2> QED
    BY <1>2, <2>1 DEF WebTolds
<1> HIDE DEF u
<1>13. OpenIs(b, w, <<>>)
  <2> DEFINE r == Request(conn.page)
             R == WebReplies[conn.page]
  <2>1. r \in Seq(WebTokens) /\ Len(r) = 5 /\ R \in Seq(WebTokens)
    BY <1>4, ReplyIsTokens, RequestHas
  <2>2. w.ptr = 0 /\ w.page = conn.page /\ conn.got = <<>> /\ ~conn.replied
    BY <1>4, <1>5 DEF OpeningIs
  <2> HIDE DEF r, R
  <2>3. SubSeq(r, 1, 0) = <<>>
    <3>1. 0 \in Nat /\ 0 <= Len(r)
      BY <2>1
    <3>2. SubSeq(r, 1, 0) \in Seq(WebTokens) /\ Len(SubSeq(r, 1, 0)) = 0
      BY <2>1, <3>1, FrontHas
    <3> QED
      BY <3>2, EmptySeq
  <2>4. b.got = SubSeq(r, 1, w.ptr)
    BY <1>10, <2>2, <2>3
  <2>5. b.link.len = ChunkLen(w) /\ b.link.sent = SubSeq(r, w.ptr + 1, w.ptr + ChunkLen(w))
    <3>1. Chunk(w) = SubSeq(r, w.ptr + 1, w.ptr + ChunkLen(w))
      BY <2>2, Zenon DEF Chunk, r
    <3> QED
      BY <1>6, <1>8, <1>10, <3>1, Zenon
  <2>6. 0 \in 0 .. Len(R) /\ ReplyLeft(b) = SubSeq(R, 0 + 1, Len(R))
    <3>1. SubSeq(R, 1, Len(R)) = R
      BY <2>1, SubSeqFull
    <3>2. 0 + 1 = 1 /\ 0 \in 0 .. Len(R)
      BY <2>1, LenProperties
    <3> QED
      BY <1>11, <3>1, <3>2 DEF R
  <2>7. Reads(R, 0, w, <<>>)
    BY <1>5, ReadsIs, Zenon
  <2> QED
    BY <1>10, <2>2, <2>4, <2>5, <2>6, <2>7, Zenon DEF OpenIs, r, R
<1>14. Stands(b, w, u)
  <2>1. w.timer < WebTimeout
    BY <1>5, WebAssumption
  <2>2. b.link.state = "open" /\ b.link.state # "none"
    BY <1>8, <1>10
  <2> QED
    BY <1>4, <1>10, <1>12, <1>13, <2>1, <2>2, Zenon DEF Stands
<1>15. AreRight(w, [conns EXCEPT ![c] = b], u)
  <2>1. w.timer <= WebTimeout
    BY <1>5, WebAssumption
  <2>2. TextIs(u.data, u.page)
    BY <1>12 DEF TextIs
  <2> QED
    BY <1>2, <1>3, <1>14, <2>1, <2>2, CallIsRight, Zenon
<1>16. AreTyped(w, [conns EXCEPT ![c] = b], u)
  BY <1>2, <1>5, <1>10, <1>12, CallIsTyped
<1> QED
  BY <1>1, <1>15, <1>16, Zenon DEF WebInv, WebGood

-----------------------------------------------------------------------------
\* What a connection that is open needs of the client.
LEMMA OpenSame ==
    ASSUME NEW conn, NEW data, NEW w, NEW v, OpenIs(conn, w, data),
           v.ptr = w.ptr, v.left = w.left, v.page = w.page,
           v.state = "CLOSE" \/ (v.state = w.state /\ v.flag = w.flag /\ v.line = w.line)
    PROVE  OpenIs(conn, v, data)
<1>1. ChunkLen(v) = ChunkLen(w)
  BY Zenon DEF ChunkLen
<1>2. v.state # "CLOSE" => w.state # "CLOSE" /\ (\A reply, k : Reads(reply, k, w, data) => Reads(reply, k, v, data))
  BY ReadsSame, Zenon
<1> QED
  BY <1>1, <1>2, Zenon DEF OpenIs

\* These events end a connection, or this side of it.
LEMMA CallEnds ==
    ASSUME NEW conn \in WebConns, conn.used, IsCurrent(conn),
           conn.link.state \in {"none", "open"}, conn.page \in DOMAIN WebReplies,
           NEW e \in Events(WebReplyData), CanHappen(conn.link, e),
           NEW a \in AnswersOf(WebTokens),
           \/ e.kind \in {"closed", "aborted", "timedout"}
           \/ e.kind \in {"poll", "input"} /\ a.abort
    PROVE  LET b == Becomes(conn, e, a)
           IN  b \in WebConns /\ (~b.used => b = NoConn) /\ ~IsCurrent(b)
<1> DEFINE b == Becomes(conn, e, a)
<1>1. conn.link \in Links(WebTokens)
  BY DEF WebConns
<1>2. e.kind = "closed" => conn.link.state = "open"
  BY DEF CanHappen, CanClose
<1>3. After(conn.link, e, a).link.state \in {"none", "last ack"}
  BY <1>1, <1>2, LinkEnds
<1>4. /\ b \in WebConns /\ (~b.used => b = NoConn)
      /\ After(conn.link, e, a).link.state = "none" => b = NoConn
      /\ After(conn.link, e, a).link.state = "last ack" => ~IsCurrent(b)
  BY BecomesTyped, Zenon
<1> HIDE DEF b
<1>5. b = NoConn => ~IsCurrent(b)
  BY NoConnHas
<1> QED
  BY <1>3, <1>4, <1>5 DEF b

\* A call to send again leaves all as it is.
LEMMA RexmitStands ==
    ASSUME NEW conn \in WebConns, conn.used, conn.link.state = "open",
           conn.page \in DOMAIN WebReplies,
           NEW w, NEW data, OpenIs(conn, w, data),
           NEW e \in Events(WebReplyData), e.kind = "rexmit",
           NEW a \in AnswersOf(WebTokens)
    PROVE  LET b == Becomes(conn, e, a)
           IN  /\ b \in WebConns /\ b.used /\ b.link.state = "open" /\ b.page = conn.page
               /\ OpenIs(b, w, data)
<1> DEFINE b == Becomes(conn, e, a)
<1>1. conn.link \in Links(WebTokens) /\ conn.rest \in Seq(WebTokens)
  BY DEF WebConns
<1>2. ~e.acks /\ ~Newdata(e) /\ Len(e.data) = 0
  BY EventHas DEF Newdata
<1>3. LET after == After(conn.link, e, a).link
      IN  after.state = conn.link.state /\ after.len = conn.link.len /\ after.sent = conn.link.sent
  BY <1>1, LinkAgain
<1>4. After(conn.link, e, a).link.state # "none"
  BY <1>3
<1>5. /\ b \in WebConns /\ b.used = conn.used /\ b.page = conn.page
      /\ b.link = After(conn.link, e, a).link
      /\ b.got = IF e.acks THEN conn.got \o conn.link.sent ELSE conn.got
      /\ b.replied <=> conn.replied \/ Newdata(e)
      /\ ReplyLeft(b) = Drop(ReplyLeft(conn), Len(e.data))
  BY <1>4, BecomesHas, Zenon
<1> HIDE DEF b
<1>6. Drop(ReplyLeft(conn), 0) = ReplyLeft(conn)
  <2>1. ReplyLeft(conn) \in Seq(WebTokens)
    BY <1>1, ReplyIsTokens DEF ReplyLeft
  <2> QED
    BY <2>1, DropNothing
<1>7. b.got = conn.got /\ (b.replied <=> conn.replied) /\ ReplyLeft(b) = ReplyLeft(conn)
  BY <1>2, <1>5, <1>6, Zenon
<1>8. b.link.len = conn.link.len /\ b.link.sent = conn.link.sent /\ b.link.state = "open"
  BY <1>3, <1>5, Zenon
<1>9. OpenIs(b, w, data)
  BY <1>5, <1>7, <1>8, Zenon DEF OpenIs
<1> QED
  BY <1>5, <1>8, <1>9, Zenon DEF b

\* The program has called webclient_close().
LEMMA ClosesKeeps ==
    ASSUME WebInv, ~told.mixed, NEW c, NEW e, WebHappens(c, e), WebCloses(c, e)
    PROVE  WebInv'
<1> DEFINE conn == conns[c]
           b == Becomes(conn, e, Abort)
           cs == [conns EXCEPT ![c] = b]
<1>1. web' = web /\ conns' = cs /\ told' = told /\ e.kind # "connected" /\ web.state = "CLOSE"
  <2>1. web' = web /\ conns' = Happened(c, e, Abort) /\ told' = told /\ e.kind # "connected"
        /\ web.state = "CLOSE"
    BY DEF WebCloses
  <2> QED
    BY <2>1, HappenedIs, Zenon
<1>2. /\ AreTyped(web, conns, told) /\ AreRight(web, conns, told)
      /\ c \in WebSlots /\ e \in Events(WebReplyData)
      /\ conn \in WebConns /\ conn.used /\ conn.link \in Links(WebTokens)
      /\ CanHappen(conn.link, e)
      /\ web \in Webs /\ Len(web.line) <= WebLine
      /\ web.page \in WebPages /\ web.ptr + web.left = 5 /\ told \in WebTolds /\ told.asked
      /\ web.timer <= WebTimeout /\ TextIs(told.data, told.page)
  BY WebHas, Zenon
<1>3. Abort \in AnswersOf(WebTokens) /\ Abort.abort
  <2>1. <<>> \in Seq(WebTokens)
    OBVIOUS
  <2> QED
    BY <2>1, AnswersHave DEF Abort
<1>4. /\ b \in WebConns /\ (~b.used => b = NoConn)
      /\ IsCurrent(b) => IsCurrent(conn) /\ Stands(b, web, told)
  <2>1. CASE ~IsCurrent(conn)
    <3>1. b = NoConn
      BY <1>2, <1>3, <2>1, OldEnds, Zenon
    <3> QED
      BY <3>1, NoConnHas, Zenon
  <2>2. CASE IsCurrent(conn)
    <3>1. /\ conn.page \in DOMAIN WebReplies
          /\ conn.link.state # "none" =>
                 /\ conn.link.state = "open" /\ web.timer < WebTimeout
                 /\ told.page = conn.page /\ OpenIs(conn, web, told.data)
      BY <2>2, WebHas, Zenon
    <3>2. e.kind \in {"closed", "aborted", "timedout", "poll", "input", "rexmit"}
      BY <1>1, <1>2, EventHas DEF Kinds
    <3>3. CASE e.kind \in {"closed", "aborted", "timedout", "poll", "input"}
      <4>1. conn.link.state \in {"none", "open"}
        BY <3>1
      <4> HIDE DEF b, conn
      <4>2. b \in WebConns /\ (~b.used => b = NoConn) /\ ~IsCurrent(b)
        BY <1>2, <1>3, <2>2, <3>1, <3>3, <4>1, CallEnds DEF b
      <4> QED
        BY <4>2
    <3>4. CASE e.kind = "rexmit"
      <4>1. conn.link.state = "open"
        BY <1>2, <3>4 DEF CanHappen
      <4>2. conn.link.state # "none"
        BY <4>1
      <4>3. OpenIs(conn, web, told.data) /\ web.timer < WebTimeout /\ told.page = conn.page
        BY <3>1, <4>2, Zenon
      <4>4. /\ b \in WebConns /\ b.used /\ b.link.state = "open" /\ b.page = conn.page
            /\ OpenIs(b, web, told.data)
        BY <1>2, <1>3, <3>1, <3>4, <4>1, <4>3, RexmitStands, Zenon
      <4> HIDE DEF b, conn
      <4>5. b.link.state # "none"
        BY <4>4
      <4>6. Stands(b, web, told)
        BY <3>1, <4>3, <4>4, <4>5, Zenon DEF Stands
      <4> QED
        BY <2>2, <4>4, <4>6, Zenon
    <3> QED
      BY <3>2, <3>3, <3>4
  <2> QED
    BY <2>1, <2>2, Zenon
<1> HIDE DEF b, conn
<1>5. AreTyped(web, cs, told)
  BY <1>2, <1>4, CallIsTyped, Zenon DEF conn
<1>6. AreRight(web, cs, told)
  <2>1. CASE IsCurrent(conn)
    BY <1>2, <1>4, <2>1, CallIsRight, Zenon DEF conn
  <2>2. CASE ~IsCurrent(conn)
    BY <1>2, <1>4, <2>2, CallIsNothing, Zenon
  <2> QED
    BY <2>1, <2>2
<1> QED
  BY <1>1, <1>5, <1>6, Zenon DEF WebInv, WebGood

-----------------------------------------------------------------------------
\* The client and the history after event e, which p came of.
LEMMA EventHasTypes ==
    ASSUME WebInv, ~told.mixed, NEW c, NEW e, WebHappens(c, e)
    PROVE  LET p == HandledBy(web, e)
           IN
           /\ p.web \in Webs /\ Len(p.web.line) <= WebLine
           /\ p.web.page \in WebPages /\ p.web.ptr + p.web.left = 5
           /\ p.data \in Seq(WebTokens) /\ p.abort \in BOOLEAN
           /\ p.web.timer = (IF e.acks \/ Newdata(e) THEN 0 ELSE web.timer)
           /\ p.web.timer <= WebTimeout
           /\ ~Newdata(e) => p.data = <<>> /\ ~p.abort
           /\ ~e.acks /\ ~Newdata(e) => p.web = web
           /\ told.data \o p.data \in Seq(WebTokens)
           /\ [told EXCEPT !.data = @ \o p.data] \in WebTolds
           /\ [told EXCEPT !.data = @ \o p.data].data = told.data \o p.data
           /\ [told EXCEPT !.data = @ \o p.data].page = told.page
           /\ [told EXCEPT !.data = @ \o p.data].asked = told.asked
           /\ [told EXCEPT !.data = @ \o p.data].mixed = told.mixed
           /\ p.data = <<>> => [told EXCEPT !.data = @ \o p.data] = told
<1> DEFINE p == HandledBy(web, e)
<1>1. /\ web \in Webs /\ Len(web.line) <= WebLine /\ e \in Events(WebReplyData)
      /\ web.page \in WebPages /\ web.ptr + web.left = 5
      /\ told \in WebTolds /\ told.data \in Seq(WebTokens) /\ web.timer <= WebTimeout
  BY WebHas, Zenon
<1>2. /\ p.web \in Webs /\ Len(p.web.line) <= WebLine
      /\ p.web.page \in WebPages /\ p.web.ptr + p.web.left = 5
      /\ p.data \in Seq(WebTokens) /\ p.abort \in BOOLEAN
      /\ p.web.timer = (IF e.acks \/ Newdata(e) THEN 0 ELSE web.timer)
      /\ ~Newdata(e) => p.data = <<>> /\ ~p.abort
      /\ ~e.acks /\ ~Newdata(e) => p.web = web
  BY <1>1, HandledHas
<1> HIDE DEF p
<1>3. p.web.timer <= WebTimeout
  BY <1>1, <1>2, WebAssumption
<1> DEFINE all == told.data \o p.data
           u == [told EXCEPT !.data = all]
<1>4. all \in Seq(WebTokens) /\ (p.data = <<>> => all = told.data)
  <2>1. all \in Seq(WebTokens)
    BY <1>1, <1>2, ConcatProperties
  <2>2. told.data \o <<>> = told.data
    BY <1>1, ConcatEmptySeq
  <2> QED
    BY <2>1, <2>2
<1> HIDE DEF all
<1>5. /\ u \in WebTolds /\ u.data = all /\ u.page = told.page /\ u.asked = told.asked
      /\ u.mixed = told.mixed /\ (all = told.data => u = told)
  BY <1>1, <1>4 DEF WebTolds
<1>6. [told EXCEPT !.data = @ \o p.data] = u
  BY DEF all
<1> HIDE DEF u
<1> QED
  BY <1>2, <1>3, <1>4, <1>5, <1>6, Zenon DEF all, p

LEMMA WebAnswers ==
    ASSUME NEW w \in Webs, w.page \in WebPages, w.ptr + w.left = 5
    PROVE  /\ Answer(Chunk(w)) \in AnswersOf(WebTokens) /\ ~Answer(Chunk(w)).abort
           /\ Silent \in AnswersOf(WebTokens) /\ ~Silent.abort
           /\ Abort \in AnswersOf(WebTokens) /\ Abort.abort
           /\ Silent = Answer(<<>>)
           /\ Chunk(w) \in Seq(WebTokens) /\ Len(Chunk(w)) = ChunkLen(w) /\ ChunkLen(w) <= AppMss
<1>1. /\ Chunk(w) \in Seq(WebTokens) /\ Len(Chunk(w)) = ChunkLen(w) /\ ChunkLen(w) \in 0 .. AppMss
  BY ChunkHas
<1>2. <<>> \in Seq(WebTokens)
  OBVIOUS
<1>3. /\ Answer(Chunk(w)) \in AnswersOf(WebTokens) /\ ~Answer(Chunk(w)).abort
      /\ Silent \in AnswersOf(WebTokens) /\ Abort \in AnswersOf(WebTokens)
      /\ Answer(<<>>) \in AnswersOf(WebTokens) /\ ~Answer(<<>>).abort
  BY <1>1, <1>2, AnswersHave
<1>4. Abort.abort /\ Silent = Answer(<<>>)
  BY DEF Abort, Silent
<1>5. ChunkLen(w) <= AppMss
  BY <1>1, AppAssumption
<1> QED
  BY <1>1, <1>3, <1>4, <1>5, Zenon

\* Poll and input are answered with what is to be sent.
AnswersRight(e, a) ==
    \/ a = Answer(Chunk(HandledBy(web, e).web))
    \/ e.kind = "poll" /\ a = Silent

SameButTimer(v, w) ==
    /\ v.ptr = w.ptr /\ v.left = w.left /\ v.page = w.page
    /\ v.state = w.state /\ v.flag = w.flag /\ v.line = w.line

\* On an open connection an event other than the end is handled rightly.
LEMMA OpenStands ==
    ASSUME WebInv, ~told.mixed, NEW c, NEW e, WebHappens(c, e),
           e.kind \in {"input", "poll"}, web.state # "CLOSE", conns[c].link.state = "open",
           ~HandledBy(web, e).abort,
           NEW a, AnswersRight(e, a),
           NEW v, v.timer < WebTimeout, SameButTimer(v, HandledBy(web, e).web),
           NEW u, u.data = told.data \o HandledBy(web, e).data, u.page = told.page
    PROVE  /\ Becomes(conns[c], e, a) \in WebConns /\ Becomes(conns[c], e, a).used
           /\ Stands(Becomes(conns[c], e, a), v, u)
<1> DEFINE conn == conns[c]
           p == HandledBy(web, e)
           b == Becomes(conn, e, a)
           x == p.web
<1>1. /\ e \in Events(WebReplyData)
      /\ conn \in WebConns /\ conn.used /\ conn.link \in Links(WebTokens)
      /\ CanHappen(conn.link, e) /\ Serves(conn, e)
      /\ web \in Webs /\ Len(web.line) <= WebLine /\ told.data \in Seq(WebTokens)
      /\ web.page \in WebPages /\ web.ptr + web.left = 5
  BY WebHas, Zenon
<1>2. /\ conn.page \in DOMAIN WebReplies /\ told.page = conn.page
      /\ OpenIs(conn, web, told.data)
  <2>1. IsCurrent(conn) /\ conn.link.state # "none"
    BY <1>1 DEF IsCurrent
  <2> QED
    BY <2>1, WebHas, Zenon
<1>3. x \in Webs /\ x.page \in WebPages /\ x.ptr + x.left = 5
  BY EventHasTypes, Zenon
<1> HIDE DEF b
<1>4. /\ Newdata(e) => x.left = 0
      /\ e.acks => conn.link.len > 0
      /\ ~e.acks => ChunkLen(x) = ChunkLen(web)
  <2>1. conn.link.state = "open"
    OBVIOUS
  <2> HIDE DEF conn
  <2> QED
    BY <1>1, <1>2, <2>1, RequestGoesOn, Zenon
<1>5. conn.link.len = ChunkLen(web)
  BY <1>2, Zenon DEF OpenIs
<1>6. ~e.acks => conn.link.len = 0 /\ ChunkLen(x) = 0
  <2> SUFFICES ASSUME ~e.acks
               PROVE  conn.link.len = 0 /\ ChunkLen(x) = 0
    OBVIOUS
  <2>1. CASE e.kind = "poll"
    BY <1>1, <1>4, <1>5, <2>1 DEF CanHappen
  <2>2. CASE e.kind = "input"
    <3>1. Newdata(e)
      BY <1>1, <2>2 DEF CanHappen, CanInput
    <3>2. ChunkLen(x) = 0
      BY <1>3, <1>4, <3>1, ChunkHas
    <3> QED
      BY <1>4, <1>5, <3>2
  <2> QED
    BY <2>1, <2>2
<1>7. /\ Answer(Chunk(x)) \in AnswersOf(WebTokens) /\ Silent \in AnswersOf(WebTokens)
      /\ Silent = Answer(<<>>)
      /\ Chunk(x) \in Seq(WebTokens) /\ Len(Chunk(x)) = ChunkLen(x) /\ ChunkLen(x) <= AppMss
  BY <1>3, WebAnswers, Zenon
<1> HIDE DEF x, conn, p
<1>8. e.kind = "poll" => ~e.acks
  BY <1>1, EventHas
<1>9. a = Answer(Chunk(x)) /\ a \in AnswersOf(WebTokens)
  <2>1. CASE e.kind = "poll" /\ a = Silent
    <3>1. Chunk(x) = <<>>
      BY <1>6, <1>7, <1>8, <2>1, EmptySeq
    <3> QED
      BY <1>7, <2>1, <3>1, Zenon
  <2>2. CASE a = Answer(Chunk(x))
    BY <1>7, <2>2, Zenon
  <2> QED
    BY <2>1, <2>2, Zenon DEF x, p, AnswersRight
<1>a. a \in AnswersOf(WebTokens)
  BY <1>9
<1>10. LET after == After(conn.link, e, a).link
       IN  after.state = "open" /\ after.len = Len(Chunk(x)) /\ after.sent = Chunk(x)
  <2>1. conn.link.state = "open" /\ (e.acks \/ conn.link.len = 0)
    BY <1>6 DEF conn
  <2>2. LET after == After(conn.link, e, Answer(Chunk(x))).link
        IN  after.state = "open" /\ after.len = Len(Chunk(x)) /\ after.sent = Chunk(x)
    BY <1>1, <1>7, <2>1, LinkSends
  <2> QED
    BY <1>9, <2>2, Zenon
<1>11. After(conn.link, e, a).link.state # "none"
  BY <1>10
<1>12. /\ b \in WebConns /\ b.used = conn.used /\ b.page = conn.page
       /\ b.link = After(conn.link, e, a).link
       /\ b.got = IF e.acks THEN conn.got \o conn.link.sent ELSE conn.got
       /\ b.replied <=> conn.replied \/ Newdata(e)
       /\ ReplyLeft(b) = Drop(ReplyLeft(conn), Len(e.data))
  BY <1>1, <1>2, <1>a, <1>11, BecomesHas, Zenon DEF b
<1>13. b.link.len = ChunkLen(x) /\ b.link.sent = Chunk(x) /\ b.link.state = "open"
  BY <1>7, <1>10, <1>12, Zenon
<1>14. OpenIs(b, x, told.data \o p.data)
  <2>1. conn.link.state = "open"
    BY DEF conn
  <2> QED
    BY <1>1, <1>2, <1>12, <1>13, <2>1, OpenGoesOn, Zenon DEF x, p
<1>15. OpenIs(b, v, u.data)
  BY <1>14, OpenSame, Zenon DEF x, p, SameButTimer
<1>16. b.link.state # "none"
  BY <1>13
<1>17. Stands(b, v, u)
  BY <1>2, <1>12, <1>13, <1>15, <1>16, Zenon DEF Stands
<1> QED
  BY <1>1, <1>12, <1>17, Zenon DEF b, conn

-----------------------------------------------------------------------------
\* The text that has come with e is the beginning of the page's text.
LEMMA TextKeeps ==
    ASSUME WebInv, ~told.mixed, NEW c, NEW e, WebHappens(c, e), web.state # "CLOSE"
    PROVE  TextIs(told.data \o HandledBy(web, e).data, told.page)
<1> DEFINE conn == conns[c]
           p == HandledBy(web, e)
<1>1. /\ c \in WebSlots /\ e \in Events(WebReplyData)
      /\ conn \in WebConns /\ conn.used /\ CanHappen(conn.link, e) /\ Serves(conn, e)
      /\ web \in Webs /\ Len(web.line) <= WebLine /\ told.data \in Seq(WebTokens)
      /\ web.page \in WebPages /\ web.ptr + web.left = 5
      /\ TextIs(told.data, told.page)
  BY WebHas, Zenon
<1>2. ~Newdata(e) => p.data = <<>>
  BY EventHasTypes, Zenon
<1>3. CASE Newdata(e)
  <2>1. IsCurrent(conn)
    <3>1. SUFFICES ASSUME ~IsCurrent(conn)
                   PROVE  FALSE
      OBVIOUS
    <3>2. Silent \in AnswersOf(WebTokens)
      BY <1>1, WebAnswers, Zenon
    <3> QED
      BY <1>1, <1>3, <3>1, <3>2, OldEnds, Zenon
  <2>2. conn.link.state # "none"
    <3>1. e.kind \in {"input", "closed", "connected"} /\ e.kind # "connected"
      <4>1. e.kind # "connected"
        BY <1>1, <1>3, Zenon DEF Serves
      <4> QED
        BY <1>1, <1>3, <4>1, EventHas DEF Newdata
    <3> QED
      BY <1>1, <3>1 DEF CanHappen, CanInput, CanClose
  <2>3. /\ conn.page \in DOMAIN WebReplies /\ told.page = conn.page
        /\ OpenIs(conn, web, told.data)
    BY <2>1, <2>2, WebHas, Zenon
  <2>4. TextIs(told.data \o p.data, conn.page)
    BY <1>1, <2>3, ReplyGoesOn, Zenon
  <2> QED
    BY <2>3, <2>4, Zenon
<1>4. CASE ~Newdata(e)
  <2>1. told.data \o <<>> = told.data
    BY <1>1, ConcatEmptySeq
  <2> QED
    BY <1>1, <1>2, <1>4, <2>1, Zenon
<1> QED
  BY <1>3, <1>4

LEMMA TimerHas ==
    ASSUME NEW w \in Webs
    PROVE  /\ w.timer \in Nat /\ WebTimeout \in Nat
           /\ w.timer < WebTimeout => w.timer <= WebTimeout /\ w.timer # WebTimeout
<1>1. w.timer \in 0 .. WebWrap - 1 /\ WebWrap \in Nat /\ WebTimeout \in Nat
  BY WebAssumption DEF Webs
<1> QED
  BY <1>1

LEMMA TimerGoesOn ==
    ASSUME NEW w \in Webs, w.timer <= WebTimeout
    PROVE  /\ [w EXCEPT !.timer = Ticked(@)] \in Webs
           /\ [w EXCEPT !.timer = Ticked(@)].timer = Ticked(w.timer)
           /\ SameButTimer([w EXCEPT !.timer = Ticked(@)], w)
           /\ Ticked(w.timer) <= WebTimeout \/ w.timer = WebTimeout
           /\ w.timer < WebTimeout /\ Ticked(w.timer) # WebTimeout => Ticked(w.timer) < WebTimeout
<1>1. w.timer \in 0 .. WebWrap - 1 /\ WebWrap \in Nat /\ WebTimeout \in Nat /\ WebTimeout < WebWrap
  BY WebAssumption DEF Webs
<1>2. Ticked(w.timer) = (w.timer + 1) % WebWrap
  BY DEF Ticked
<1>3. Ticked(w.timer) \in 0 .. WebWrap - 1
  BY <1>1, <1>2
<1>4. w.timer < WebTimeout => Ticked(w.timer) = w.timer + 1
  <2> SUFFICES ASSUME w.timer < WebTimeout
               PROVE  Ticked(w.timer) = w.timer + 1
    OBVIOUS
  <2>1. w.timer + 1 \in 0 .. WebWrap - 1
    BY <1>1
  <2> QED
    BY <1>1, <1>2, <2>1
<1>5. /\ Ticked(w.timer) <= WebTimeout \/ w.timer = WebTimeout
      /\ w.timer < WebTimeout /\ Ticked(w.timer) # WebTimeout => Ticked(w.timer) < WebTimeout
  BY <1>1, <1>4
<1> DEFINE n == Ticked(w.timer)
<1> HIDE DEF n
<1>6. /\ [w EXCEPT !.timer = n] \in Webs /\ [w EXCEPT !.timer = n].timer = n
      /\ SameButTimer([w EXCEPT !.timer = n], w)
  BY <1>3 DEF Webs, SameButTimer, n
<1> QED
  BY <1>5, <1>6 DEF n

\* A call with anything but a connection or its end.
LEMMA EventKeeps ==
    ASSUME WebInv, ~told.mixed, NEW c, NEW e, WebHappens(c, e), WebEvent(c, e)
    PROVE  WebInv'
<1> DEFINE conn == conns[c]
           p == HandledBy(web, e)
           sends == e.kind = "rexmit" \/ Newdata(e) \/ e.acks
           a == IF p.abort \/ TooLong(e) THEN Abort
                ELSE IF sends THEN Answer(Chunk(p.web)) ELSE Silent
           b == Becomes(conn, e, a)
           v == IF e.kind = "poll" THEN [web EXCEPT !.timer = Ticked(@)] ELSE p.web
           u == [told EXCEPT !.data = @ \o p.data]
           cs == [conns EXCEPT ![c] = b]
<1>1. /\ web' = v /\ conns' = cs /\ told' = u /\ web.state # "CLOSE"
      /\ e.kind \in {"input", "rexmit", "poll", "aborted", "timedout"}
  <2>1. /\ web' = v /\ conns' = Happened(c, e, a) /\ told' = u /\ web.state # "CLOSE"
        /\ e.kind \in {"input", "rexmit", "poll", "aborted", "timedout"}
    BY HandledIs DEF WebEvent
  <2> QED
    BY <2>1, HappenedIs, Zenon
<1>2. /\ AreTyped(web, conns, told) /\ AreRight(web, conns, told)
      /\ c \in WebSlots /\ e \in Events(WebReplyData)
      /\ conn \in WebConns /\ conn.used /\ conn.link \in Links(WebTokens)
      /\ CanHappen(conn.link, e)
      /\ web \in Webs /\ Len(web.line) <= WebLine
      /\ web.page \in WebPages /\ web.ptr + web.left = 5 /\ told \in WebTolds /\ told.asked
      /\ web.timer <= WebTimeout
  BY WebHas, Zenon
<1>3. /\ p.web \in Webs /\ Len(p.web.line) <= WebLine
      /\ p.web.page \in WebPages /\ p.web.ptr + p.web.left = 5
      /\ p.web.timer <= WebTimeout
      /\ ~Newdata(e) => p.data = <<>> /\ ~p.abort
      /\ ~e.acks /\ ~Newdata(e) => p.web = web
      /\ u \in WebTolds /\ u.data = told.data \o p.data /\ u.page = told.page /\ u.asked = told.asked
      /\ u.mixed = told.mixed /\ (p.data = <<>> => u = told)
  BY EventHasTypes, Zenon
<1>4. TextIs(u.data, u.page)
  BY <1>1, <1>3, TextKeeps, Zenon
<1>5. p.web.timer = (IF e.acks \/ Newdata(e) THEN 0 ELSE web.timer)
  BY EventHasTypes, Zenon
<1> HIDE DEF p, u
<1>6. /\ Answer(Chunk(p.web)) \in AnswersOf(WebTokens)
      /\ Silent \in AnswersOf(WebTokens) /\ Abort \in AnswersOf(WebTokens) /\ Abort.abort
  BY <1>3, WebAnswers, Zenon
<1>7. a \in AnswersOf(WebTokens)
  BY <1>6
<1>8. e.kind \notin {"input"} => ~e.acks /\ ~Newdata(e)
  <2> SUFFICES ASSUME e.kind # "input"
               PROVE  ~e.acks /\ ~Newdata(e)
    OBVIOUS
  <2> QED
    BY <1>1, <1>2, EventHas DEF Newdata
<1>9. /\ v \in Webs /\ Len(v.line) <= WebLine /\ v.page \in WebPages /\ v.ptr + v.left = 5
      /\ SameButTimer(v, p.web)
  <2>1. CASE e.kind = "poll"
    <3>1. p.web = web /\ v = [web EXCEPT !.timer = Ticked(@)]
      BY <1>3, <1>8, <2>1
    <3> HIDE DEF v
    <3>2. v \in Webs /\ SameButTimer(v, web)
      BY <1>2, <3>1, TimerGoesOn, Zenon
    <3> QED
      BY <1>2, <3>1, <3>2 DEF SameButTimer
  <2>2. CASE e.kind # "poll"
    BY <1>3, <2>2 DEF SameButTimer
  <2> QED
    BY <2>1, <2>2
<1>10. CASE ~IsCurrent(conn)
  <2>1. /\ e.kind \in {"closed", "aborted", "timedout"} /\ ~e.acks /\ ~Newdata(e) /\ b = NoConn
    BY <1>2, <1>7, <1>10, OldEnds, Zenon
  <2>2. v = web /\ u = told
    BY <1>3, <2>1
  <2> HIDE DEF b, v
  <2>3. b \in WebConns /\ ~IsCurrent(b)
    BY <2>1, NoConnHas, Zenon
  <2>4. AreTyped(v, cs, u)
    BY <1>2, <1>3, <1>9, <2>1, <2>3, CallIsTyped, Zenon
  <2>5. AreRight(v, cs, u)
    BY <1>2, <2>2, <2>3, CallIsNothing, Zenon
  <2> QED
    BY <1>1, <2>4, <2>5, Zenon DEF WebInv, WebGood
<1>11. CASE IsCurrent(conn)
  <2>1. /\ conn.page \in DOMAIN WebReplies
        /\ conn.link.state # "none" =>
               /\ conn.link.state = "open" /\ web.timer < WebTimeout
               /\ told.page = conn.page /\ OpenIs(conn, web, told.data)
    BY <1>11, WebHas, Zenon
  <2>2. conn.link.state \in {"none", "open"}
    BY <2>1
  <2>3. CASE e.kind \in {"aborted", "timedout"} \/ (e.kind \in {"poll", "input"} /\ (p.abort \/ TooLong(e)))
    <3>1. e.kind \in {"closed", "aborted", "timedout"} \/ (e.kind \in {"poll", "input"} /\ a.abort)
      BY <1>6, <2>3
    <3> HIDE DEF a
    <3>2. b \in WebConns /\ (~b.used => b = NoConn) /\ ~IsCurrent(b)
      BY <1>2, <1>7, <1>11, <2>1, <2>2, <3>1, CallEnds, Zenon
    <3> HIDE DEF b
    <3>3. v.timer <= WebTimeout
      <4>1. CASE e.kind = "poll"
        <5>1. conn.link.state # "none"
          BY <1>2, <4>1 DEF CanHappen
        <5>2. web.timer < WebTimeout /\ v = [web EXCEPT !.timer = Ticked(@)]
          BY <2>1, <4>1, <5>1
        <5>3. v.timer = Ticked(web.timer) /\ (Ticked(web.timer) <= WebTimeout \/ web.timer = WebTimeout)
          BY <1>2, <5>2, TimerGoesOn, Zenon
        <5>4. web.timer # WebTimeout
          BY <1>2, <5>2, TimerHas
        <5> QED
          BY <5>3, <5>4, Zenon
      <4>2. CASE e.kind # "poll"
        BY <1>3, <4>2
      <4> QED
        BY <4>1, <4>2
    <3> HIDE DEF v
    <3>4. AreTyped(v, cs, u)
      BY <1>2, <1>3, <1>9, <3>2, CallIsTyped, Zenon
    <3>5. AreRight(v, cs, u)
      BY <1>2, <1>4, <1>11, <3>2, <3>3, CallIsRight, Zenon
    <3> QED
      BY <1>1, <3>4, <3>5, Zenon DEF WebInv, WebGood
  <2>4. CASE e.kind = "rexmit"
    <3>1. conn.link.state = "open" /\ conn.link.state # "none"
      BY <1>2, <2>4 DEF CanHappen
    <3>2. OpenIs(conn, web, told.data) /\ web.timer < WebTimeout /\ told.page = conn.page
      BY <2>1, <3>1, Zenon
    <3>3. v = web /\ u = told
      BY <1>3, <1>8, <2>4
    <3> HIDE DEF a
    <3>4. /\ b \in WebConns /\ b.used /\ b.link.state = "open" /\ b.page = conn.page
          /\ OpenIs(b, web, told.data)
      BY <1>2, <1>7, <2>1, <2>4, <3>1, <3>2, RexmitStands, Zenon
    <3> HIDE DEF b, v, conn
    <3>5. b.link.state # "none"
      BY <3>4
    <3>6. Stands(b, v, u)
      BY <2>1, <3>2, <3>3, <3>4, <3>5, Zenon DEF Stands
    <3>7. AreTyped(v, cs, u)
      BY <1>2, <1>3, <1>9, <3>4, CallIsTyped, Zenon DEF conn
    <3>8. AreRight(v, cs, u)
      BY <1>2, <1>4, <1>11, <3>3, <3>6, CallIsRight, Zenon DEF conn
    <3> QED
      BY <1>1, <3>7, <3>8, Zenon DEF WebInv, WebGood
  <2>5. CASE e.kind \in {"poll", "input"} /\ ~p.abort /\ ~TooLong(e)
    <3>1. conn.link.state = "open" /\ conn.link.state # "none"
      BY <1>2, <2>5 DEF CanHappen, CanInput
    <3>2. AnswersRight(e, a)
      <4>1. e.kind = "input" => sends
        BY <1>2 DEF CanHappen, CanInput
      <4>2. a = IF sends THEN Answer(Chunk(p.web)) ELSE Silent
        BY <2>5
      <4> HIDE DEF a, sends
      <4> QED
        BY <2>5, <4>1, <4>2 DEF AnswersRight, p
    <3>3. v.timer < WebTimeout
      <4>0. web.timer < WebTimeout
        BY <2>1, <3>1, Zenon
      <4>1. CASE e.kind = "poll"
        <5>1. Ticked(web.timer) # WebTimeout /\ v = [web EXCEPT !.timer = Ticked(@)]
          BY <2>5, <4>1 DEF TooLong
        <5>2. v.timer = Ticked(web.timer) /\ Ticked(web.timer) < WebTimeout
          BY <1>2, <4>0, <5>1, TimerGoesOn, Zenon
        <5> QED
          BY <5>2
      <4>2. CASE e.kind = "input"
        <5>1. v = p.web /\ (e.acks \/ Newdata(e))
          BY <1>2, <4>2 DEF CanHappen, CanInput
        <5>2. v.timer = 0
          BY <1>5, <5>1, Zenon
        <5> QED
          BY <5>2, WebAssumption
      <4> QED
        BY <2>5, <4>1, <4>2
    <3> HIDE DEF a, v
    <3>4. b \in WebConns /\ b.used /\ Stands(b, v, u)
      <4>1. /\ e.kind \in {"input", "poll"} /\ ~p.abort
            /\ u.data = told.data \o p.data /\ u.page = told.page /\ SameButTimer(v, p.web)
        BY <1>3, <1>9, <2>5
      <4> QED
        BY <1>1, <3>1, <3>2, <3>3, <4>1, OpenStands, Zenon DEF p
    <3> HIDE DEF b
    <3>5. AreTyped(v, cs, u)
      BY <1>2, <1>3, <1>9, <3>4, CallIsTyped, Zenon
    <3>6. v.timer <= WebTimeout
      BY <1>9, <3>3, TimerHas
    <3>7. AreRight(v, cs, u)
      BY <1>2, <1>4, <1>11, <3>4, <3>6, CallIsRight, Zenon
    <3> QED
      BY <1>1, <3>5, <3>7, Zenon DEF WebInv, WebGood
  <2> QED
    BY <1>1, <2>3, <2>4, <2>5
<1> QED
  BY <1>10, <1>11

-----------------------------------------------------------------------------
\* A page is asked for.
NewConn(page) == [NoConn EXCEPT !.used = TRUE, !.page = page]

LEMMA NewConnHas ==
    ASSUME NEW page \in WebPages
    PROVE  /\ NewConn(page) \in WebConns /\ NewConn(page).used /\ NewConn(page).page = page
           /\ NewConn(page).link.state = "none" /\ NewConn(page).got = <<>>
           /\ ~NewConn(page).replied /\ IsCurrent(NewConn(page))
<1>1. NoConn \in WebConns
  BY NoConnHas
<1>2. /\ NoConn.link = Link("none") /\ NoConn.got = <<>> /\ NoConn.replied = FALSE
      /\ Link("none").state = "none" /\ "none" # "last ack"
  BY DEF NoConn, Link
<1>3. /\ NewConn(page) \in WebConns /\ NewConn(page).used /\ NewConn(page).page = page
      /\ NewConn(page).link = NoConn.link /\ NewConn(page).got = NoConn.got
      /\ NewConn(page).replied = NoConn.replied
  BY <1>1 DEF NewConn, WebConns
<1> QED
  BY <1>2, <1>3 DEF IsCurrent

LEMMA InitHas ==
    ASSUME NEW x \in Webs, x.page \in WebPages
    PROVE  /\ InitConnection(x) \in Webs /\ InitConnection(x).page = x.page
           /\ InitConnection(x).ptr = 0 /\ InitConnection(x).left = 5
           /\ InitConnection(x).line = <<>> /\ InitConnection(x).timer = x.timer
<1>1. Len(Request(x.page)) = 5
  BY PagesArePages, RequestHas
<1> DEFINE r == Len(Request(x.page))
<1>2. InitConnection(x) = [x EXCEPT !.state = "STATUSLINE", !.line = <<>>, !.ptr = 0, !.left = r]
  BY DEF InitConnection
<1> HIDE DEF r
<1>3. <<>> \in Seq(WebTokens) /\ 0 \in 0 .. 5 /\ r = 5 /\ r \in 0 .. 5 /\ "STATUSLINE" \in WebStates
  BY <1>1 DEF r, WebStates
<1> QED
  BY <1>2, <1>3 DEF Webs

\* What webclient_get() gives.
Gets(w, cs, page, j, d) ==
    /\ d \in WebSlots /\ ~cs[d].used /\ page \in DOMAIN WebReplies
    /\ j.conns = [cs EXCEPT ![d] = NewConn(page)]
    /\ j.web \in Webs /\ Len(j.web.line) <= WebLine /\ j.web.page \in WebPages
    /\ j.web.ptr + j.web.left = 5 /\ j.web.timer = w.timer
    /\ \A t : Stands(NewConn(page), j.web, t)

LEMMA GetHas ==
    ASSUME NEW w \in Webs, NEW cs, NEW page \in WebPages,
           ~GetFails([web |-> w, conns |-> cs], page)
    PROVE  \E d \in WebSlots : Gets(w, cs, page, Get([web |-> w, conns |-> cs], page), d)
<1> DEFINE i == [web |-> w, conns |-> cs]
           j == Get(i, page)
           d == CHOOSE x \in FreeSlots(cs) : TRUE
           v == j.web
<1>1. i.web = w /\ i.conns = cs
  OBVIOUS
<1> HIDE DEF i
<1>2. page[1] \in WebKnown /\ FreeSlots(cs) # {}
  BY <1>1 DEF GetFails, i
<1>3. d \in FreeSlots(cs)
  BY <1>2
<1> HIDE DEF d
<1>4. d \in WebSlots /\ ~cs[d].used
  BY <1>3 DEF FreeSlots
<1>5. j = [web |-> InitConnection([w EXCEPT !.page = page]),
           conns |-> [cs EXCEPT ![d] = NewConn(page)]]
  BY <1>1 DEF Get, NewConn, d, i
<1> HIDE DEF j
<1>6. page \in DOMAIN WebReplies
  BY <1>2, WebAssumption DEF WebPages
<1>7. /\ v \in Webs /\ v.page = page /\ v.ptr = 0 /\ v.left = 5 /\ v.line = <<>> /\ v.timer = w.timer
  <2> DEFINE x == [w EXCEPT !.page = page]
  <2>1. x \in Webs /\ x.page = page /\ x.timer = w.timer
    BY DEF Webs
  <2> HIDE DEF x, v
  <2>3. v = InitConnection(x)
    BY <1>5 DEF x, v
  <2> QED
    BY <2>1, <2>3, InitHas
<1>8. Len(v.line) <= WebLine /\ v.ptr + v.left = 5
  BY <1>7, WebAssumption
<1>9. \A t : Stands(NewConn(page), v, t)
  BY <1>6, <1>7, NewConnHas, Zenon DEF Stands, OpeningIs
<1>10. j.conns = [cs EXCEPT ![d] = NewConn(page)]
  BY <1>5
<1> QED
  BY <1>4, <1>10, <1>6, <1>7, <1>8, <1>9, Zenon DEF Gets, v, j, i, d

\* The client is told that the connection is closed, and asks for another page
\* perhaps.
LEMMA ClosedKeeps ==
    ASSUME WebInv, ~told.mixed, NEW c, NEW e, WebHappens(c, e), WebClosed(c, e)
    PROVE  WebInv'
<1> DEFINE conn == conns[c]
           p == HandledBy(web, e)
           b == Becomes(conn, e, Silent)
           cs == [conns EXCEPT ![c] = b]
           i == [web |-> p.web, conns |-> cs]
           j == IF p.web.flag = "MOVED" THEN Get(i, p.web.page) ELSE i
           others == \E d \in WebSlots : d # c /\ conns[d].used
           n == [told EXCEPT !.data = @ \o p.data]
           u == [told EXCEPT !.data = @ \o p.data, !.mixed = @ \/ (j.conns # i.conns /\ others)]
<1>1. /\ web' = j.web /\ conns' = j.conns /\ told' = u /\ web.state # "CLOSE" /\ e.kind = "closed"
  BY HappenedIs, HandledIs DEF WebClosed
<1>2. /\ AreTyped(web, conns, told) /\ AreRight(web, conns, told)
      /\ c \in WebSlots /\ e \in Events(WebReplyData)
      /\ conn \in WebConns /\ conn.used /\ conn.link \in Links(WebTokens)
      /\ CanHappen(conn.link, e)
      /\ web \in Webs /\ Len(web.line) <= WebLine
      /\ web.page \in WebPages /\ web.ptr + web.left = 5 /\ told \in WebTolds /\ told.asked
      /\ web.timer <= WebTimeout
  BY WebHas, Zenon
<1>3. /\ p.web \in Webs /\ Len(p.web.line) <= WebLine
      /\ p.web.page \in WebPages /\ p.web.ptr + p.web.left = 5
      /\ p.web.timer <= WebTimeout
      /\ ~Newdata(e) => p.data = <<>> /\ ~p.abort
      /\ ~e.acks /\ ~Newdata(e) => p.web = web
      /\ n \in WebTolds /\ n.data = told.data \o p.data /\ n.page = told.page /\ n.asked = told.asked
      /\ n.mixed = told.mixed /\ (p.data = <<>> => n = told)
  BY EventHasTypes, Zenon
<1>4. TextIs(n.data, n.page)
  BY <1>1, <1>3, TextKeeps, Zenon
<1>5. /\ u.data = n.data /\ u.page = n.page /\ u.asked
      /\ u.mixed = (j.conns # i.conns /\ others)
      /\ u \in WebTolds
      /\ j.conns = i.conns => u = n
  <2> DEFINE m == j.conns # i.conns /\ others
             all == told.data \o p.data
  <2>1. all = n.data /\ all \in Seq(WebTokens)
    BY <1>3 DEF WebTolds
  <2>2. u = [told EXCEPT !.data = all, !.mixed = m] /\ n = [told EXCEPT !.data = all]
    BY ~told.mixed
  <2>3. m \in BOOLEAN /\ (j.conns = i.conns => m = FALSE)
    OBVIOUS
  <2> HIDE DEF m, all, u, n, j, i
  <2>4. u.data = all /\ u.page = told.page /\ u.asked = told.asked /\ u.mixed = m /\ u \in WebTolds
    BY <1>2, <2>1, <2>2, <2>3 DEF WebTolds
  <2>5. m = FALSE => u = n
    BY <1>2, <2>2 DEF WebTolds
  <2> QED
    BY <1>2, <1>3, <2>1, <2>3, <2>4, <2>5, Zenon DEF m
<1> HIDE DEF p, u, n
<1>6. Silent \in AnswersOf(WebTokens)
  BY <1>3, WebAnswers, Zenon
<1>7. b \in WebConns /\ (~b.used => b = NoConn) /\ ~IsCurrent(b)
  <2>1. CASE IsCurrent(conn)
    <3>1. /\ conn.page \in DOMAIN WebReplies
          /\ conn.link.state # "none" => conn.link.state = "open"
      BY <2>1, WebHas, Zenon
    <3>2. conn.link.state \in {"none", "open"} /\ e.kind \in {"closed", "aborted", "timedout"}
      BY <1>1, <3>1
    <3> QED
      BY <1>2, <1>6, <2>1, <3>1, <3>2, CallEnds, Zenon
  <2>2. CASE ~IsCurrent(conn)
    <3>1. b = NoConn
      BY <1>2, <1>6, <2>2, OldEnds, Zenon
    <3> QED
      BY <3>1, NoConnHas, Zenon
  <2> QED
    BY <2>1, <2>2
<1>8. cs \in [WebSlots -> WebConns] /\ (\A d \in WebSlots : cs[d] = IF d = c THEN b ELSE conns[d])
  <2>1. conns \in [WebSlots -> WebConns]
    BY <1>2 DEF AreTyped
  <2> HIDE DEF b
  <2> QED
    BY <1>7, <2>1
<1>9. AreTyped(p.web, cs, u)
  <2> HIDE DEF b, j, i
  <2> QED
    BY <1>2, <1>3, <1>5, <1>7, CallIsTyped, Zenon
<1>10. CASE j = i
  <2>1. web' = p.web /\ conns' = cs /\ told' = n
    BY <1>1, <1>5, <1>10
  <2>2. AreRight(p.web, cs, n)
    <3>1. CASE IsCurrent(conn)
      BY <1>2, <1>3, <1>4, <1>7, <3>1, CallIsRight, Zenon
    <3>2. CASE ~IsCurrent(conn)
      <4>1. ~e.acks /\ ~Newdata(e)
        BY <1>2, <1>6, <3>2, OldEnds, Zenon
      <4>2. p.web = web /\ n = told
        BY <1>3, <4>1, Zenon
      <4> QED
        BY <1>2, <1>7, <4>2, CallIsNothing, Zenon
    <3> QED
      BY <3>1, <3>2
  <2>3. u = n
    BY <1>5, <1>10
  <2> QED
    BY <1>9, <2>1, <2>2, <2>3, Zenon DEF WebInv, WebGood
<1>11. CASE j # i
  <2>1. j = Get(i, p.web.page) /\ ~GetFails(i, p.web.page)
    BY <1>11 DEF Get
  <2>2. PICK d \in WebSlots : Gets(p.web, cs, p.web.page, j, d)
    BY <1>3, <2>1, GetHas, Zenon
  <2> DEFINE new == NewConn(p.web.page)
             v == j.web
  <2>3. /\ d \in WebSlots /\ ~cs[d].used /\ j.conns = [cs EXCEPT ![d] = new]
        /\ v \in Webs /\ Len(v.line) <= WebLine /\ v.page \in WebPages
        /\ v.ptr + v.left = 5 /\ v.timer = p.web.timer /\ Stands(new, v, u)
    BY <2>2, Zenon DEF Gets
  <2>4. new \in WebConns /\ new.used
    BY <1>3, NewConnHas
  <2> HIDE DEF new, v
  <2>5. j.conns # i.conns
    <3>1. [cs EXCEPT ![d] = new][d] = new
      BY <1>8, <2>3
    <3>2. i.conns = cs
      OBVIOUS
    <3> HIDE DEF cs, i, j
    <3> QED
      BY <2>3, <2>4, <3>1, <3>2, Zenon
  <2> HIDE DEF j, i
  <2>6. AreTyped(v, [cs EXCEPT ![d] = new], u)
    <3> HIDE DEF cs
    <3> QED
      BY <1>5, <1>9, <2>3, <2>4, CallIsTyped, Zenon
  <2>7. ~u.mixed => AreRight(v, [cs EXCEPT ![d] = new], u)
    <3> SUFFICES ASSUME ~u.mixed
                 PROVE  AreRight(v, [cs EXCEPT ![d] = new], u)
      OBVIOUS
    <3>1. \A x \in WebSlots : x # c => ~conns[x].used
      BY <1>5, <2>5, Zenon
    <3>2. \A x \in WebSlots : IsCurrent(cs[x]) => x = d
      <4> SUFFICES ASSUME NEW x \in WebSlots
                   PROVE  ~IsCurrent(cs[x])
        OBVIOUS
      <4>1. CASE x = c
        BY <1>7, <1>8, <4>1
      <4>2. CASE x # c
        <5>1. cs[x] = conns[x] /\ ~conns[x].used
          BY <1>8, <3>1, <4>2
        <5> HIDE DEF cs
        <5> QED
          BY <5>1, Zenon DEF IsCurrent
      <4> QED
        BY <4>1, <4>2
    <3>3. v.timer <= WebTimeout /\ TextIs(u.data, u.page)
      BY <1>3, <1>4, <1>5, <2>3, Zenon
    <3> HIDE DEF cs
    <3> QED
      BY <1>8, <2>3, <3>2, <3>3, OnlyIsRight, Zenon
  <2>8. web' = v /\ conns' = [cs EXCEPT ![d] = new] /\ told' = u
    BY <1>1, <2>3, Zenon DEF v
  <2> HIDE DEF cs
  <2> QED
    BY <2>6, <2>7, <2>8, Zenon DEF WebInv, WebGood
<1> QED
  BY <1>10, <1>11

-----------------------------------------------------------------------------
\* The program asks for a page: there is no connection yet.
LEMMA GetKeeps ==
    ASSUME WebInv, ~told.mixed, WebGet
    PROVE  WebInv'
<1> DEFINE i == [web |-> web, conns |-> conns]
           u == [told EXCEPT !.asked = TRUE]
<1>1. /\ AreTyped(web, conns, told) /\ AreRight(web, conns, told) /\ ~told.asked
      /\ web.timer <= WebTimeout /\ TextIs(told.data, told.page)
  BY Zenon DEF WebInv, WebGood, AreRight, WebGet
<1>2. /\ web \in Webs /\ conns \in [WebSlots -> WebConns] /\ told \in WebTolds
      /\ \A c \in WebSlots : ~conns[c].used
  BY <1>1, Zenon DEF AreTyped
<1>3. PICK page \in DOMAIN WebReplies :
          /\ ~GetFails(i, page) /\ web' = Get(i, page).web /\ conns' = Get(i, page).conns
          /\ told' = u
  BY Zenon DEF WebGet
<1>4. page \in WebPages
  BY DEF WebPages
<1> DEFINE j == Get(i, page)
           new == NewConn(page)
           v == j.web
<1>5. PICK d \in WebSlots : Gets(web, conns, page, j, d)
  BY <1>2, <1>3, <1>4, GetHas, Zenon
<1>6. /\ j.conns = [conns EXCEPT ![d] = new]
      /\ v \in Webs /\ Len(v.line) <= WebLine /\ v.page \in WebPages
      /\ v.ptr + v.left = 5 /\ v.timer = web.timer /\ Stands(new, v, u)
  BY <1>5, Zenon DEF Gets
<1>7. web' = v /\ conns' = [conns EXCEPT ![d] = new] /\ told' = u
  BY <1>3, <1>6, Zenon
<1>8. new \in WebConns /\ new.used
  BY <1>4, NewConnHas
<1>9. u \in WebTolds /\ u.asked /\ u.data = told.data /\ u.page = told.page
  BY <1>2 DEF WebTolds
<1> HIDE DEF i, j, u, v, new
<1>10. AreTyped(v, [conns EXCEPT ![d] = new], u)
  BY <1>1, <1>6, <1>8, <1>9, CallIsTyped, Zenon
<1>11. AreRight(v, [conns EXCEPT ![d] = new], u)
  <2>1. \A x \in WebSlots : IsCurrent(conns[x]) => x = d
    BY <1>2, Zenon DEF IsCurrent
  <2>2. v.timer <= WebTimeout /\ TextIs(u.data, u.page)
    BY <1>1, <1>6, <1>9, Zenon
  <2> QED
    BY <1>2, <1>6, <2>1, <2>2, OnlyIsRight, Zenon
<1> QED
  BY <1>7, <1>10, <1>11, Zenon DEF WebInv, WebGood

\* The program gives the page up.
LEMMA CloseKeeps ==
    ASSUME WebInv, ~told.mixed, WebClose
    PROVE  WebInv'
<1> DEFINE v == [web EXCEPT !.state = "CLOSE"]
<1>1. AreTyped(web, conns, told) /\ AreRight(web, conns, told)
  BY Zenon DEF WebInv, WebGood
<1>2. web' = v /\ conns' = conns /\ told' = told
  BY DEF WebClose
<1>3. /\ v \in Webs /\ v.state = "CLOSE" /\ v.ptr = web.ptr /\ v.left = web.left
      /\ v.page = web.page /\ v.line = web.line /\ v.timer = web.timer
  <2>1. web \in Webs /\ "CLOSE" \in WebStates
    BY <1>1 DEF AreTyped, WebStates
  <2> QED
    BY <2>1 DEF Webs
<1> HIDE DEF v
<1>4. AreTyped(v, conns, told)
  BY <1>1, <1>3 DEF AreTyped
<1>5. ASSUME NEW conn, Stands(conn, web, told)
      PROVE  Stands(conn, v, told)
  <2>1. OpeningIs(conn, web) => OpeningIs(conn, v)
    BY <1>3, Zenon DEF OpeningIs
  <2>2. OpenIs(conn, web, told.data) => OpenIs(conn, v, told.data)
    BY <1>3, OpenSame, Zenon
  <2> QED
    BY <1>3, <1>5, <2>1, <2>2, Zenon DEF Stands
<1>6. AreRight(v, conns, told)
  BY <1>1, <1>3, <1>5, Zenon DEF AreRight
<1> QED
  BY <1>2, <1>4, <1>6, Zenon DEF WebInv, WebGood

LEMMA WebBegins == WebInit => WebInv
<1> SUFFICES ASSUME WebInit PROVE WebInv
  OBVIOUS
<1>1. /\ web.state = "STATUSLINE" /\ web.flag = "NONE" /\ web.timer = 0 /\ web.page = <<"", "">>
      /\ web.left = 0 /\ web.ptr = 0 /\ web.line = <<>>
  BY DEF WebInit
<1>2. /\ 0 \in 0 .. WebWrap - 1 /\ 0 <= WebTimeout /\ 0 \in 0 .. 5 /\ 0 <= WebLine
      /\ <<>> \in Seq(WebTokens) /\ "STATUSLINE" \in WebStates /\ Len(<<>>) = 0
  BY WebAssumption DEF WebStates
<1>3. web \in Webs /\ Len(web.line) <= WebLine
  <2> DEFINE none == <<"", "">>
             no == 0
             line == <<>>
  <2>1. /\ none \in WebPages \cup {none}
        /\ no \in 0 .. WebWrap - 1 /\ no \in 0 .. 5 /\ line \in Seq(WebTokens)
    BY <1>2
  <2>2. web = [state |-> "STATUSLINE", flag |-> "NONE", timer |-> no, page |-> none,
               left |-> no, ptr |-> no, line |-> line]
    BY DEF WebInit
  <2> HIDE DEF none, no, line
  <2>3. web \in [state : WebStates, flag : {"NONE", "OK", "MOVED"}, timer : 0 .. WebWrap - 1,
                 page : WebPages \cup {none}, left : 0 .. 5, ptr : 0 .. 5, line : Seq(WebTokens)]
    BY <1>2, <2>1, <2>2
  <2>4. web \in Webs
    BY <2>3 DEF Webs, none
  <2> QED
    BY <1>1, <1>2, <2>4
<1>4. /\ told.data = <<>> /\ told.asked = FALSE /\ told.mixed = FALSE /\ told \in WebTolds
  <2> DEFINE none == <<"", "">>
             empty == <<>>
  <2>1. none \in WebPages \cup {none} /\ empty \in Seq(WebTokens)
    BY <1>2
  <2>2. told = [data |-> empty, page |-> none, asked |-> FALSE, mixed |-> FALSE]
    BY DEF WebInit
  <2> HIDE DEF none, empty
  <2>3. told \in [data : Seq(WebTokens), page : WebPages \cup {none}, asked : BOOLEAN, mixed : BOOLEAN]
    BY <2>1, <2>2
  <2>4. told.data = empty /\ told.asked = FALSE /\ told.mixed = FALSE
    BY <2>2
  <2> QED
    BY <2>3, <2>4 DEF WebTolds, none, empty
<1>5. conns = [c \in WebSlots |-> NoConn]
  BY DEF WebInit
<1>6. NoConn \in WebConns /\ ~NoConn.used /\ ~IsCurrent(NoConn)
  BY NoConnHas
<1>7. conns \in [WebSlots -> WebConns] /\ \A c \in WebSlots : conns[c] = NoConn
  BY <1>5, <1>6
<1>8. AreTyped(web, conns, told)
  BY <1>3, <1>4, <1>6, <1>7, Zenon DEF AreTyped
<1>9. AreRight(web, conns, told)
  <2>1. TextIs(told.data, told.page)
    BY <1>4 DEF TextIs
  <2>2. web.timer <= WebTimeout
    BY <1>1, <1>2
  <2> QED
    BY <1>6, <1>7, <2>1, <2>2, Zenon DEF AreRight
<1> QED
  BY <1>8, <1>9, Zenon DEF WebInv, WebGood

LEMMA WebGoesOn == WebInv /\ [WebNext]_webVars => WebInv'
<1> SUFFICES ASSUME WebInv, [WebNext]_webVars
             PROVE  WebInv'
  OBVIOUS
<1>1. CASE UNCHANGED webVars
  <2>1. web' = web /\ conns' = conns /\ told' = told
    BY <1>1 DEF webVars
  <2> QED
    BY <2>1, Zenon DEF WebInv
<1>2. CASE WebNext
  <2>1. ~told.mixed
    BY <1>2 DEF WebNext
  <2>2. CASE WebAppcall
    <3>1. PICK c \in WebSlots, e \in Events(WebReplyData) :
              /\ WebHappens(c, e)
              /\ WebConnected(c, e) \/ WebCloses(c, e) \/ WebEvent(c, e) \/ WebClosed(c, e)
      BY <2>2, Zenon DEF WebAppcall, WebHappens
    <3>2. CASE WebConnected(c, e)
      BY <2>1, <3>1, <3>2, ConnectedKeeps, Zenon
    <3>3. CASE WebCloses(c, e)
      BY <2>1, <3>1, <3>3, ClosesKeeps, Zenon
    <3>4. CASE WebEvent(c, e)
      BY <2>1, <3>1, <3>4, EventKeeps, Zenon
    <3>5. CASE WebClosed(c, e)
      BY <2>1, <3>1, <3>5, ClosedKeeps, Zenon
    <3> QED
      BY <3>1, <3>2, <3>3, <3>4, <3>5, Zenon
  <2>3. CASE WebGet
    BY <2>1, <2>3, GetKeeps, Zenon
  <2>4. CASE WebClose
    BY <2>1, <2>4, CloseKeeps, Zenon
  <2> QED
    BY <1>2, <2>2, <2>3, <2>4, Zenon DEF WebNext
<1> QED
  BY <1>1, <1>2

\* At most one connection of the web client is not closed by its server, and on
\* that one the client's pointer into the request, its line and its state are
\* what the request that was acknowledged and the reply that came say.
THEOREM WebInvariantHolds == WebSpec => []WebInv
<1>1. WebInit => WebInv
  BY WebBegins
<1>2. WebInv /\ [WebNext]_webVars => WebInv'
  BY WebGoesOn
<1> QED
  BY <1>1, <1>2, PTL DEF WebSpec

LEMMA WebIsTyped == WebInv => WebTypeOK
<1> SUFFICES ASSUME WebInv PROVE WebTypeOK
  OBVIOUS
<1>1. AreTyped(web, conns, told) /\ (~told.mixed => web.timer <= WebTimeout)
  BY Zenon DEF WebInv, WebGood, AreRight
<1>2. /\ web \in Webs /\ Len(web.line) <= WebLine
      /\ \A c \in WebSlots : conns[c].used \/ conns[c] = NoConn
      /\ told.asked => web.page \in WebPages /\ web.ptr + web.left = 5
  BY <1>1, Zenon DEF AreTyped
<1>3. web.timer \in 0 .. WebWrap - 1 /\ web.state \in WebStates
  BY <1>2 DEF Webs
<1>4. told.asked => web.ptr + web.left = Len(Request(web.page))
  <2> SUFFICES ASSUME told.asked
               PROVE  web.ptr + web.left = Len(Request(web.page))
    OBVIOUS
  <2>1. Len(Request(web.page)) = 5
    BY <1>2, PagesArePages, RequestHas
  <2> QED
    BY <1>2, <2>1, Zenon
<1> QED
  BY <1>1, <1>2, <1>3, <1>4, Zenon DEF WebTypeOK, WebStates

\* The web client's timer is within one byte and within the timeout, its line
\* within the buffer, and its pointer and what is left of the request add up.
THEOREM WebTypesHold == WebSpec => []WebTypeOK
<1>1. WebInv => WebTypeOK
  BY WebIsTyped
<1> QED
  BY <1>1, WebInvariantHolds, PTL

\* What is outstanding on an open connection goes on where the server is.
LEMMA OpenIsPrefix ==
    ASSUME NEW conn, conn.page \in DOMAIN WebReplies,
           NEW w \in Webs, w.page \in WebPages, w.ptr + w.left = 5,
           NEW data, OpenIs(conn, w, data)
    PROVE  IsPrefix(conn.got \o conn.link.sent, Request(conn.page))
<1> DEFINE r == Request(conn.page)
           k == w.ptr
           n == w.ptr + ChunkLen(w)
<1>1. r \in Seq(WebTokens) /\ Len(r) = 5
  BY ReplyIsTokens, RequestHas
<1>2. k \in Nat /\ n \in Nat /\ k <= n /\ n <= Len(r)
  <2>1. w.ptr \in 0 .. 5 /\ ChunkLen(w) \in Nat /\ w.ptr + ChunkLen(w) \in 0 .. 5
    BY ChunkHas
  <2> QED
    BY <1>1, <2>1
<1>3. conn.got = SubSeq(r, 1, k) /\ conn.link.sent = SubSeq(r, k + 1, n)
  BY Zenon DEF OpenIs
<1> HIDE DEF r, k, n
<1>4. conn.got \o conn.link.sent = SubSeq(r, 1, n)
  BY <1>1, <1>2, <1>3, FrontsAdd
<1> QED
  BY <1>1, <1>2, <1>4, FrontIsPrefix DEF r

LEMMA WebIsRight == WebInv => DataIsRight
<1> SUFFICES ASSUME WebInv, ~told.mixed
             PROVE  /\ told.data = <<>> \/ \E text \in Body(told.page) : IsPrefix(told.data, text)
                    /\ \A c \in WebSlots : conns[c].link.state = "open" =>
                           IsPrefix(conns[c].got \o conns[c].link.sent, Request(conns[c].page))
  BY Zenon DEF DataIsRight
<1>1. /\ AreTyped(web, conns, told) /\ TextIs(told.data, told.page)
      /\ \A c \in WebSlots : IsCurrent(conns[c]) => Stands(conns[c], web, told)
  BY Zenon DEF WebInv, WebGood, AreRight
<1>2. told.data = <<>> \/ \E text \in Body(told.page) : IsPrefix(told.data, text)
  BY <1>1, Zenon DEF TextIs
<1>3. ASSUME NEW c \in WebSlots, conns[c].link.state = "open"
      PROVE  IsPrefix(conns[c].got \o conns[c].link.sent, Request(conns[c].page))
  <2>1. conns[c].link.state # "none" /\ conns[c].link.state # "last ack"
    BY <1>3
  <2>2. conns[c].used
    <3>1. NoConn.link.state = "none"
      BY DEF NoConn, Link
    <3> QED
      BY <1>1, <2>1, <3>1, Zenon DEF AreTyped
  <2>3. /\ conns[c].page \in DOMAIN WebReplies /\ OpenIs(conns[c], web, told.data)
        /\ web \in Webs /\ web.page \in WebPages /\ web.ptr + web.left = 5
    BY <1>1, <2>1, <2>2, Zenon DEF AreTyped, IsCurrent, Stands
  <2> QED
    BY <2>3, OpenIsPrefix, Zenon
<1> QED
  BY <1>2, <1>3, Zenon

\* As long as no second connection has asked for a page while the first is being
\* closed, the program gets the text of the page its connection is for, from the
\* beginning and nothing else, whatever pieces the reply comes in, and the server
\* gets a beginning of the request, whatever was sent again: parse_headers(),
\* senddata() and acked() keep one static state for all connections.
THEOREM WebDataIsRight == WebSpec => []DataIsRight
<1>1. WebInv => DataIsRight
  BY WebIsRight
<1> QED
  BY <1>1, WebInvariantHolds, PTL

=============================================================================
