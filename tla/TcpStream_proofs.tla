--------------------------- MODULE TcpStream_proofs ---------------------------
(***************************************************************************)
(* The application gets the peer's stream as ReliableStream says: in       *)
(* order, each byte once and the end last, and the peer is told that bytes *)
(* have arrived only if they have.  For streams of any length, sequence    *)
(* numbers of any width that tells old bytes from new ones, any segment    *)
(* size, and a network that loses, repeats and reorders as much as it      *)
(* likes.  The sending side, with its protosocket, stays within its bounds *)
(* whatever windows the peer advertises (SendInv); and as long as they     *)
(* have room for what is out, the message gets to the peer as              *)
(* ReliableStream says, too (OutInv).                                      *)
(***************************************************************************)
EXTENDS TcpStream, SequenceTheorems, FiniteSetTheorems, TLAPS

UipFields == {"state", "snd_nxt", "rcv_nxt", "len", "mss", "nrtx"}
IsUip(u) == u = [f \in UipFields |-> u[f]]
IsHeard(h) == h = [f \in {"got", "fin"} |-> h[f]]
IsPeer(p) == p = [f \in {"rcv_nxt", "got", "unread", "fin", "una", "sent"} |-> p[f]]

\* uIP's application has closed, or the connection is gone.
Abandoned == uip.state \notin {"ESTABLISHED", "LAST_ACK"}

\* The sequence number of the peer's byte k + 1.
At(k) == Add32(IRS, k)

Bit(b) == IF b THEN 1 ELSE 0

Written == Least(peer.sent, PeerLen)

-----------------------------------------------------------------------------
(* Sequence numbers                                                        *)

\* The remainder of a number that is at most one turn away.
LEMMA Remainder ==
    ASSUME NEW M \in Nat, M > 0, NEW x \in Int, -M <= x, x < 2 * M
    PROVE  x % M = IF x < 0 THEN x + M ELSE IF x < M THEN x ELSE x - M
<1>1. CASE x < 0
  BY <1>1, SMT
<1>2. CASE 0 <= x /\ x < M
  BY <1>2, SMT
<1>3. CASE M <= x
  BY <1>3, SMT
<1> QED
  BY <1>1, <1>2, <1>3

\* Positions of the stream and the end after it have sequence numbers of their
\* own.
LEMMA AtIs ==
    ASSUME NEW k \in 0 .. PeerLen + 2
    PROVE  At(k) = IF IRS + k < SeqMod THEN IRS + k ELSE IRS + k - SeqMod
<1> DEFINE x == IRS + k
<1>1. /\ SeqMod \in Nat /\ SeqMod > 0 /\ x \in Int
      /\ -SeqMod <= x /\ x < 2 * SeqMod /\ ~(x < 0)
  BY StreamAssumption, SMT
<1> HIDE DEF x
<1>2. x % SeqMod = IF x < SeqMod THEN x ELSE x - SeqMod
  BY <1>1, Remainder
<1>3. At(k) = x % SeqMod
  BY DEF At, Add32, x
<1>4. x = IRS + k
  BY DEF x
<1>5. At(k) = IF x < SeqMod THEN x ELSE x - SeqMod
  BY <1>2, <1>3
<1> QED
  BY <1>1, <1>4, <1>5, StreamAssumption, SMT

LEMMA AtIsInjective ==
    ASSUME NEW j \in 0 .. PeerLen + 2, NEW k \in 0 .. PeerLen + 2, At(j) = At(k)
    PROVE  j = k
BY AtIs, StreamAssumption, SMT

\* rcv_nxt after n more.
LEMMA AtGoesOn ==
    ASSUME NEW k \in 0 .. PeerLen + 2, NEW n \in 0 .. PeerLen + 2, k + n <= PeerLen + 2
    PROVE  Add32(At(k), n) = At(k + n)
<1> DEFINE a == At(k)
           x == a + n
<1>1. /\ a = IF IRS + k < SeqMod THEN IRS + k ELSE IRS + k - SeqMod
      /\ At(k + n) = IF IRS + (k + n) < SeqMod THEN IRS + (k + n) ELSE IRS + (k + n) - SeqMod
  BY AtIs, StreamAssumption, SMT
<1> HIDE DEF a
<1>2. /\ SeqMod \in Nat /\ SeqMod > 0 /\ x \in Int /\ ~(x < 0)
      /\ -SeqMod <= x /\ x < 2 * SeqMod
  BY <1>1, StreamAssumption, SMT
<1>3. x % SeqMod = IF x < SeqMod THEN x ELSE x - SeqMod
  BY <1>2, Remainder
<1>4. x % SeqMod = At(k + n)
  BY <1>1, <1>3, StreamAssumption, SMT
<1> QED
  BY <1>4 DEF Add32, a

\* How far an acknowledgement is ahead of the last; one that is behind seems a
\* long way ahead.
LEMMA AtIsAhead ==
    ASSUME NEW j \in 0 .. PeerLen + 2, NEW k \in 0 .. PeerLen + 2
    PROVE  Sub32(At(k), At(j)) = IF j <= k THEN k - j ELSE k - j + SeqMod
<1> DEFINE a == At(j)
           b == At(k)
           x == b - a
<1>1. /\ a = IF IRS + j < SeqMod THEN IRS + j ELSE IRS + j - SeqMod
      /\ b = IF IRS + k < SeqMod THEN IRS + k ELSE IRS + k - SeqMod
  BY AtIs
<1> HIDE DEF a, b
<1>2. /\ SeqMod \in Nat /\ SeqMod > 0 /\ x \in Int
      /\ -SeqMod <= x /\ x < 2 * SeqMod
  BY <1>1, StreamAssumption, SMT
<1>3. x % SeqMod = IF x < 0 THEN x + SeqMod ELSE IF x < SeqMod THEN x ELSE x - SeqMod
  BY <1>2, Remainder
<1>4. x % SeqMod = IF j <= k THEN k - j ELSE k - j + SeqMod
  BY <1>1, <1>3, StreamAssumption, SMT
<1> QED
  BY <1>4 DEF Sub32, a, b

-----------------------------------------------------------------------------
(* The stream                                                              *)

Part(from, n) == SubSeq(PeerMessage, from + 1, from + n)

LEMMA PartIs ==
    ASSUME NEW from \in Nat, NEW n \in Nat, from + n <= PeerLen
    PROVE  /\ Part(from, n) \in Seq(Nat) /\ Len(Part(from, n)) = n
           /\ \A i \in 1 .. n : Part(from, n)[i] = from + i
<1>1. \A i \in from + 1 .. from + n : PeerMessage[i] = i /\ PeerMessage[i] \in Nat
  BY StreamAssumption, SMT DEF PeerMessage
<1>2. /\ Part(from, n) \in Seq(Nat)
      /\ Len(Part(from, n)) = IF from + 1 <= from + n THEN from + n - (from + 1) + 1 ELSE 0
      /\ \A i \in 1 .. from + n - (from + 1) + 1 :
            Part(from, n)[i] = PeerMessage[from + 1 + i - 1]
  BY <1>1, SubSeqProperties DEF Part
<1>3. Len(Part(from, n)) = n
  BY <1>2, SMT
<1>4. ASSUME NEW i \in 1 .. n PROVE Part(from, n)[i] = from + i
  <2>1. i \in 1 .. from + n - (from + 1) + 1 /\ from + 1 + i - 1 = from + i
        /\ from + i \in from + 1 .. from + n
    BY SMT
  <2> QED
    BY <1>1, <1>2, <2>1
<1> QED
  BY <1>2, <1>3, <1>4

\* What comes next in the stream, put behind what has come, is the stream so far.
LEMMA PartsJoin ==
    ASSUME NEW k \in Nat, NEW n \in Nat, k + n <= PeerLen
    PROVE  Part(0, k) \o Part(k, n) = Part(0, k + n)
<1> DEFINE s == Part(0, k)
           t == Part(k, n)
           u == Part(0, k + n)
<1>1. /\ s \in Seq(Nat) /\ Len(s) = k /\ \A i \in 1 .. k : s[i] = i
      /\ t \in Seq(Nat) /\ Len(t) = n /\ \A i \in 1 .. n : t[i] = k + i
      /\ u \in Seq(Nat) /\ Len(u) = k + n /\ \A i \in 1 .. k + n : u[i] = i
  <2>1. /\ 0 \in Nat /\ 0 + k <= PeerLen /\ k + n \in Nat /\ 0 + (k + n) <= PeerLen
        /\ \A i \in Nat : 0 + i = i
    BY StreamAssumption, SMT
  <2>2. s \in Seq(Nat) /\ Len(s) = k /\ \A i \in 1 .. k : s[i] = 0 + i
    BY <2>1, PartIs
  <2>3. t \in Seq(Nat) /\ Len(t) = n /\ \A i \in 1 .. n : t[i] = k + i
    BY PartIs
  <2>4. u \in Seq(Nat) /\ Len(u) = k + n /\ \A i \in 1 .. k + n : u[i] = 0 + i
    BY <2>1, PartIs
  <2> HIDE DEF s, t, u
  <2> QED
    BY <2>1, <2>2, <2>3, <2>4, SMT
<1> HIDE DEF s, t, u
<1>2. /\ s \o t \in Seq(Nat) /\ Len(s \o t) = k + n
      /\ \A i \in 1 .. k + n : (s \o t)[i] = IF i <= k THEN s[i] ELSE t[i - k]
  <2>1. /\ s \o t \in Seq(Nat) /\ Len(s \o t) = Len(s) + Len(t)
        /\ \A i \in 1 .. Len(s) + Len(t) :
              (s \o t)[i] = IF i <= Len(s) THEN s[i] ELSE t[i - Len(s)]
    BY <1>1, ConcatProperties
  <2> QED
    BY <1>1, <2>1, Zenon
<1>3. ASSUME NEW i \in 1 .. k + n PROVE (s \o t)[i] = u[i]
  <2>1. CASE i <= k
    BY <1>1, <1>2, <2>1, SMT
  <2>2. CASE ~(i <= k)
    <3>1. i - k \in 1 .. n /\ k + (i - k) = i
      BY <2>2, SMT
    <3> QED
      BY <1>1, <1>2, <2>2, <3>1
  <2> QED
    BY <2>1, <2>2
<1>4. s \o t = u
  BY <1>1, <1>2, <1>3, SeqEqual
<1> QED
  BY <1>4 DEF s, t, u

LEMMA EmptyPart ==
    ASSUME NEW k \in Nat, NEW j \in Nat
    PROVE  Part(k, 0) = Part(j, 0)
<1>1. Part(k, 0) = << >>
  BY SubSeqEmpty, SMT DEF Part
<1>2. Part(j, 0) = << >>
  BY SubSeqEmpty, SMT DEF Part
<1> QED
  BY <1>1, <1>2

-----------------------------------------------------------------------------
(* The invariant                                                           *)

Shapes == IsUip(uip) /\ IsHeard(heard) /\ IsPeer(peer)

SentInRange == peer.sent \in 0 .. PeerLen + 1 /\ peer.una \in 0 .. peer.sent

\* What the application has heard is the beginning of the stream, and the end
\* only after all of it.
HeardIsRight ==
    /\ Len(heard.got) \in 0 .. PeerLen /\ Len(heard.got) <= peer.sent
    /\ heard.got = Part(0, Len(heard.got))
    /\ heard.fin \in BOOLEAN
    /\ heard.fin => peer.sent = PeerLen + 1
    /\ uip.state = "ESTABLISHED" => ~heard.fin
    /\ uip.state = "LAST_ACK" => heard.fin /\ Len(heard.got) = PeerLen

\* rcv_nxt is the number of byte r + 1, or of the end; as long as uIP has not
\* closed this is what the application has heard.  Nothing in flight says more,
\* and the peer does not know of more.
Position(r) ==
    /\ peer.una <= r /\ r <= peer.sent
    /\ uip.rcv_nxt = At(r)
    /\ ~Abandoned => r = Len(heard.got) + Bit(heard.fin)
    /\ \A sg \in toPeer : \E a \in 0 .. r : sg.ack = At(a)

\* A segment of the peer: n bytes from byte from + 1 on, and perhaps the end.
IsSegment(sg, from, n) ==
    /\ from + n <= PeerLen
    /\ sg.seq = At(from) /\ sg.data = Part(from, n) /\ sg.fin \in BOOLEAN
    /\ sg.fin => from + n = PeerLen
    /\ from + n + Bit(sg.fin) <= peer.sent

SegmentsAreRight == \A sg \in toUip : \E from, n \in 0 .. PeerLen : IsSegment(sg, from, n)

IInv ==
    /\ Shapes
    /\ SentInRange
    /\ HeardIsRight
    /\ SegmentsAreRight
    /\ \E r \in 0 .. PeerLen + 1 : Position(r)

\* What every step does to the abstract stream.
Moves ==
    /\ peer.sent <= peer'.sent
    /\ peer.una <= peer'.una
    /\ peer'.una = peer.una \/ (UNCHANGED <<uip, heard>> /\ peer'.una <= peer.sent)
    /\ Len(heard.got) <= Len(heard'.got) /\ Len(heard'.got) <= peer.sent
    /\ heard.fin => heard'.got = heard.got /\ heard'.fin
    /\ heard'.fin => heard.fin \/ Abandoned \/ (Len(heard'.got) = PeerLen /\ peer.sent = PeerLen + 1)
    /\ Abandoned => Abandoned'

\* A step of uIP that takes nothing in.
Quiet ==
    /\ IsUip(uip') /\ uip'.rcv_nxt = uip.rcv_nxt
    /\ UNCHANGED <<heard, peer>> /\ toUip' \subseteq toUip
    /\ uip'.state = uip.state \/ Abandoned'
    /\ Abandoned => Abandoned'
    /\ \A sg \in toPeer' : sg \in toPeer \/ sg.ack = uip.rcv_nxt

\* A step of uIP that takes segment sg in, with its end of the stream, or throws
\* it away after uIP has closed.
Takes(sg) ==
    /\ IsUip(uip') /\ IsHeard(heard')
    /\ UNCHANGED peer /\ toUip' \subseteq toUip
    /\ InOrder(uip, sg)
    /\ uip'.rcv_nxt = IF sg.fin /\ Abandoned THEN Add32(Add32(uip.rcv_nxt, Len(sg.data)), 1)
                      ELSE Add32(uip.rcv_nxt, Len(sg.data) + Bit(sg.fin))
    /\ \A s \in toPeer' : s \in toPeer \/ s.ack = uip'.rcv_nxt
    /\ \/ /\ uip.state = "ESTABLISHED" /\ ~sg.fin
          /\ heard'.got = heard.got \o sg.data /\ heard'.fin = heard.fin
          /\ uip'.state = "ESTABLISHED" \/ Abandoned'
       \/ /\ uip.state = "ESTABLISHED" /\ sg.fin
          /\ heard'.got = heard.got \o sg.data /\ heard'.fin = TRUE
          /\ uip'.state = "LAST_ACK"
       \/ /\ Abandoned /\ Abandoned'
          /\ heard'.got = heard.got /\ heard'.fin = (heard.fin \/ sg.fin)

-----------------------------------------------------------------------------
(* The invariant is kept by each kind of step                              *)

LEMMA QuietKeeps ==
    ASSUME IInv, Quiet
    PROVE  IInv' /\ Moves
<1>1. PICK r \in 0 .. PeerLen + 1 : Position(r)
  BY DEF IInv
<1>2. Shapes' /\ SentInRange' /\ SegmentsAreRight'
  BY DEF IInv, Quiet, Shapes, SentInRange, SegmentsAreRight, IsSegment
<1>3. HeardIsRight'
  BY DEF IInv, Quiet, HeardIsRight, Abandoned
<1>4. Position(r)'
  <2>1. ASSUME NEW sg \in toPeer' PROVE \E a \in 0 .. r : sg.ack = At(a)
    <3>1. CASE sg \in toPeer
      BY <1>1, <3>1 DEF Position
    <3>2. CASE sg.ack = uip.rcv_nxt
      <4>1. r \in 0 .. r /\ sg.ack = At(r)
        BY <1>1, <3>2, StreamAssumption, SMT DEF Position
      <4> QED
        BY <4>1
    <3> QED
      BY <3>1, <3>2 DEF Quiet
  <2> QED
    BY <1>1, <2>1 DEF Position, Quiet, Abandoned
<1>5. Moves
  BY StreamAssumption, SMT DEF IInv, SentInRange, HeardIsRight, Quiet, Moves
<1> QED
  BY <1>1, <1>2, <1>3, <1>4, <1>5 DEF IInv

LEMMA TakesKeeps ==
    ASSUME IInv, NEW sg \in toUip, Takes(sg)
    PROVE  IInv' /\ Moves
<1>1. PICK r \in 0 .. PeerLen + 1 : Position(r)
  BY DEF IInv
<1>2. PICK from, n \in 0 .. PeerLen : IsSegment(sg, from, n)
  BY Zenon DEF IInv, SegmentsAreRight
<1> DEFINE k == n + Bit(sg.fin)
           g == Len(heard.got)
<1>3. /\ PeerLen \in Nat /\ r \in Nat /\ n \in Nat /\ from \in Nat
      /\ from + n <= PeerLen /\ peer.sent \in 0 .. PeerLen + 1
      /\ Bit(sg.fin) \in 0 .. 1 /\ k \in Nat /\ g \in 0 .. PeerLen
      /\ sg.fin \in BOOLEAN /\ heard.fin \in BOOLEAN
  BY <1>2, StreamAssumption, SMT DEF IsSegment, Bit, IInv, SentInRange, HeardIsRight
<1>4. sg.data = Part(from, n) /\ Len(sg.data) = n
  BY <1>2, <1>3, PartIs DEF IsSegment
<1>6. \/ n = 0 /\ ~sg.fin
      \/ from = r
  <2>1. CASE sg.data = << >> /\ ~sg.fin
    BY <1>4, <2>1, EmptySeq
  <2>2. CASE sg.seq = uip.rcv_nxt
    <3>1. At(from) = At(r)
      BY <1>1, <1>2, <2>2 DEF Position, IsSegment
    <3>2. from \in 0 .. PeerLen + 2 /\ r \in 0 .. PeerLen + 2
      BY <1>3, SMT
    <3> QED
      BY <3>1, <3>2, AtIsInjective
  <2> QED
    BY <2>1, <2>2 DEF Takes, InOrder
<1>7. r + k <= peer.sent /\ r + k \in 0 .. PeerLen + 1
  <2>1. from + n + Bit(sg.fin) <= peer.sent /\ r <= peer.sent
    BY <1>1, <1>2 DEF IsSegment, Position
  <2> QED
    BY <1>3, <1>6, <2>1, SMT DEF Bit
<1>8. uip'.rcv_nxt = At(r + k)
  <2> DEFINE m == r + n
  <2>1. /\ r \in 0 .. PeerLen + 2 /\ k \in 0 .. PeerLen + 2 /\ r + k <= PeerLen + 2
        /\ n \in 0 .. PeerLen + 2 /\ m <= PeerLen + 2 /\ m \in 0 .. PeerLen + 2
        /\ 1 \in 0 .. PeerLen + 2
    BY <1>3, <1>7, SMT DEF Bit
  <2>2. uip.rcv_nxt = At(r)
    BY <1>1 DEF Position
  <2>3. Add32(At(r), k) = At(r + k) /\ Add32(At(r), n) = At(m)
    BY <2>1, AtGoesOn
  <2>4. CASE sg.fin /\ Abandoned
    <3>1. m + 1 <= PeerLen + 2 /\ m + 1 = r + k
      BY <1>3, <1>7, <2>4, SMT DEF Bit
    <3> HIDE DEF m, k
    <3>2. Add32(At(m), 1) = At(m + 1)
      BY <2>1, <3>1, AtGoesOn
    <3>3. uip'.rcv_nxt = Add32(Add32(uip.rcv_nxt, n), 1)
      BY <1>4, <2>4 DEF Takes
    <3> QED
      BY <2>2, <2>3, <3>1, <3>2, <3>3
  <2>5. CASE ~(sg.fin /\ Abandoned)
    BY <1>4, <2>2, <2>3, <2>5 DEF Takes
  <2> QED
    BY <2>4, <2>5
\* What is new of the stream goes behind what the application has heard.
<1>9. ASSUME uip.state = "ESTABLISHED"
      PROVE  /\ r = g /\ ~heard.fin
             /\ heard.got \o sg.data = Part(0, r + n)
             /\ Len(heard.got \o sg.data) = r + n
  <2>1. r = g /\ ~heard.fin
    BY <1>1, <1>3, <1>9, SMT DEF Position, Abandoned, IInv, HeardIsRight, Bit
  <2>2. sg.data = Part(r, n)
    BY <1>3, <1>4, <1>6, EmptyPart
  <2>3. r + n <= PeerLen /\ r + n \in Nat /\ 0 + (r + n) <= PeerLen
    BY <1>3, <1>6, <2>1, SMT
  <2>4. Part(0, r) \o Part(r, n) = Part(0, r + n)
    BY <1>3, <2>3, PartsJoin
  <2>5. Len(Part(0, r + n)) = r + n
    BY <2>3, PartIs
  <2> QED
    BY <2>1, <2>2, <2>4, <2>5 DEF IInv, HeardIsRight
<1>10. Shapes' /\ SentInRange' /\ SegmentsAreRight'
  BY DEF IInv, Takes, Shapes, SentInRange, SegmentsAreRight, IsSegment
<1>11. /\ HeardIsRight' /\ Moves
       /\ ~Abandoned' => r + k = Len(heard'.got) + Bit(heard'.fin)
  <2>1. CASE /\ uip.state = "ESTABLISHED" /\ ~sg.fin
             /\ heard'.got = heard.got \o sg.data /\ heard'.fin = heard.fin
             /\ uip'.state = "ESTABLISHED" \/ Abandoned'
    <3>1. Len(heard'.got) = r + n /\ heard'.got = Part(0, r + n) /\ ~heard'.fin
      BY <1>9, <2>1
    <3>2. k = n /\ r + n \in 0 .. PeerLen /\ r + n <= peer.sent /\ r <= r + n
      BY <1>3, <1>6, <1>7, <1>9, <2>1, SMT DEF Bit
    <3>3. HeardIsRight'
      <4>1. Len(heard'.got) \in 0 .. PeerLen /\ Len(heard'.got) <= peer'.sent
        BY <3>1, <3>2 DEF Takes
      <4>2. heard'.got = Part(0, Len(heard'.got)) /\ heard'.fin = FALSE
        BY <1>3, <2>1, <3>1
      <4>3. uip'.state # "LAST_ACK"
        BY <2>1 DEF Abandoned
      <4> QED
        BY <4>1, <4>2, <4>3 DEF HeardIsRight
    <3>4. Moves
      BY <1>3, <1>9, <2>1, <3>1, <3>2, SMT DEF Moves, Takes, Abandoned, IInv, SentInRange
    <3>5. r + k = Len(heard'.got) + Bit(heard'.fin)
      BY <1>3, <3>1, <3>2, SMT DEF Bit
    <3> QED
      BY <3>3, <3>4, <3>5
  <2>2. CASE /\ uip.state = "ESTABLISHED" /\ sg.fin
             /\ heard'.got = heard.got \o sg.data /\ heard'.fin = TRUE
             /\ uip'.state = "LAST_ACK"
    <3>1. Len(heard'.got) = r + n /\ heard'.got = Part(0, r + n) /\ heard'.fin
      BY <1>9, <2>2
    <3>2. /\ k = n + 1 /\ r + n = PeerLen /\ r <= r + n /\ r + n \in 0 .. PeerLen
          /\ peer.sent = PeerLen + 1 /\ r + n <= peer.sent
      BY <1>2, <1>3, <1>6, <1>7, <2>2, SMT DEF Bit, IsSegment
    <3>3. HeardIsRight'
      <4>1. Len(heard'.got) = PeerLen /\ peer'.sent = peer.sent
        BY <3>1, <3>2 DEF Takes
      <4> QED
        BY <2>2, <3>1, <3>2, <4>1 DEF HeardIsRight
    <3>4. Moves
      BY <1>3, <1>9, <2>2, <3>1, <3>2, SMT DEF Moves, Takes, Abandoned, IInv, SentInRange
    <3>5. r + k = Len(heard'.got) + Bit(heard'.fin)
      BY <1>3, <3>1, <3>2, SMT DEF Bit
    <3> QED
      BY <3>3, <3>4, <3>5
  <2>3. CASE /\ Abandoned /\ Abandoned'
             /\ heard'.got = heard.got /\ heard'.fin = (heard.fin \/ sg.fin)
    <3>1. sg.fin => peer.sent = PeerLen + 1
      BY <1>2, <1>3, SMT DEF IsSegment, Bit
    <3>2. HeardIsRight'
      BY <1>3, <2>3, <3>1 DEF HeardIsRight, Takes, Abandoned, IInv
    <3>3. Moves
      BY <1>3, <2>3, SMT DEF Moves, Takes, IInv, SentInRange, HeardIsRight
    <3> QED
      BY <2>3, <3>2, <3>3
  <2> QED
    BY <2>1, <2>2, <2>3 DEF Takes
<1>12. Position(r + k)'
  <2>1. ASSUME NEW s \in toPeer' PROVE \E a \in 0 .. r + k : s.ack = At(a)
    <3>1. CASE s \in toPeer
      <4>1. PICK a \in 0 .. r : s.ack = At(a)
        BY <1>1, <3>1 DEF Position
      <4>2. a \in 0 .. r + k
        BY <1>3, SMT
      <4> QED
        BY <4>1, <4>2
    <3>2. CASE s.ack = uip'.rcv_nxt
      <4>1. r + k \in 0 .. r + k
        BY <1>3, SMT
      <4> QED
        BY <1>8, <3>2, <4>1
    <3> QED
      BY <3>1, <3>2 DEF Takes
  <2>2. peer.una <= r + k
    BY <1>1, <1>3, SMT DEF Position, IInv, SentInRange
  <2> QED
    BY <1>7, <1>8, <1>11, <2>1, <2>2 DEF Position, Takes
<1> QED
  BY <1>7, <1>10, <1>11, <1>12 DEF IInv

-----------------------------------------------------------------------------
(* The steps of uIP                                                        *)

\* Whatever uIP sends acknowledges up to its rcv_nxt.
LEMMA TransmitAcks ==
    ASSUME NEW u, NEW data, NEW fin, Transmit(u, data, fin)
    PROVE  \A s \in toPeer' : s \in toPeer \/ s.ack = u.rcv_nxt
BY DEF Transmit, Put, UipSegment

LEMMA AppTurnSends ==
    ASSUME NEW u, IsUip(u), NEW newdata, NEW acked, AppTurn(u, newdata, acked)
    PROVE  /\ IsUip(uip') /\ uip'.rcv_nxt = u.rcv_nxt
           /\ uip'.state \in {u.state, "FIN_WAIT_1"}
           /\ \A s \in toPeer' : s \in toPeer \/ s.ack = u.rcv_nxt
<1> DEFINE turn == PsockTurn(psock, u.mss, FALSE, acked)
<1>1. CASE AppSends(u, turn)
  <2>1. \A s \in toPeer' : s \in toPeer \/ s.ack = u.rcv_nxt
    BY <1>1, TransmitAcks DEF AppSends
  <2>2. IsUip(uip') /\ uip'.rcv_nxt = u.rcv_nxt /\ uip'.state = u.state
    BY <1>1 DEF AppSends, IsUip, UipFields
  <2> QED
    BY <2>1, <2>2
<1>2. CASE AppWaits(u, turn, newdata)
  <2>1. \A s \in toPeer' : s \in toPeer \/ s.ack = u.rcv_nxt
    BY <1>2, TransmitAcks DEF AppWaits, SendAck, SendNothing
  <2>2. IsUip(uip') /\ uip'.rcv_nxt = u.rcv_nxt /\ uip'.state = u.state
    BY <1>2 DEF AppWaits, IsUip, UipFields
  <2> QED
    BY <2>1, <2>2
<1>3. CASE AppCloses(u)
  <2>1. \A s \in toPeer' : s \in toPeer \/ s.ack = u.rcv_nxt
    BY <1>3, TransmitAcks DEF AppCloses
  <2>2. IsUip(uip') /\ uip'.rcv_nxt = u.rcv_nxt /\ uip'.state = "FIN_WAIT_1"
    BY <1>3 DEF AppCloses, IsUip, UipFields
  <2> QED
    BY <2>1, <2>2
<1> QED
  BY <1>1, <1>2, <1>3 DEF AppTurn

LEMMA AfterAckKeeps ==
    ASSUME NEW u, NEW sg, IsUip(u)
    PROVE  /\ IsUip(AfterAck(u, sg)) /\ AfterAck(u, sg).rcv_nxt = u.rcv_nxt
           /\ AfterAck(u, sg).state = u.state
BY DEF AfterAck, IsUip, UipFields

LEMMA ReceivedKeeps ==
    ASSUME NEW u, NEW n, IsUip(u)
    PROVE  /\ IsUip(Received(u, n)) /\ Received(u, n).rcv_nxt = Add32(u.rcv_nxt, n)
           /\ Received(u, n).state = u.state
BY DEF Received, IsUip, UipFields

LEMMA TickIsQuiet ==
    ASSUME IInv, Tick
    PROVE  Quiet
<1>1. IsUip(uip) /\ UNCHANGED <<heard, peer>> /\ toUip' \subseteq toUip
  BY DEF IInv, Shapes, Tick
<1>2. CASE TickGiveUp
  BY <1>1, <1>2 DEF TickGiveUp, Quiet, Abandoned, IsUip, UipFields
<1>3. CASE TickAppRetransmit
  <2>1. IsUip(uip') /\ uip'.rcv_nxt = uip.rcv_nxt /\ uip'.state = uip.state
    BY <1>1, <1>3 DEF TickAppRetransmit, IsUip, UipFields
  <2>2. \A s \in toPeer' : s \in toPeer \/ s.ack = uip.rcv_nxt
    BY <1>3, TransmitAcks DEF TickAppRetransmit, SendNothing
  <2> QED
    BY <1>1, <2>1, <2>2 DEF Quiet, Abandoned
<1>4. CASE TickRetransmitFin
  <2>1. IsUip(uip') /\ uip'.rcv_nxt = uip.rcv_nxt /\ uip'.state = uip.state
    BY <1>1, <1>4 DEF TickRetransmitFin, IsUip, UipFields
  <2>2. \A s \in toPeer' : s \in toPeer \/ s.ack = uip.rcv_nxt
    BY <1>4, TransmitAcks DEF TickRetransmitFin
  <2> QED
    BY <1>1, <2>1, <2>2 DEF Quiet, Abandoned
<1>5. CASE TickPoll
  BY <1>1, <1>5, AppTurnSends DEF TickPoll, Quiet, Abandoned
<1>6. CASE TickWait
  BY <1>1, <1>6 DEF TickWait, Quiet, Abandoned, IsUip, UipFields
<1> QED
  BY <1>2, <1>3, <1>4, <1>5, <1>6 DEF Tick

LEMMA RecvKeeps ==
    ASSUME IInv, NEW sg \in toUip, Recv(sg)
    PROVE  IInv' /\ Moves
<1>1. IsUip(uip) /\ IsHeard(heard) /\ UNCHANGED peer /\ toUip' \subseteq toUip
  BY DEF IInv, Shapes, Recv
<1>2. PICK from, n \in 0 .. PeerLen : IsSegment(sg, from, n)
  BY Zenon DEF IInv, SegmentsAreRight
<1>3. sg.fin \in BOOLEAN /\ Len(sg.data) \in Nat
  <2>1. from \in Nat /\ n \in Nat /\ from + n <= PeerLen
    BY <1>2, StreamAssumption DEF IsSegment
  <2>2. Len(Part(from, n)) = n
    BY <2>1, PartIs
  <2> QED
    BY <1>2, <2>1, <2>2 DEF IsSegment
<1>4. /\ ~sg.fin => Len(sg.data) + Bit(sg.fin) = Len(sg.data)
      /\ sg.fin => Len(sg.data) + Bit(sg.fin) = Len(sg.data) + 1
  <2>1. CASE sg.fin
    BY <2>1 DEF Bit
  <2>2. CASE ~sg.fin
    BY <1>3, <2>2, SMT DEF Bit
  <2> QED
    BY <1>3, <2>1, <2>2
<1> DEFINE acked == AfterAck(uip, sg)
<1>5. IsUip(acked) /\ acked.rcv_nxt = uip.rcv_nxt /\ acked.state = uip.state
  BY <1>1, AfterAckKeeps
<1> HIDE DEF acked
\* Steps that take nothing in.
<1>6. ASSUME IsUip(uip'), uip'.rcv_nxt = uip.rcv_nxt, heard' = heard,
             uip'.state = uip.state \/ Abandoned', Abandoned => Abandoned',
             \A s \in toPeer' : s \in toPeer \/ s.ack = uip.rcv_nxt
      PROVE  IInv' /\ Moves
  <2>1. Quiet
    BY <1>1, <1>6 DEF Quiet
  <2> QED
    BY <2>1, QuietKeeps
<1>7. CASE RecvOutOfOrder(sg)
  <2>1. \A s \in toPeer' : s \in toPeer \/ s.ack = uip.rcv_nxt
    BY <1>7, TransmitAcks DEF RecvOutOfOrder, SendAck
  <2>2. uip' = uip /\ heard' = heard
    BY <1>7 DEF RecvOutOfOrder
  <2> QED
    BY <1>1, <1>6, <2>1, <2>2 DEF Abandoned
<1>8. CASE RecvInTimeWait(sg)
  <2>1. \A s \in toPeer' : s \in toPeer \/ s.ack = uip.rcv_nxt
    BY <1>8, TransmitAcks DEF RecvInTimeWait, SendAck
  <2>2. uip' = uip /\ heard' = heard
    BY <1>8 DEF RecvInTimeWait
  <2> QED
    BY <1>1, <1>6, <2>1, <2>2 DEF Abandoned
<1>9. CASE RecvInLastAck(sg)
  <2>1. IsUip(uip') /\ uip'.rcv_nxt = uip.rcv_nxt /\ uip'.state \in {uip.state, "CLOSED"}
    BY <1>1, <1>5, <1>9 DEF RecvInLastAck, IsUip, UipFields, acked
  <2>2. heard' = heard /\ toPeer' = toPeer
    BY <1>9 DEF RecvInLastAck, SendNothing
  <2> QED
    BY <1>6, <2>1, <2>2 DEF Abandoned
<1>10. CASE RecvInClosing(sg)
  <2>1. IsUip(uip') /\ uip'.rcv_nxt = uip.rcv_nxt /\ uip'.state \in {uip.state, "TIME_WAIT"}
    BY <1>1, <1>5, <1>10 DEF RecvInClosing, IsUip, UipFields, acked
  <2>2. heard' = heard /\ toPeer' = toPeer
    BY <1>10 DEF RecvInClosing, SendNothing
  <2> QED
    BY <1>6, <2>1, <2>2 DEF Abandoned
\* Steps that take the segment in, or throw it away.
<1>11. ASSUME InOrder(uip, sg), RecvFinInEstablished(sg)
       PROVE  IInv' /\ Moves
  <2>1. CASE Outstanding(acked)
    <3>1. uip' = uip /\ heard' = heard /\ toPeer' = toPeer
      BY <1>11, <2>1 DEF RecvFinInEstablished, acked
    <3> QED
      BY <1>1, <1>6, <3>1 DEF Abandoned
  <2>2. CASE ~Outstanding(acked)
    <3> DEFINE u == Received(acked, Len(sg.data) + 1)
    <3>1. /\ IsUip(u) /\ u.rcv_nxt = Add32(uip.rcv_nxt, Len(sg.data) + 1)
      BY <1>5, ReceivedKeeps
    <3> HIDE DEF u
    <3>2. /\ uip.state = "ESTABLISHED" /\ sg.fin
          /\ uip' = [u EXCEPT !.state = "LAST_ACK", !.len = 1, !.nrtx = 0]
          /\ heard' = [got |-> heard.got \o sg.data, fin |-> TRUE]
          /\ Transmit(uip', << >>, TRUE)
      BY <1>11, <2>2 DEF RecvFinInEstablished, acked, u
    <3>3. IsUip(uip') /\ uip'.rcv_nxt = u.rcv_nxt /\ uip'.state = "LAST_ACK"
      BY <3>1, <3>2 DEF IsUip, UipFields
    <3>4. \A s \in toPeer' : s \in toPeer \/ s.ack = uip'.rcv_nxt
      BY <3>2, TransmitAcks
    <3>5. IsHeard(heard') /\ heard'.got = heard.got \o sg.data /\ heard'.fin = TRUE
      BY <3>2 DEF IsHeard
    <3>6. Takes(sg)
      BY <1>1, <1>4, <1>11, <3>1, <3>2, <3>3, <3>4, <3>5 DEF Takes, Abandoned
    <3> QED
      BY <3>6, TakesKeeps
  <2> QED
    BY <2>1, <2>2
<1>12. ASSUME InOrder(uip, sg), RecvInEstablished(sg)
       PROVE  IInv' /\ Moves
  <2> DEFINE u == [Received(acked, Len(sg.data)) EXCEPT !.mss = Mss(sg)]
  <2>1. /\ IsUip(u) /\ u.rcv_nxt = Add32(uip.rcv_nxt, Len(sg.data)) /\ u.state = uip.state
    <3> DEFINE v == Received(acked, Len(sg.data))
    <3>1. IsUip(v) /\ v.rcv_nxt = Add32(uip.rcv_nxt, Len(sg.data)) /\ v.state = uip.state
      BY <1>5, ReceivedKeeps
    <3> HIDE DEF v
    <3> QED
      BY <3>1 DEF IsUip, UipFields, v
  <2>2. /\ uip.state = "ESTABLISHED" /\ ~sg.fin
        /\ heard' = [heard EXCEPT !.got = @ \o sg.data]
        /\ \/ AppTurn(u, sg.data # << >>, Acked(uip, sg))
           \/ uip' = u /\ toPeer' = toPeer
    BY <1>12 DEF RecvInEstablished, acked, SendNothing
  <2> HIDE DEF u
  <2>3. /\ IsUip(uip') /\ uip'.rcv_nxt = u.rcv_nxt
        /\ uip'.state \in {u.state, "FIN_WAIT_1"}
        /\ \A s \in toPeer' : s \in toPeer \/ s.ack = u.rcv_nxt
    BY <2>1, <2>2, AppTurnSends
  <2>4. IsHeard(heard') /\ heard'.got = heard.got \o sg.data /\ heard'.fin = heard.fin
    BY <1>1, <2>2 DEF IsHeard
  <2>5. Takes(sg)
    BY <1>1, <1>4, <1>12, <2>1, <2>2, <2>3, <2>4 DEF Takes, Abandoned
  <2> QED
    BY <2>5, TakesKeeps
<1>13. IsHeard([heard EXCEPT !.fin = @ \/ sg.fin])
  BY <1>1 DEF IsHeard
<1>14. ASSUME InOrder(uip, sg), RecvInFinWait1(sg)
       PROVE  IInv' /\ Moves
  <2> DEFINE u == Received(acked, Len(sg.data))
             w == Received(u, 1)
  <2>1. IsUip(u) /\ u.rcv_nxt = Add32(uip.rcv_nxt, Len(sg.data)) /\ u.state = uip.state
    BY <1>5, ReceivedKeeps
  <2> HIDE DEF u
  <2>2. IsUip(w) /\ w.rcv_nxt = Add32(u.rcv_nxt, 1)
    BY <2>1, ReceivedKeeps
  <2> HIDE DEF w
  <2>3. /\ uip.state = "FIN_WAIT_1" /\ heard' = [heard EXCEPT !.fin = @ \/ sg.fin]
        /\ \/ /\ sg.fin
              /\ uip' = [w EXCEPT !.state = IF Acked(uip, sg) THEN "TIME_WAIT" ELSE "CLOSING"]
              /\ SendAck(uip')
           \/ /\ ~sg.fin
              /\ uip' = [u EXCEPT !.state = "FIN_WAIT_2"] \/ uip' = u
              /\ SendAck(u) \/ SendNothing
    BY <1>14 DEF RecvInFinWait1, acked, u, w
  <2>4. /\ IsUip(uip') /\ Abandoned'
        /\ uip'.rcv_nxt = IF sg.fin THEN w.rcv_nxt ELSE u.rcv_nxt
    <3>1. CASE sg.fin
      <4>1. PICK st \in {"TIME_WAIT", "CLOSING"} : uip' = [w EXCEPT !.state = st]
        BY <2>3, <3>1
      <4> QED
        BY <2>2, <3>1, <4>1 DEF IsUip, UipFields, Abandoned
    <3>2. CASE ~sg.fin /\ uip' = u
      BY <2>1, <2>3, <3>2 DEF Abandoned
    <3>3. CASE ~sg.fin /\ uip' = [u EXCEPT !.state = "FIN_WAIT_2"]
      BY <2>1, <3>3 DEF IsUip, UipFields, Abandoned
    <3> QED
      BY <2>3, <3>1, <3>2, <3>3
  <2>5. \A s \in toPeer' : s \in toPeer \/ s.ack = uip'.rcv_nxt
    BY <2>3, <2>4, TransmitAcks DEF SendAck, SendNothing
  <2>6. IsHeard(heard') /\ heard'.got = heard.got /\ heard'.fin = (heard.fin \/ sg.fin)
    BY <1>1, <1>13, <2>3 DEF IsHeard
  <2>7. Abandoned
    BY <2>3 DEF Abandoned
  <2>8. Takes(sg)
    BY <1>1, <1>4, <1>14, <2>1, <2>2, <2>4, <2>5, <2>6, <2>7 DEF Takes
  <2> QED
    BY <2>8, TakesKeeps
<1>15. ASSUME InOrder(uip, sg), RecvInFinWait2(sg)
       PROVE  IInv' /\ Moves
  <2> DEFINE u == Received(uip, Len(sg.data))
             w == Received(u, 1)
  <2>1. IsUip(u) /\ u.rcv_nxt = Add32(uip.rcv_nxt, Len(sg.data)) /\ u.state = uip.state
    BY <1>1, ReceivedKeeps
  <2> HIDE DEF u
  <2>2. IsUip(w) /\ w.rcv_nxt = Add32(u.rcv_nxt, 1)
    BY <2>1, ReceivedKeeps
  <2> HIDE DEF w
  <2>3. /\ uip.state = "FIN_WAIT_2" /\ heard' = [heard EXCEPT !.fin = @ \/ sg.fin]
        /\ uip' = IF sg.fin THEN [w EXCEPT !.state = "TIME_WAIT"] ELSE u
        /\ SendAck(uip') \/ SendNothing
    BY <1>15 DEF RecvInFinWait2, u, w
  <2>4. /\ IsUip(uip') /\ Abandoned'
        /\ uip'.rcv_nxt = IF sg.fin THEN w.rcv_nxt ELSE u.rcv_nxt
    <3>1. CASE sg.fin
      <4>1. uip' = [w EXCEPT !.state = "TIME_WAIT"]
        BY <2>3, <3>1
      <4> QED
        BY <2>2, <3>1, <4>1 DEF IsUip, UipFields, Abandoned
    <3>2. CASE ~sg.fin
      BY <2>1, <2>3, <3>2 DEF Abandoned
    <3> QED
      BY <3>1, <3>2
  <2>5. \A s \in toPeer' : s \in toPeer \/ s.ack = uip'.rcv_nxt
    BY <2>3, TransmitAcks DEF SendAck, SendNothing
  <2>6. IsHeard(heard') /\ heard'.got = heard.got /\ heard'.fin = (heard.fin \/ sg.fin)
    BY <1>1, <1>13, <2>3 DEF IsHeard
  <2>7. Abandoned
    BY <2>3 DEF Abandoned
  <2>8. Takes(sg)
    BY <1>1, <1>4, <1>15, <2>1, <2>2, <2>4, <2>5, <2>6, <2>7 DEF Takes
  <2> QED
    BY <2>8, TakesKeeps
<1> QED
  BY <1>7, <1>8, <1>9, <1>10, <1>11, <1>12, <1>14, <1>15 DEF Recv

-----------------------------------------------------------------------------
(* The steps of the peer and of the network                                *)

LEMMA PeerKeeps ==
    ASSUME IInv, NEW r \in 0 .. PeerLen + 1, Position(r),
           IsPeer(peer'), uip' = uip, heard' = heard, toPeer' \subseteq toPeer,
           peer'.sent \in 0 .. PeerLen + 1, peer.sent <= peer'.sent,
           peer'.una \in Nat, peer.una <= peer'.una, peer'.una <= r,
           SegmentsAreRight'
    PROVE  IInv' /\ Moves
<1>1. /\ PeerLen \in Nat /\ peer.sent \in 0 .. PeerLen + 1 /\ r \in Nat /\ r <= peer.sent
      /\ Len(heard.got) \in 0 .. PeerLen /\ Len(heard.got) <= peer.sent
  BY StreamAssumption DEF IInv, SentInRange, HeardIsRight, Position
<1>2. /\ peer'.una <= peer'.sent /\ r <= peer'.sent /\ Len(heard.got) <= peer'.sent
      /\ peer.sent = PeerLen + 1 => peer'.sent = PeerLen + 1
  BY <1>1, SMT
<1>3. Shapes' /\ SentInRange'
  <2>1. peer'.una \in 0 .. peer'.sent
    BY <1>2, SMT
  <2> QED
    BY <2>1 DEF IInv, Shapes, SentInRange
<1>4. HeardIsRight'
  BY <1>2 DEF IInv, HeardIsRight
<1>5. Position(r)'
  BY <1>2 DEF Position, Abandoned
<1>6. Moves
  BY <1>1, SMT DEF Moves, Abandoned
<1> QED
  BY <1>3, <1>4, <1>5, <1>6 DEF IInv

LEMMA PeerSendKeeps ==
    ASSUME IInv, NEW from \in 0 .. PeerLen, NEW n \in 0 .. PeerLen, NEW fin \in BOOLEAN,
           PeerSend(from, n, fin)
    PROVE  IInv' /\ Moves
<1>1. PICK r \in 0 .. PeerLen + 1 : Position(r)
  BY DEF IInv
<1> DEFINE last == from + n + Bit(fin)
           sg == [seq |-> Add32(IRS, from), ack |-> peer.rcv_nxt,
                  data |-> SubSeq(PeerMessage, from + 1, from + n), fin |-> fin,
                  wnd |-> PeerBuf - peer.unread]
<1>2. /\ PeerLen \in Nat /\ peer.sent \in 0 .. PeerLen + 1 /\ peer.una \in Nat
      /\ UIP_TCP_MSS \in Nat /\ IsPeer(peer)
  BY StreamAssumption, SMT DEF IInv, SentInRange, Shapes
<1>3. /\ from + n <= PeerLen
      /\ fin => from + n = PeerLen
      /\ uip' = uip /\ heard' = heard /\ toPeer' = toPeer
      /\ toUip' = Put(toUip, NetToUip, sg)
      /\ peer' = [peer EXCEPT !.sent = IF last > @ THEN last ELSE @]
  <2>1. /\ from + n <= Least(PeerLen, peer.una + UIP_TCP_MSS)
        /\ fin => from + n = PeerLen
        /\ uip' = uip /\ heard' = heard /\ toPeer' = toPeer
        /\ toUip' = Put(toUip, NetToUip, sg)
        /\ peer' = [peer EXCEPT !.sent = IF last > @ THEN last ELSE @]
    BY DEF PeerSend, Bit
  <2>2. Least(PeerLen, peer.una + UIP_TCP_MSS) <= PeerLen
    BY <1>2, SMT DEF Least
  <2>3. Least(PeerLen, peer.una + UIP_TCP_MSS) \in Int
    BY <1>2, SMT DEF Least
  <2> QED
    BY <1>2, <2>1, <2>2, <2>3, SMT
<1>4. last \in 0 .. PeerLen + 1
  <2>1. from \in Nat /\ from + n \in Nat /\ from + n <= PeerLen
    BY <1>2, <1>3, SMT
  <2>2. CASE fin
    <3>1. last = from + n + 1
      BY <2>2 DEF Bit
    <3> QED
      BY <1>2, <2>1, <3>1, SMT
  <2>3. CASE ~fin
    <3>1. last = from + n + 0
      BY <2>3 DEF Bit
    <3> QED
      BY <1>2, <2>1, <3>1, SMT
  <2> QED
    BY <2>2, <2>3
<1> DEFINE top == IF last > peer.sent THEN last ELSE peer.sent
<1>5. peer' = [peer EXCEPT !.sent = top]
  BY <1>3
<1>7. top \in 0 .. PeerLen + 1 /\ peer.sent <= top /\ last <= top
  <2> HIDE DEF last
  <2> QED
    BY <1>2, <1>4, SMT
<1>8. IsPeer(peer') /\ peer'.sent = top /\ peer'.una = peer.una
  <2> HIDE DEF top
  <2> QED
    BY <1>2, <1>5 DEF IsPeer
<1>9. ASSUME NEW s \in toUip' PROVE \E f, m \in 0 .. PeerLen : IsSegment(s, f, m)'
  <2>1. CASE s \in toUip
    <3>1. PICK f, m \in 0 .. PeerLen : IsSegment(s, f, m)
      BY <2>1, Zenon DEF IInv, SegmentsAreRight
    <3>2. f + m + Bit(s.fin) \in Int /\ f + m + Bit(s.fin) <= peer.sent
      BY <3>1, SMT DEF IsSegment, Bit
    <3>3. f + m + Bit(s.fin) <= peer'.sent
      <4> HIDE DEF top
      <4> QED
        BY <1>2, <1>7, <1>8, <3>2, SMT
    <3> QED
      BY <3>1, <3>3 DEF IsSegment
  <2>2. CASE s = sg
    <3>1. /\ s.seq = At(from) /\ s.data = Part(from, n) /\ s.fin = fin
      BY <2>2 DEF At, Part
    <3>2. from + n + Bit(s.fin) <= peer'.sent
      BY <1>7, <1>8, <3>1
    <3>3. IsSegment(s, from, n)'
      <4> HIDE DEF last, sg, top
      <4> QED
        BY <1>3, <3>1, <3>2 DEF IsSegment
    <3> QED
      BY <3>3
  <2> QED
    BY <1>3, <2>1, <2>2 DEF Put
<1>10. SegmentsAreRight'
  BY <1>9 DEF SegmentsAreRight
<1>11. peer'.una <= r /\ peer.una <= peer'.una
  BY <1>1, <1>2, <1>8, SMT DEF Position
<1> QED
  BY <1>1, <1>2, <1>3, <1>7, <1>8, <1>10, <1>11, PeerKeeps

\* The peer learns of what uIP has got, or nothing from an old acknowledgement.
LEMMA PeerRecvKeeps ==
    ASSUME IInv, NEW sg \in toPeer, PeerRecv(sg)
    PROVE  IInv' /\ Moves
<1>1. PICK r \in 0 .. PeerLen + 1 : Position(r)
  BY DEF IInv
<1>2. PICK a \in 0 .. r : sg.ack = At(a)
  BY <1>1 DEF Position
<1>3. /\ SeqMod \in Nat /\ PeerLen \in Nat /\ 2 * (PeerLen + 2) < SeqMod
      /\ peer.sent \in 0 .. PeerLen + 1 /\ peer.una \in Nat /\ peer.una <= r
      /\ r \in Nat /\ r <= peer.sent /\ a \in Nat /\ a <= r
  BY <1>1, StreamAssumption, SMT DEF IInv, SentInRange, Position
<1> DEFINE una == PeerAcked(sg)
           ahead == Sub32(sg.ack, Add32(IRS, peer.una))
<1>4. ahead = IF peer.una <= a THEN a - peer.una ELSE a - peer.una + SeqMod
  <2>1. peer.una \in 0 .. PeerLen + 2 /\ a \in 0 .. PeerLen + 2
    BY <1>3, SMT
  <2>2. Sub32(At(a), At(peer.una)) = IF peer.una <= a THEN a - peer.una ELSE a - peer.una + SeqMod
    BY <2>1, AtIsAhead
  <2> QED
    BY <1>2, <2>2 DEF At
<1>5. una = peer.una + (IF ahead <= peer.sent - peer.una THEN ahead ELSE 0)
  BY DEF PeerAcked
<1> HIDE DEF una, ahead
<1>6. una \in Nat /\ peer.una <= una /\ una <= r
  BY <1>3, <1>4, <1>5, SMT
<1>7. IsPeer(peer') /\ peer'.una = una /\ peer'.sent = peer.sent
  <2>1. PICK g, u, n, f : peer' = [peer EXCEPT !.got = g, !.unread = u, !.rcv_nxt = n,
                                               !.fin = f, !.una = una]
    BY DEF PeerRecv, una
  <2>2. IsPeer(peer)
    BY DEF IInv, Shapes
  <2> QED
    BY <2>1, <2>2 DEF IsPeer
<1>8. uip' = uip /\ heard' = heard /\ toUip' = toUip /\ toPeer' \subseteq toPeer
  BY DEF PeerRecv
<1>9. SegmentsAreRight'
  BY <1>7, <1>8 DEF IInv, SegmentsAreRight, IsSegment
<1>10. peer.sent <= peer'.sent
  BY <1>3, <1>7, SMT
<1> QED
  BY <1>1, <1>3, <1>6, <1>7, <1>8, <1>9, <1>10, PeerKeeps

LEMMA RestKeeps ==
    ASSUME IInv, PeerRead \/ Lose
    PROVE  IInv' /\ Moves
<1>1. PICK r \in 0 .. PeerLen + 1 : Position(r)
  BY DEF IInv
<1>2. /\ IsPeer(peer') /\ peer'.una = peer.una /\ peer'.sent = peer.sent
      /\ uip' = uip /\ heard' = heard /\ toUip' \subseteq toUip /\ toPeer' \subseteq toPeer
  <2>1. IsPeer(peer)
    BY DEF IInv, Shapes
  <2>2. CASE PeerRead
    BY <2>1, <2>2 DEF PeerRead, IsPeer
  <2>3. CASE Lose
    BY <2>1, <2>3 DEF Lose
  <2> QED
    BY <2>2, <2>3
<1>3. SegmentsAreRight'
  BY <1>2 DEF IInv, SegmentsAreRight, IsSegment
<1>4. /\ peer'.sent \in 0 .. PeerLen + 1 /\ peer.sent <= peer'.sent
      /\ peer'.una \in Nat /\ peer.una <= peer'.una /\ peer'.una <= r
  BY <1>1, <1>2, StreamAssumption, SMT DEF IInv, SentInRange, Position
<1> QED
  BY <1>1, <1>2, <1>3, <1>4, PeerKeeps

-----------------------------------------------------------------------------
(* The theorem                                                             *)

LEMMA InitGood == Init => IInv /\ Incoming!Init
<1> SUFFICES ASSUME Init PROVE IInv /\ Incoming!Init
  OBVIOUS
<1>1. PeerLen \in Nat /\ IRS \in Nat
  BY StreamAssumption, SMT
<1>2. Part(0, 0) = << >>
  BY SubSeqEmpty, SMT DEF Part
<1>3. Shapes
  BY DEF Init, Shapes, IsUip, UipFields, IsHeard, IsPeer
<1>4. SentInRange
  BY <1>1, SMT DEF Init, SentInRange
<1>5. HeardIsRight
  <2>1. Len(heard.got) = 0 /\ heard.got = << >> /\ heard.fin = FALSE
        /\ uip.state = "ESTABLISHED" /\ peer.sent = 0
    BY DEF Init
  <2>2. /\ Len(heard.got) \in 0 .. PeerLen /\ Len(heard.got) <= peer.sent
        /\ heard.got = Part(0, Len(heard.got))
    BY <1>1, <1>2, <2>1
  <2> QED
    BY <2>1, <2>2 DEF HeardIsRight
<1>6. SegmentsAreRight
  BY DEF Init, SegmentsAreRight
<1>7. Position(0)
  <2>1. At(0) = IRS
    BY <1>1, AtIs, StreamAssumption, SMT
  <2>2. /\ uip.rcv_nxt = IRS /\ heard.got = << >> /\ heard.fin = FALSE
        /\ peer.una = 0 /\ peer.sent = 0 /\ toPeer = {}
    BY DEF Init
  <2>3. 0 = Len(heard.got) + Bit(heard.fin)
    BY <2>2, SMT DEF Bit
  <2> QED
    BY <2>1, <2>2, <2>3 DEF Position
<1>8. 0 \in 0 .. PeerLen + 1
  BY <1>1, SMT
<1>9. Incoming!Init
  BY <1>1, SMT DEF Init, Incoming!Init, Least
<1> QED
  BY <1>3, <1>4, <1>5, <1>6, <1>7, <1>8, <1>9 DEF IInv

LEMMA StepGood == IInv /\ Next => IInv' /\ Moves
<1> SUFFICES ASSUME IInv, Next PROVE IInv' /\ Moves
  OBVIOUS
<1>1. CASE Tick
  BY <1>1, TickIsQuiet, QuietKeeps
<1>2. ASSUME NEW sg \in toUip, Recv(sg) PROVE IInv' /\ Moves
  BY <1>2, RecvKeeps
<1>3. ASSUME NEW from \in 0 .. PeerLen, NEW n \in 0 .. PeerLen, NEW fin \in BOOLEAN,
             PeerSend(from, n, fin)
      PROVE  IInv' /\ Moves
  BY <1>3, PeerSendKeeps
<1>4. ASSUME NEW sg \in toPeer, PeerRecv(sg) PROVE IInv' /\ Moves
  BY <1>4, PeerRecvKeeps
<1>5. CASE PeerRead \/ Lose
  BY <1>5, RestKeeps
<1> QED
  BY <1>1, <1>2, <1>3, <1>4, <1>5 DEF Next

LEMMA StutterGood == IInv /\ UNCHANGED vars => IInv' /\ UNCHANGED Incoming!streamVars
<1> SUFFICES ASSUME IInv, UNCHANGED vars PROVE IInv' /\ UNCHANGED Incoming!streamVars
  OBVIOUS
<1>1. /\ uip' = uip /\ heard' = heard /\ peer' = peer /\ toPeer' = toPeer /\ toUip' = toUip
  BY DEF vars
<1>2. IInv'
  BY <1>1 DEF IInv, Shapes, SentInRange, HeardIsRight, SegmentsAreRight, IsSegment,
              Position, Abandoned
<1> QED
  BY <1>1, <1>2 DEF Incoming!streamVars, Least

\* Each step is one of the abstract stream.
LEMMA StepRefines == IInv /\ IInv' /\ Moves => Incoming!Next
<1> SUFFICES ASSUME IInv, IInv', Moves PROVE Incoming!Next
  OBVIOUS
<1> DEFINE w == Least(peer.sent, PeerLen)
           g == Len(heard.got)
           h == Len(heard'.got)
<1>1. /\ PeerLen \in Nat /\ peer.sent \in 0 .. PeerLen + 1 /\ peer'.sent \in 0 .. PeerLen + 1
      /\ peer.una \in 0 .. peer.sent /\ peer'.una \in 0 .. peer'.sent
      /\ g \in 0 .. PeerLen /\ h \in 0 .. PeerLen
      /\ g <= h /\ h <= peer.sent /\ peer.sent <= peer'.sent /\ peer.una <= peer'.una
  BY StreamAssumption DEF IInv, SentInRange, HeardIsRight, Moves
<1>2. Len(PeerMessage) = PeerLen
  BY <1>1, SMT DEF PeerMessage
<1>3. Incoming!Write
  <2>1. w' \in w .. PeerLen
    <3> HIDE DEF g, h
    <3> QED
      BY <1>1, SMT DEF Least
  <2>2. heard.fin => w' = w
    BY <1>1, SMT DEF IInv, HeardIsRight, Least
  <2> QED
    BY <1>2, <2>1, <2>2 DEF Incoming!Write
<1>4. Incoming!Deliver
  <2>1. h \in g .. w
    BY <1>1, SMT DEF Least
  <2>2. heard'.got = heard.got \o SubSeq(PeerMessage, g + 1, h)
    <3> DEFINE n == h - g
    <3>1. g \in Nat /\ n \in Nat /\ g + n = h /\ g + n <= PeerLen
      BY <1>1, SMT
    <3>2. Part(0, g) \o Part(g, n) = Part(0, g + n)
      BY <3>1, PartsJoin
    <3>3. Part(g, n) = SubSeq(PeerMessage, g + 1, h)
      BY <3>1 DEF Part
    <3>4. heard.got = Part(0, g) /\ heard'.got = Part(0, h)
      BY DEF IInv, HeardIsRight
    <3> QED
      BY <3>1, <3>2, <3>3, <3>4
  <2>3. heard.fin => heard'.got = heard.got
    BY DEF Moves
  <2> QED
    BY <2>1, <2>2, <2>3 DEF Incoming!Deliver
<1>5. Incoming!Confirm
  <2>1. ASSUME ~Abandoned PROVE Least(peer'.una, PeerLen) <= g
    <3>1. PICK r \in 0 .. PeerLen + 1 : Position(r)
      BY DEF IInv
    <3>2. PICK q \in 0 .. PeerLen + 1 : Position(q)'
      BY DEF IInv
    <3>3. peer'.una <= g + Bit(heard.fin)
      <4>1. CASE peer'.una = peer.una
        BY <2>1, <3>1, <4>1 DEF Position
      <4>2. CASE UNCHANGED <<uip, heard>>
        BY <2>1, <3>2, <4>2 DEF Position, Abandoned
      <4> QED
        BY <4>1, <4>2 DEF Moves
    <3>4. heard.fin \in BOOLEAN /\ (heard.fin => g = PeerLen)
      BY <2>1 DEF IInv, HeardIsRight, Abandoned
    <3> HIDE DEF g
    <3>5. CASE heard.fin
      BY <1>1, <3>4, <3>5, SMT DEF Least
    <3>6. CASE ~heard.fin
      <4>1. peer'.una <= g + 0
        BY <3>3, <3>6 DEF Bit
      <4> QED
        BY <1>1, <4>1, SMT DEF Least
    <3> QED
      BY <3>4, <3>5, <3>6
  <2>2. peer'.una <= peer.sent
    BY <1>1, SMT DEF Moves
  <2> HIDE DEF g, h
  <2>3. Least(peer'.una, PeerLen) \in Least(peer.una, PeerLen) .. w + 1
    BY <1>1, <2>2, SMT DEF Least
  <2>4. ~Abandoned => Least(peer'.una, PeerLen) \in Least(peer.una, PeerLen) .. g
    BY <1>1, <2>1, <2>3, SMT DEF Least
  <2> QED
    BY <2>3, <2>4 DEF Incoming!Confirm, Abandoned, g
<1>6. Incoming!End
  BY <1>1, SMT DEF Incoming!End, Moves, Abandoned, Least
<1>7. Incoming!Abandon
  BY DEF Incoming!Abandon, Moves, Abandoned
<1> QED
  BY <1>3, <1>4, <1>5, <1>6, <1>7 DEF Incoming!Next

\* The application of uip_process() gets the peer's stream as ReliableStream
\* says, whatever the network does.
THEOREM PeerStreamIsDelivered == Spec => IncomingSpec
<1>1. Init => IInv /\ Incoming!Init
  BY InitGood
<1>2. IInv /\ [Next]_vars => IInv' /\ [Incoming!Next]_Incoming!streamVars
  BY StepGood, StepRefines, StutterGood
<1> QED
  BY <1>1, <1>2, PTL DEF Spec, IncomingSpec, Incoming!Spec

-----------------------------------------------------------------------------
(* The sending side stays within its bounds                                *)

UipStates == {"ESTABLISHED", "FIN_WAIT_1", "FIN_WAIT_2", "CLOSING", "TIME_WAIT",
              "LAST_ACK", "CLOSED"}
PsockStates == {"NONE", "DATA_SENT", "ACKED"}
Seqnos == 0 .. SeqMod - 1
Lengths == 0 .. UIP_TCP_MSS
SegmentSizes == 1 .. UIP_TCP_MSS
Retries == 0 .. UIP_MAXRTX
Offsets == 0 .. MessageLen

UipType ==
    [state : UipStates, snd_nxt : Seqnos, rcv_nxt : Seqnos, len : Lengths,
     mss : SegmentSizes, nrtx : Retries]

PsockType == [state : PsockStates, sendptr : Offsets, sendlen : Offsets, handed : Offsets]

\* What is acknowledged and what is left make up the message.
GoodPsock(ps) == ps \in PsockType /\ ps.sendptr + ps.sendlen = MessageLen

\* Data that waits for its acknowledgement is what the protosocket sent last,
\* and not more than it has left.
Waits(u, ps) ==
    u.state = "ESTABLISHED" /\ u.len > 0 => ps.state = "DATA_SENT" /\ u.len <= ps.sendlen

ToPeerFits(net) ==
    /\ IsFiniteSet(net) /\ Cardinality(net) <= NetToPeer
    /\ \A sg \in net : sg.seq \in Seqnos /\ Len(sg.data) \in Nat

ToUipFits(net) ==
    /\ IsFiniteSet(net) /\ Cardinality(net) <= NetToUip
    /\ \A sg \in net : sg.wnd \in 0 .. PeerBuf /\ Len(sg.data) \in Nat

PeerFits(p) == IsPeer(p) /\ p.rcv_nxt \in Seqnos /\ p.unread \in 0 .. PeerBuf

UipFits ==
    /\ uip \in UipType
    /\ GoodPsock(psock)
    /\ Waits(uip, psock)

SendInv == UipFits /\ ToPeerFits(toPeer) /\ ToUipFits(toUip) /\ PeerFits(peer)

LEMMA Bounds ==
  /\ Seqnos \subseteq Nat /\ SeqMod \in Nat /\ SeqMod > 0
  /\ \A a, b \in Int : Add32(a, b) \in Seqnos /\ Sub32(a, b) \in Nat
  /\ 0 \in Retries /\ 0 \in Lengths /\ 1 \in Lengths /\ UIP_TCP_MSS \in SegmentSizes
  /\ 0 \in Offsets /\ MessageLen \in Offsets
  /\ ISS \in Seqnos /\ IRS \in Seqnos
<1>1. SeqMod \in Nat /\ SeqMod > 0
  BY StreamAssumption
<1>2. ASSUME NEW a \in Int, NEW b \in Int
      PROVE  Add32(a, b) \in Seqnos /\ Sub32(a, b) \in Nat
  BY <1>1 DEF Add32, Sub32, Seqnos
<1> QED
  BY <1>1, <1>2, StreamAssumption DEF Seqnos, Retries, Lengths, SegmentSizes, Offsets

LEMMA MaxIsNat == UIP_MAXRTX \in Nat
  BY StreamAssumption

LEMMA LeastIs ==
  ASSUME NEW a \in Nat, NEW b \in Nat
  PROVE  Least(a, b) \in Nat /\ Least(a, b) <= a /\ Least(a, b) <= b
  BY DEF Least

\* A chunk that is acknowledged moves from what is left to what is done.
LEMMA ChunkAckedFacts ==
  ASSUME NEW ps, GoodPsock(ps), NEW mss \in SegmentSizes
  PROVE  /\ GoodPsock(ChunkAcked(ps, mss))
         /\ ChunkAcked(ps, mss).handed = ps.handed
<1> DEFINE n == Least(ps.sendlen, mss)
           l == ps.sendlen - n
           p == ps.sendptr + n
           d == [ps EXCEPT !.sendlen = l, !.sendptr = p, !.state = "ACKED"]
<1>1. ps \in PsockType /\ ps.sendlen \in Offsets /\ ps.sendptr \in Offsets
      /\ ps.sendptr + ps.sendlen = MessageLen
  BY DEF GoodPsock, PsockType
<1>a. ps.sendlen \in Nat /\ mss \in Nat
  BY <1>1, StreamAssumption DEF Offsets, SegmentSizes
<1>2. n \in Nat /\ n <= ps.sendlen
  BY <1>a, LeastIs
<1> HIDE DEF n
<1>3. l \in Offsets /\ p \in Offsets /\ p + l = MessageLen
  BY <1>1, <1>2, StreamAssumption DEF Offsets
<1>4. ChunkAcked(ps, mss) = d
  BY DEF ChunkAcked, n
<1> HIDE DEF l, p
<1>5. d \in PsockType
  BY <1>1, <1>3, Zenon DEF PsockType, PsockStates
<1>6. d.sendlen = l /\ d.sendptr = p /\ d.handed = ps.handed
  BY <1>1 DEF PsockType
<1> QED
  BY <1>3, <1>4, <1>5, <1>6 DEF GoodPsock

\* What a turn of the protosocket does: it hands out no more than a segment
\* and no more than is left, and only when nothing is outstanding.
TurnFits(ps, mss, rexmit, acked, turn) ==
    /\ GoodPsock(turn.psock)
    /\ turn.psock.handed = ps.handed
    /\ turn.slen \in Nat /\ turn.slen <= mss /\ turn.slen <= turn.psock.sendlen
    /\ turn.slen > 0 => turn.psock.state = "DATA_SENT"
    /\ ~acked => turn.psock.sendlen = ps.sendlen /\ turn.psock.sendptr = ps.sendptr
    /\ ~acked /\ ps.state = "DATA_SENT" => turn.psock.state = "DATA_SENT"
    /\ ~acked /\ ~rexmit /\ ps.state = "DATA_SENT" => turn.slen = 0

LEMMA SendChunkFacts ==
  ASSUME NEW ps, GoodPsock(ps), NEW mss \in SegmentSizes
  PROVE  LET turn == SendChunk(ps, mss)
         IN  /\ GoodPsock(turn.psock)
             /\ turn.psock.handed = ps.handed
             /\ turn.psock.sendlen = ps.sendlen /\ turn.psock.sendptr = ps.sendptr
             /\ turn.psock.state = "DATA_SENT"
             /\ turn.slen \in Nat /\ turn.slen <= mss /\ turn.slen <= turn.psock.sendlen
<1> DEFINE d == [ps EXCEPT !.state = "DATA_SENT"]
           n == Least(ps.sendlen, mss)
<1>1. ps \in PsockType /\ ps.sendlen \in Offsets /\ ps.sendptr + ps.sendlen = MessageLen
  BY DEF GoodPsock, PsockType
<1>a. ps.sendlen \in Nat /\ mss \in Nat
  BY <1>1, StreamAssumption DEF Offsets, SegmentSizes
<1>2. n \in Nat /\ n <= ps.sendlen /\ n <= mss
  BY <1>a, LeastIs
<1>3. SendChunk(ps, mss).psock = d /\ SendChunk(ps, mss).slen = n
  BY DEF SendChunk
<1> HIDE DEF n
<1>4. d \in PsockType
  BY <1>1, Zenon DEF PsockType, PsockStates
<1>5. d.sendlen = ps.sendlen /\ d.sendptr = ps.sendptr /\ d.handed = ps.handed
      /\ d.state = "DATA_SENT"
  BY <1>1 DEF PsockType
<1> HIDE DEF d
<1> QED
  BY <1>1, <1>2, <1>3, <1>4, <1>5 DEF GoodPsock

LEMMA PsockTurnFacts ==
  ASSUME NEW ps, GoodPsock(ps), NEW mss \in SegmentSizes,
         NEW rexmit \in BOOLEAN, NEW acked \in BOOLEAN,
         NEW turn, turn = PsockTurn(ps, mss, rexmit, acked)
  PROVE  TurnFits(ps, mss, rexmit, acked, turn)
<1> DEFINE next == ChunkAcked(ps, mss)
<1>0. ps.sendlen \in Nat /\ mss \in Nat
  BY StreamAssumption DEF GoodPsock, PsockType, Offsets, SegmentSizes
<1>1. GoodPsock(next) /\ next.handed = ps.handed
  BY ChunkAckedFacts
<1>2. next.sendlen \in Nat
  BY <1>1, StreamAssumption DEF GoodPsock, PsockType, Offsets
<1>3. ASSUME NEW p, GoodPsock(p)
      PROVE  Silent(p).psock = p /\ Silent(p).slen = 0 /\ 0 <= p.sendlen
  BY <1>3, StreamAssumption DEF Silent, GoodPsock, PsockType, Offsets
<1>4. CASE ps.sendlen = 0
  <2>1. turn = Silent(ps)
    BY <1>0, <1>4 DEF PsockTurn
  <2> QED
    BY <1>0, <1>3, <2>1 DEF TurnFits
<1>5. CASE ps.sendlen > 0 /\ MustSend(ps, rexmit)
  <2>1. turn = SendChunk(ps, mss)
    BY <1>0, <1>5 DEF PsockTurn
  <2> QED
    BY <1>5, <2>1, SendChunkFacts DEF TurnFits, MustSend
<1>6. CASE ps.sendlen > 0 /\ ~MustSend(ps, rexmit) /\ ~acked
  <2>1. turn = Silent(ps)
    BY <1>0, <1>6 DEF PsockTurn
  <2> QED
    BY <1>0, <1>3, <2>1 DEF TurnFits
<1>7. CASE ps.sendlen > 0 /\ ~MustSend(ps, rexmit) /\ acked
  <2>1. turn = IF next.sendlen = 0 THEN Silent(next) ELSE SendChunk(next, mss)
    BY <1>0, <1>7 DEF PsockTurn
  <2> HIDE DEF next
  <2>2. CASE next.sendlen = 0
    <3>1. turn = Silent(next)
      BY <2>1, <2>2
    <3>2. turn.psock = next /\ turn.slen = 0 /\ 0 <= next.sendlen
      BY <1>1, <1>3, <3>1
    <3>3. 0 \in Nat /\ 0 <= mss /\ ~(0 > 0)
      BY <1>0
    <3> QED
      BY <1>1, <1>7, <3>2, <3>3, Zenon DEF TurnFits
  <2>3. CASE next.sendlen # 0
    <3>1. turn = SendChunk(next, mss)
      BY <2>1, <2>3
    <3>2. /\ GoodPsock(turn.psock) /\ turn.psock.handed = next.handed
          /\ turn.psock.state = "DATA_SENT"
          /\ turn.slen \in Nat /\ turn.slen <= mss /\ turn.slen <= turn.psock.sendlen
      BY <1>1, <3>1, SendChunkFacts
    <3> QED
      BY <1>1, <1>7, <3>2 DEF TurnFits
  <2> QED
    BY <2>2, <2>3
<1> QED
  BY <1>0, <1>4, <1>5, <1>6, <1>7

LEMMA PutFits ==
  ASSUME ToPeerFits(toPeer), NEW u \in UipType, NEW data, Len(data) \in Nat, NEW fin,
         Transmit(u, data, fin)
  PROVE  ToPeerFits(toPeer')
<1> DEFINE sg == UipSegment(u, data, fin)
<1>1. sg.seq \in Seqnos /\ Len(sg.data) \in Nat
  BY DEF UipSegment, UipType
<1>2. toPeer' = IF Cardinality(toPeer) < NetToPeer THEN toPeer \cup {sg} ELSE toPeer
  BY DEF Transmit, Put
<1> HIDE DEF sg
<1>3. CASE Cardinality(toPeer) < NetToPeer
  <2>1. IsFiniteSet(toPeer) /\ toPeer' = toPeer \cup {sg} /\ NetToPeer \in Nat
    BY <1>2, <1>3, StreamAssumption DEF ToPeerFits
  <2>2. /\ IsFiniteSet(toPeer')
        /\ Cardinality(toPeer') = IF sg \in toPeer THEN Cardinality(toPeer)
                                  ELSE Cardinality(toPeer) + 1
    BY <2>1, FS_AddElement
  <2>3. Cardinality(toPeer) \in Nat
    BY <2>1, FS_CardinalityType
  <2>4. Cardinality(toPeer') <= NetToPeer
    BY <1>3, <2>1, <2>2, <2>3
  <2> QED
    BY <1>1, <2>1, <2>2, <2>4 DEF ToPeerFits
<1>4. CASE ~(Cardinality(toPeer) < NetToPeer)
  BY <1>2, <1>4
<1> QED
  BY <1>3, <1>4

LEMMA NoData == Len(<< >>) \in Nat
  OBVIOUS

LEMMA PayloadLength ==
  ASSUME NEW ps, NEW slen, NEW n \in Nat
  PROVE  Len(Payload(ps, slen, n)) \in Nat
  BY DEF Payload

LEMMA AfterAckFits ==
  ASSUME NEW u \in UipType, NEW sg
  PROVE  /\ Acked(u, sg) \in BOOLEAN
         /\ AfterAck(u, sg) \in UipType
         /\ AfterAck(u, sg).state = u.state /\ AfterAck(u, sg).mss = u.mss
         /\ AfterAck(u, sg).len = IF Acked(u, sg) THEN 0 ELSE u.len
<1>1. Acked(u, sg) \in BOOLEAN
  BY DEF Acked, Outstanding
<1>2. CASE Acked(u, sg)
  <2>1. AfterAck(u, sg) = [u EXCEPT !.snd_nxt = sg.ack, !.len = 0]
    BY <1>2 DEF AfterAck
  <2>2. u.snd_nxt \in Int /\ u.len \in Int
    BY StreamAssumption DEF UipType, Seqnos, Lengths
  <2>3. sg.ack \in Seqnos /\ 0 \in Lengths
    BY <1>2, <2>2, Bounds DEF Acked
  <2>4. [u EXCEPT !.snd_nxt = sg.ack, !.len = 0] \in UipType
    BY <2>3, Zenon DEF UipType
  <2> QED
    BY <1>1, <1>2, <2>1, <2>4 DEF UipType
<1>3. CASE ~Acked(u, sg)
  BY <1>1, <1>3 DEF AfterAck
<1> QED
  BY <1>2, <1>3

LEMMA ReceivedFits ==
  ASSUME NEW u \in UipType, NEW n \in Int
  PROVE  /\ Received(u, n) \in UipType
         /\ Received(u, n).state = u.state /\ Received(u, n).mss = u.mss
         /\ Received(u, n).len = u.len
<1> DEFINE r == Add32(u.rcv_nxt, n)
<1>1. u.rcv_nxt \in Int
  BY StreamAssumption DEF UipType, Seqnos
<1>2. r \in Seqnos
  BY <1>1, Bounds
<1>3. Received(u, n) = [u EXCEPT !.rcv_nxt = r]
  BY DEF Received
<1> HIDE DEF r
<1>4. [u EXCEPT !.rcv_nxt = r] \in UipType
  BY <1>2, Zenon DEF UipType
<1> QED
  BY <1>3, <1>4 DEF UipType

LEMMA StateFits ==
  ASSUME NEW u \in UipType, NEW state \in UipStates
  PROVE  [u EXCEPT !.state = state] \in UipType /\ [u EXCEPT !.state = state].state = state
<1>1. [u EXCEPT !.state = state] \in UipType
  BY Zenon DEF UipType
<1> QED
  BY <1>1 DEF UipType

\* A connection that is being closed sends one byte's worth: its FIN.
LEMMA FinFits ==
  ASSUME NEW u \in UipType, NEW state \in UipStates
  PROVE  /\ [u EXCEPT !.state = state, !.len = 1, !.nrtx = 0] \in UipType
         /\ [u EXCEPT !.state = state, !.len = 1, !.nrtx = 0].state = state
<1>1. [u EXCEPT !.state = state, !.len = 1, !.nrtx = 0] \in UipType
  BY Bounds, Zenon DEF UipType
<1> QED
  BY <1>1 DEF UipType

\* A step that leaves the connection in another state than ESTABLISHED and the
\* protosocket alone.
LEMMA ClosedFits ==
  ASSUME UipFits, uip' \in UipType, uip'.state # "ESTABLISHED" \/ uip' = uip, psock' = psock
  PROVE  UipFits'
  BY DEF UipFits, Waits

LEMMA AppTurnFits ==
  ASSUME NEW u \in UipType, u.state = "ESTABLISHED", GoodPsock(psock), Waits(u, psock),
         ToPeerFits(toPeer), NEW newdata, NEW acked \in BOOLEAN, acked => u.len = 0,
         AppTurn(u, newdata, acked)
  PROVE  UipFits' /\ ToPeerFits(toPeer')
<1> DEFINE turn == PsockTurn(psock, u.mss, FALSE, acked)
<1>1. u.mss \in SegmentSizes /\ u.len \in Lengths
  BY DEF UipType
<1>2. TurnFits(psock, u.mss, FALSE, acked, turn)
  BY <1>1, PsockTurnFacts
<1>3. \/ AppSends(u, turn)
      \/ AppWaits(u, turn, newdata)
      \/ psock' = turn.psock /\ AppCloses(u)
      \/ psock' = psock /\ AppCloses(u)
  BY Zenon DEF AppTurn
<1> HIDE DEF turn
<1>4. CASE AppSends(u, turn)
  <2> DEFINE n == Least(turn.slen, u.mss)
             v == [u EXCEPT !.len = n, !.nrtx = 0]
             h == IF turn.psock.sendptr + n > turn.psock.handed THEN turn.psock.sendptr + n
                  ELSE turn.psock.handed
             p == [turn.psock EXCEPT !.handed = h]
  <2>1. turn.slen > 0
    BY <1>4 DEF AppSends
  <2>2. u.len = 0
    BY <1>1, <1>2, <2>1, StreamAssumption DEF TurnFits, Waits, Lengths
  <2>3. /\ uip' = v /\ psock' = p
        /\ Transmit(u, Payload(turn.psock, turn.slen, n), FALSE)
    BY <1>4, <2>2 DEF AppSends
  <2>4. n \in Nat /\ n <= turn.slen /\ n <= u.mss
    BY <1>1, <1>2, LeastIs DEF TurnFits, SegmentSizes
  <2> HIDE DEF n
  <2>5. n \in Lengths /\ 0 \in Retries
    <3>1. u.mss \in Nat /\ u.mss <= UIP_TCP_MSS /\ UIP_TCP_MSS \in Nat
      BY <1>1, StreamAssumption DEF SegmentSizes
    <3>2. n <= UIP_TCP_MSS
      BY <2>4, <3>1
    <3> QED
      BY <2>4, <3>1, <3>2, Bounds DEF Lengths
  <2>6. v \in UipType /\ v.state = "ESTABLISHED" /\ v.len = n
    <3>1. v \in UipType
      BY <2>5, Zenon DEF UipType
    <3> QED
      BY <3>1 DEF UipType
  <2> HIDE DEF v
  <2>7. /\ turn.psock \in PsockType /\ turn.psock.sendptr + turn.psock.sendlen = MessageLen
        /\ turn.psock.state = "DATA_SENT" /\ n <= turn.psock.sendlen
    <3>1. turn.psock.sendlen \in Nat
      BY <1>2, StreamAssumption DEF TurnFits, GoodPsock, PsockType, Offsets
    <3> QED
      BY <1>2, <2>1, <2>4, <3>1 DEF TurnFits, GoodPsock
  <2>8. h \in Offsets
    <3>1. /\ turn.psock.sendptr \in 0 .. MessageLen /\ turn.psock.sendlen \in 0 .. MessageLen
          /\ turn.psock.handed \in 0 .. MessageLen
      BY <2>7 DEF PsockType, Offsets
    <3> QED
      BY <2>4, <2>7, <3>1, StreamAssumption DEF Offsets
  <2> HIDE DEF h
  <2>9. p \in PsockType
    BY <2>7, <2>8, Zenon DEF PsockType
  <2>10. p.state = "DATA_SENT" /\ p.sendptr = turn.psock.sendptr
         /\ p.sendlen = turn.psock.sendlen
    BY <2>7 DEF PsockType
  <2> HIDE DEF p
  <2>11. UipFits'
    BY <2>3, <2>6, <2>7, <2>9, <2>10 DEF UipFits, GoodPsock, Waits
  <2>12. ToPeerFits(toPeer')
    BY <2>3, <2>4, PayloadLength, PutFits
  <2> QED
    BY <2>11, <2>12
<1>5. CASE AppWaits(u, turn, newdata)
  <2> DEFINE v == [u EXCEPT !.nrtx = 0]
  <2>1. uip' = v /\ psock' = turn.psock
    BY <1>5 DEF AppWaits
  <2>2. v \in UipType
    BY Bounds, Zenon DEF UipType
  <2>3. v.len = u.len
    BY DEF UipType
  <2> HIDE DEF v
  <2>4. Waits(v, turn.psock)
    BY <1>2, <2>3 DEF Waits, TurnFits
  <2>5. UipFits'
    BY <1>2, <2>1, <2>2, <2>4 DEF UipFits, TurnFits
  <2>6. ToPeerFits(toPeer')
    BY <1>5, NoData, PutFits DEF AppWaits, SendAck, SendNothing
  <2> QED
    BY <2>5, <2>6
<1>6. CASE AppCloses(u) /\ psock' \in {turn.psock, psock}
  <2>1. uip' \in UipType /\ uip'.state = "FIN_WAIT_1"
    BY <1>6, FinFits DEF AppCloses, UipStates
  <2>2. GoodPsock(psock')
    BY <1>2, <1>6 DEF TurnFits
  <2>3. ToPeerFits(toPeer')
    BY <1>6, NoData, PutFits DEF AppCloses
  <2> QED
    BY <2>1, <2>2, <2>3 DEF UipFits, Waits
<1> QED
  BY <1>3, <1>4, <1>5, <1>6

LEMMA TickFits ==
  ASSUME UipFits, ToPeerFits(toPeer), Tick
  PROVE  UipFits' /\ ToPeerFits(toPeer')
<1>1. uip \in UipType /\ GoodPsock(psock) /\ Waits(uip, psock)
  BY DEF UipFits
<1>2. CASE TickGiveUp \/ TickWait
  <2>1. uip' = [uip EXCEPT !.state = "CLOSED"] /\ psock' = psock /\ toPeer' = toPeer
    BY <1>2 DEF TickGiveUp, TickWait
  <2>2. uip' \in UipType /\ uip'.state = "CLOSED"
    BY <1>1, <2>1, StateFits DEF UipStates
  <2> QED
    BY <2>1, <2>2, ClosedFits
<1>3. CASE TickAppRetransmit
  <2> DEFINE turn == PsockTurn(psock, uip.mss, TRUE, FALSE)
             n == uip.nrtx + 1
             v == [uip EXCEPT !.nrtx = n]
  <2>1. /\ uip.nrtx < UIP_MAXRTX /\ uip' = v /\ psock' = turn.psock
        /\ \/ Transmit(uip, Payload(psock, turn.slen, uip.len), FALSE)
           \/ toPeer' = toPeer
    BY <1>3, Zenon DEF TickAppRetransmit, SendNothing
  <2>2. TurnFits(psock, uip.mss, TRUE, FALSE, turn)
    BY <1>1, PsockTurnFacts DEF UipType
  <2> HIDE DEF turn
  <2>3. n \in Retries
    <3>1. uip.nrtx \in 0 .. UIP_MAXRTX
      BY <1>1 DEF UipType, Retries
    <3> QED
      BY <2>1, <3>1, MaxIsNat DEF Retries
  <2> HIDE DEF n
  <2>4. v \in UipType
    BY <1>1, <2>3, Zenon DEF UipType
  <2>5. v.len = uip.len /\ v.state = uip.state
    BY <1>1 DEF UipType
  <2> HIDE DEF v
  <2>6. Waits(v, turn.psock)
    BY <1>1, <2>2, <2>5 DEF Waits, TurnFits
  <2>7. UipFits'
    BY <2>1, <2>2, <2>4, <2>6 DEF UipFits, TurnFits
  <2>8. uip.len \in Nat
    BY <1>1, StreamAssumption DEF UipType, Lengths
  <2>9. ToPeerFits(toPeer')
    BY <1>1, <2>1, <2>8, PayloadLength, PutFits
  <2> QED
    BY <2>7, <2>9
<1>4. CASE TickRetransmitFin
  <2> DEFINE n == uip.nrtx + 1
             v == [uip EXCEPT !.nrtx = n]
  <2>1. /\ uip.nrtx < UIP_MAXRTX /\ uip' = v /\ psock' = psock
        /\ uip.state # "ESTABLISHED" /\ Transmit(uip, << >>, TRUE)
    BY <1>4 DEF TickRetransmitFin
  <2>2. n \in Retries
    <3>1. uip.nrtx \in 0 .. UIP_MAXRTX
      BY <1>1 DEF UipType, Retries
    <3> QED
      BY <2>1, <3>1, MaxIsNat DEF Retries
  <2> HIDE DEF n
  <2>3. v \in UipType
    BY <1>1, <2>2, Zenon DEF UipType
  <2>4. v.state = uip.state
    BY <1>1 DEF UipType
  <2> HIDE DEF v
  <2>5. ToPeerFits(toPeer')
    BY <1>1, <2>1, NoData, PutFits
  <2> QED
    BY <2>1, <2>3, <2>4, <2>5, ClosedFits
<1>5. CASE TickPoll
  <2>1. uip.state = "ESTABLISHED" /\ AppTurn(uip, FALSE, FALSE)
    BY <1>5 DEF TickPoll
  <2> QED
    BY <1>1, <2>1, AppTurnFits
<1> QED
  BY <1>2, <1>3, <1>4, <1>5 DEF Tick

LEMMA RecvFits ==
  ASSUME UipFits, ToPeerFits(toPeer), ToUipFits(toUip), NEW sg \in toUip, Recv(sg)
  PROVE  UipFits' /\ ToPeerFits(toPeer')
<1> DEFINE u == AfterAck(uip, sg)
           k == Len(sg.data)
<1>1. uip \in UipType /\ GoodPsock(psock) /\ Waits(uip, psock)
  BY DEF UipFits
<1>2. /\ Acked(uip, sg) \in BOOLEAN
      /\ u \in UipType /\ u.state = uip.state /\ u.mss = uip.mss
      /\ u.len = IF Acked(uip, sg) THEN 0 ELSE uip.len
  BY <1>1, AfterAckFits
<1>3. k \in Int /\ k + 1 \in Int /\ 1 \in Int /\ sg.wnd \in 0 .. PeerBuf
  BY DEF ToUipFits
<1> HIDE DEF u, k
<1>4. CASE RecvOutOfOrder(sg) \/ RecvInTimeWait(sg)
  <2>1. uip' = uip /\ psock' = psock /\ Transmit(uip, << >>, FALSE)
    BY <1>4 DEF RecvOutOfOrder, RecvInTimeWait, SendAck
  <2> QED
    BY <1>1, <2>1, NoData, PutFits, ClosedFits
<1>5. CASE RecvFinInEstablished(sg)
  <2>1. CASE UNCHANGED <<uip, psock, heard, toPeer>>
    BY <1>1, <2>1, ClosedFits
  <2>2. CASE /\ uip' = [Received(u, k + 1) EXCEPT !.state = "LAST_ACK", !.len = 1, !.nrtx = 0]
             /\ psock' = PsockTurn(psock, u.mss, FALSE, Acked(uip, sg)).psock
             /\ Transmit(uip', << >>, TRUE)
    <3>1. Received(u, k + 1) \in UipType
      BY <1>2, <1>3, ReceivedFits
    <3>2. uip' \in UipType /\ uip'.state = "LAST_ACK"
      BY <2>2, <3>1, FinFits DEF UipStates
    <3>3. u.mss \in SegmentSizes
      BY <1>2 DEF UipType
    <3>4. GoodPsock(psock')
      BY <1>1, <1>2, <2>2, <3>3, PsockTurnFacts DEF TurnFits
    <3>5. ToPeerFits(toPeer')
      BY <2>2, <3>2, NoData, PutFits
    <3> QED
      BY <3>2, <3>4, <3>5 DEF UipFits, Waits
  <2> QED
    BY <1>5, <2>1, <2>2, Zenon DEF RecvFinInEstablished, u, k
<1>6. CASE RecvInEstablished(sg)
  <2> DEFINE w == Received(u, k)
             m == Mss(sg)
             v == [w EXCEPT !.mss = m]
             newdata == sg.data # << >>
  <2>1. /\ uip.state = "ESTABLISHED"
        /\ IF newdata \/ Acked(uip, sg) THEN AppTurn(v, newdata, Acked(uip, sg))
           ELSE uip' = v /\ toPeer' = toPeer /\ psock' = psock
    BY <1>6, Zenon DEF RecvInEstablished, SendNothing, u, k
  <2>2. w \in UipType /\ w.state = "ESTABLISHED" /\ w.len = u.len
    BY <1>2, <1>3, <2>1, ReceivedFits
  <2> HIDE DEF w
  <2>3. m \in SegmentSizes
    BY <1>3, StreamAssumption DEF Mss, SegmentSizes
  <2> HIDE DEF m
  <2>4. v \in UipType
    BY <2>2, <2>3, Zenon DEF UipType
  <2>5. v.state = "ESTABLISHED" /\ v.len = u.len
    BY <2>2 DEF UipType
  <2> HIDE DEF v, newdata
  <2>6. Waits(v, psock) /\ (Acked(uip, sg) => v.len = 0)
    BY <1>1, <1>2, <2>1, <2>5 DEF Waits
  <2>7. CASE newdata \/ Acked(uip, sg)
    BY <1>1, <1>2, <2>1, <2>4, <2>5, <2>6, <2>7, AppTurnFits
  <2>8. CASE ~(newdata \/ Acked(uip, sg))
    BY <1>1, <2>1, <2>4, <2>6, <2>8 DEF UipFits
  <2> QED
    BY <2>7, <2>8
<1>7. CASE RecvInLastAck(sg) \/ RecvInClosing(sg)
  <2>1. PICK state \in {"CLOSED", "TIME_WAIT"} : uip' = uip \/ uip' = [u EXCEPT !.state = state]
    BY <1>7 DEF RecvInLastAck, RecvInClosing, u
  <2>a. state \in UipStates
    BY DEF UipStates
  <2>2. [u EXCEPT !.state = state] \in UipType /\ [u EXCEPT !.state = state].state = state
    BY <1>2, <2>a, StateFits
  <2>3. psock' = psock /\ toPeer' = toPeer
    BY <1>7 DEF RecvInLastAck, RecvInClosing, SendNothing
  <2> QED
    BY <1>1, <2>1, <2>2, <2>3, ClosedFits
<1>8. CASE RecvInFinWait1(sg)
  <2> DEFINE v == Received(u, k)
  <2>1. /\ psock' = psock /\ uip.state = "FIN_WAIT_1"
        /\ \/ /\ \E state \in {"TIME_WAIT", "CLOSING"} :
                    uip' = [Received(v, 1) EXCEPT !.state = state]
              /\ Transmit(uip', << >>, FALSE)
           \/ uip' = [v EXCEPT !.state = "FIN_WAIT_2"] /\ toPeer' = toPeer
           \/ uip' = v /\ (Transmit(v, << >>, FALSE) \/ toPeer' = toPeer)
    BY <1>8 DEF RecvInFinWait1, SendAck, SendNothing, u, k
  <2>2. v \in UipType /\ v.state = "FIN_WAIT_1"
    BY <1>2, <1>3, <2>1, ReceivedFits
  <2> HIDE DEF v
  <2>3. Received(v, 1) \in UipType
    BY <1>3, <2>2, ReceivedFits
  <2>a. \A state \in {"TIME_WAIT", "CLOSING", "FIN_WAIT_2"} : state \in UipStates
    BY DEF UipStates
  <2>4. uip' \in UipType /\ uip'.state # "ESTABLISHED"
    <3>1. CASE \E state \in {"TIME_WAIT", "CLOSING"} :
                  uip' = [Received(v, 1) EXCEPT !.state = state]
      BY <2>3, <2>a, <3>1, StateFits
    <3>2. CASE uip' = [v EXCEPT !.state = "FIN_WAIT_2"]
      BY <2>2, <2>a, <3>2, StateFits
    <3> QED
      BY <2>1, <2>2, <3>1, <3>2
  <2>5. Transmit(uip', << >>, FALSE) \/ toPeer' = toPeer
    BY <2>1
  <2> QED
    BY <2>1, <2>4, <2>5, NoData, PutFits, ClosedFits
<1>9. CASE RecvInFinWait2(sg)
  <2> DEFINE v == Received(uip, k)
  <2>1. /\ psock' = psock /\ uip.state = "FIN_WAIT_2"
        /\ uip' = v \/ uip' = [Received(v, 1) EXCEPT !.state = "TIME_WAIT"]
        /\ Transmit(uip', << >>, FALSE) \/ toPeer' = toPeer
    BY <1>9 DEF RecvInFinWait2, SendAck, SendNothing, k
  <2>2. v \in UipType /\ v.state = "FIN_WAIT_2"
    BY <1>1, <1>3, <2>1, ReceivedFits
  <2> HIDE DEF v
  <2>3. Received(v, 1) \in UipType
    BY <1>3, <2>2, ReceivedFits
  <2>4. uip' \in UipType /\ uip'.state # "ESTABLISHED"
    BY <2>1, <2>2, <2>3, StateFits DEF UipStates
  <2> QED
    BY <2>1, <2>4, NoData, PutFits, ClosedFits
<1> QED
  BY <1>4, <1>5, <1>6, <1>7, <1>8, <1>9 DEF Recv

-----------------------------------------------------------------------------
(* The peer and the network stay within theirs                             *)

LEMMA SubsetFits ==
  ASSUME NEW net
  PROVE  /\ ToPeerFits(toPeer) /\ net \subseteq toPeer => ToPeerFits(net)
         /\ ToUipFits(toUip) /\ net \subseteq toUip => ToUipFits(net)
<1>1. ASSUME NEW S, IsFiniteSet(S), net \subseteq S, NEW m \in Nat, Cardinality(S) <= m
      PROVE  IsFiniteSet(net) /\ Cardinality(net) <= m
  <2>1. IsFiniteSet(net) /\ Cardinality(net) <= Cardinality(S)
    BY <1>1, FS_Subset
  <2>2. Cardinality(S) \in Nat /\ Cardinality(net) \in Nat
    BY <1>1, <2>1, FS_CardinalityType
  <2> QED
    BY <1>1, <2>1, <2>2
<1>2. NetToPeer \in Nat /\ NetToUip \in Nat
  BY StreamAssumption
<1>3. ASSUME ToPeerFits(toPeer), net \subseteq toPeer PROVE ToPeerFits(net)
  <2>1. IsFiniteSet(net) /\ Cardinality(net) <= NetToPeer
    BY <1>1, <1>2, <1>3 DEF ToPeerFits
  <2> QED
    BY <1>3, <2>1 DEF ToPeerFits
<1>4. ASSUME ToUipFits(toUip), net \subseteq toUip PROVE ToUipFits(net)
  <2>1. IsFiniteSet(net) /\ Cardinality(net) <= NetToUip
    BY <1>1, <1>2, <1>4 DEF ToUipFits
  <2> QED
    BY <1>4, <2>1 DEF ToUipFits
<1> QED
  BY <1>3, <1>4

LEMMA PeerSendFits ==
  ASSUME ToUipFits(toUip), PeerFits(peer), NEW from \in 0 .. PeerLen, NEW n \in 0 .. PeerLen,
         NEW fin, SentInRange, PeerSend(from, n, fin)
  PROVE  ToUipFits(toUip') /\ PeerFits(peer')
<1> DEFINE sg == [seq |-> Add32(IRS, from), ack |-> peer.rcv_nxt,
                  data |-> SubSeq(PeerMessage, from + 1, from + n), fin |-> fin,
                  wnd |-> PeerBuf - peer.unread]
<1>1. toUip' = IF Cardinality(toUip) < NetToUip THEN toUip \cup {sg} ELSE toUip
  BY DEF PeerSend, Put
<1>2. sg.wnd = PeerBuf - peer.unread /\ sg.data = Part(from, n)
  BY DEF Part
<1>3. sg.wnd \in 0 .. PeerBuf
  BY <1>2, StreamAssumption DEF PeerFits
<1>4. from + n <= PeerLen
  <2>1. /\ from + n <= Least(PeerLen, peer.una + UIP_TCP_MSS)
        /\ peer.una \in Nat
    BY StreamAssumption DEF PeerSend, SentInRange
  <2> QED
    BY <2>1, StreamAssumption DEF Least
<1>5. from \in Nat /\ n \in Nat
  BY StreamAssumption
<1>6. Len(sg.data) \in Nat
  BY <1>2, <1>4, <1>5, PartIs
<1> HIDE DEF sg
<1>7. ToUipFits(toUip')
  <2>1. CASE Cardinality(toUip) < NetToUip
    <3>1. IsFiniteSet(toUip) /\ toUip' = toUip \cup {sg} /\ NetToUip \in Nat
      BY <1>1, <2>1, StreamAssumption DEF ToUipFits
    <3>2. /\ IsFiniteSet(toUip')
          /\ Cardinality(toUip') = IF sg \in toUip THEN Cardinality(toUip)
                                   ELSE Cardinality(toUip) + 1
      BY <3>1, FS_AddElement
    <3>3. Cardinality(toUip) \in Nat
      BY <3>1, FS_CardinalityType
    <3>4. Cardinality(toUip') <= NetToUip
      BY <2>1, <3>1, <3>2, <3>3
    <3> QED
      BY <1>3, <1>6, <3>1, <3>2, <3>4 DEF ToUipFits
  <2>2. CASE ~(Cardinality(toUip) < NetToUip)
    BY <1>1, <2>2
  <2> QED
    BY <2>1, <2>2
<1>8. PeerFits(peer')
  BY DEF PeerFits, PeerSend, IsPeer
<1> QED
  BY <1>7, <1>8

LEMMA PeerRecvFits ==
  ASSUME ToPeerFits(toPeer), PeerFits(peer), NEW sg \in toPeer, PeerRecv(sg)
  PROVE  ToPeerFits(toPeer') /\ PeerFits(peer')
<1> DEFINE old == Sub32(peer.rcv_nxt, sg.seq)
           fits == old <= Len(sg.data) /\ ~peer.fin
           n == IF fits THEN Least(Len(sg.data) - old, PeerBuf - peer.unread) ELSE 0
           fin == fits /\ sg.fin /\ old + n = Len(sg.data)
           m == n + (IF fin THEN 1 ELSE 0)
<1>1. /\ \E g, f, a : peer' = [peer EXCEPT !.got = g, !.unread = peer.unread + n,
                                  !.rcv_nxt = Add32(peer.rcv_nxt, m), !.fin = f, !.una = a]
      /\ toPeer' \in {toPeer, toPeer \ {sg}}
  BY DEF PeerRecv, PeerFits, IsPeer
<1>2. /\ peer.rcv_nxt \in Int /\ sg.seq \in Int /\ Len(sg.data) \in Nat
      /\ peer.unread \in 0 .. PeerBuf /\ IsPeer(peer)
  BY StreamAssumption DEF PeerFits, ToPeerFits, Seqnos
<1>3. old \in Nat
  BY <1>2, Bounds
<1> HIDE DEF old
<1>4. n \in Nat /\ n <= PeerBuf - peer.unread
  <2>1. CASE fits
    <3>1. Len(sg.data) - old \in Nat /\ PeerBuf - peer.unread \in Nat
      BY <1>2, <1>3, <2>1, StreamAssumption
    <3>2. n = Least(Len(sg.data) - old, PeerBuf - peer.unread)
      BY <2>1
    <3> QED
      BY <3>1, <3>2, LeastIs
  <2>2. CASE ~fits
    BY <1>2, <2>2, StreamAssumption
  <2> QED
    BY <2>1, <2>2
<1>5. m \in Int
  BY <1>4
<1> HIDE DEF n, m
<1>6. peer.unread + n \in 0 .. PeerBuf /\ Add32(peer.rcv_nxt, m) \in Seqnos
  <2>1. PeerBuf \in Nat
    BY StreamAssumption
  <2>2. peer.unread + n \in 0 .. PeerBuf
    BY <1>2, <1>4, <2>1
  <2> QED
    BY <1>2, <1>5, <2>2, Bounds
<1>7. PeerFits(peer')
  <2>1. IsPeer(peer') /\ peer'.unread = peer.unread + n /\ peer'.rcv_nxt = Add32(peer.rcv_nxt, m)
    BY <1>1, <1>2 DEF IsPeer
  <2> QED
    BY <1>6, <2>1 DEF PeerFits
<1>8. ToPeerFits(toPeer')
  BY <1>1, SubsetFits
<1> QED
  BY <1>7, <1>8

LEMMA InitFits == Init => SendInv
<1> SUFFICES ASSUME Init PROVE SendInv
  OBVIOUS
<1>1. uip \in UipType
  BY Bounds DEF Init, UipType, UipStates
<1>2. psock \in PsockType /\ psock.sendptr = 0 /\ psock.sendlen = MessageLen
  BY Bounds DEF Init, PsockType, PsockStates
<1>3. UipFits
  BY <1>1, <1>2, StreamAssumption DEF Init, UipFits, GoodPsock, Waits
<1>4. ToPeerFits(toPeer) /\ ToUipFits(toUip)
  BY FS_EmptySet, StreamAssumption DEF Init, ToPeerFits, ToUipFits
<1>5. PeerFits(peer)
  <2>1. peer.unread = 0 /\ peer.rcv_nxt = ISS /\ IsPeer(peer)
    BY DEF Init, IsPeer
  <2> QED
    BY <2>1, Bounds, StreamAssumption DEF PeerFits
<1> QED
  BY <1>3, <1>4, <1>5 DEF SendInv

LEMMA StepFits == SendInv /\ SentInRange /\ [Next]_vars => SendInv'
<1> SUFFICES ASSUME SendInv, SentInRange, [Next]_vars PROVE SendInv'
  OBVIOUS
<1>1. UipFits /\ ToPeerFits(toPeer) /\ ToUipFits(toUip) /\ PeerFits(peer)
  BY DEF SendInv
<1>2. CASE UNCHANGED vars
  BY <1>1, <1>2 DEF vars, SendInv, UipFits
<1>3. CASE Tick
  <2>1. toUip' = toUip /\ peer' = peer
    BY <1>3 DEF Tick
  <2> QED
    BY <1>1, <1>3, <2>1, TickFits DEF SendInv
<1>4. ASSUME NEW sg \in toUip, Recv(sg)
      PROVE  SendInv'
  <2>1. toUip' \subseteq toUip /\ peer' = peer
    BY <1>4 DEF Recv
  <2>2. ToUipFits(toUip')
    BY <1>1, <2>1, SubsetFits
  <2> QED
    BY <1>1, <1>4, <2>1, <2>2, RecvFits DEF SendInv
<1>5. ASSUME NEW from \in 0 .. PeerLen, NEW n \in 0 .. PeerLen, NEW fin \in BOOLEAN,
             PeerSend(from, n, fin)
      PROVE  SendInv'
  <2>1. uip' = uip /\ psock' = psock /\ toPeer' = toPeer
    BY <1>5 DEF PeerSend
  <2>2. ToUipFits(toUip') /\ PeerFits(peer')
    BY <1>1, <1>5, PeerSendFits
  <2> QED
    BY <1>1, <2>1, <2>2 DEF SendInv, UipFits
<1>6. ASSUME NEW sg \in toPeer, PeerRecv(sg)
      PROVE  SendInv'
  <2>1. uip' = uip /\ psock' = psock /\ toUip' = toUip
    BY <1>6 DEF PeerRecv
  <2>2. ToPeerFits(toPeer') /\ PeerFits(peer')
    BY <1>1, <1>6, PeerRecvFits
  <2> QED
    BY <1>1, <2>1, <2>2 DEF SendInv, UipFits
<1>7. CASE PeerRead
  <2>1. uip' = uip /\ psock' = psock /\ toPeer' = toPeer /\ toUip' = toUip
        /\ peer' = [peer EXCEPT !.unread = 0]
    BY <1>7 DEF PeerRead
  <2>2. peer'.unread = 0 /\ peer'.rcv_nxt = peer.rcv_nxt /\ IsPeer(peer')
    BY <1>1, <2>1 DEF PeerFits, IsPeer
  <2>3. PeerFits(peer')
    BY <1>1, <2>2, StreamAssumption DEF PeerFits
  <2> QED
    BY <1>1, <2>1, <2>3 DEF SendInv, UipFits
<1>8. CASE Lose
  <2>1. uip' = uip /\ psock' = psock /\ peer' = peer
        /\ toPeer' \subseteq toPeer /\ toUip' \subseteq toUip
    BY <1>8 DEF Lose
  <2>2. ToPeerFits(toPeer') /\ ToUipFits(toUip')
    BY <1>1, <2>1, SubsetFits
  <2> QED
    BY <1>1, <2>1, <2>2 DEF SendInv, UipFits
<1> QED
  BY <1>2, <1>3, <1>4, <1>5, <1>6, <1>7, <1>8 DEF Next

\* Sequence numbers, lengths and retransmission counts stay in range, and the
\* protosocket's pointer and its count of bytes left within its message, for
\* every window the peer may advertise meanwhile: ack_data() takes back what
\* the present mss says, which never is more than is left.
THEOREM TypeCorrect == Spec => []TypeOK
<1>1. SendInv => TypeOK
  BY DEF SendInv, UipFits, GoodPsock, ToPeerFits, ToUipFits, PeerFits, TypeOK, UipType,
         PsockType, UipStates, PsockStates, Seqnos, Lengths, SegmentSizes, Retries, Offsets
<1>2. Init => IInv
  BY InitGood
<1>3. IInv /\ [Next]_vars => IInv'
  BY StepGood, StutterGood
<1>4. IInv => SentInRange
  BY DEF IInv
<1> QED
  BY <1>1, <1>2, <1>3, <1>4, InitFits, StepFits, PTL DEF Spec

-----------------------------------------------------------------------------

(***************************************************************************)
(* The message gets to the peer                                            *)
(***************************************************************************)

\* The sequence number of the message's byte k + 1, and n bytes of the message
\* after the first a.
SeqOut(k) == Add32(ISS, k)
From(a, n) == [i \in 1 .. n |-> a + i]

\* What the protosocket hands out next when no window bounds it.
Chunk(ps) == Least(ps.sendlen, UIP_TCP_MSS)

\* Every window the peer advertises has room for the chunk that is out, or is
\* closed: what ack_data() takes for acknowledged is then what was sent.
WindowsFit == \A sg \in toUip : Mss(sg) >= Chunk(psock)

\* The connection and its protosocket agree on what is out and where it is in
\* the message; once the connection is being closed the FIN is out, or has
\* been acknowledged.
SenderIs(u, ps) ==
    /\ u.state = "ESTABLISHED" =>
          /\ ps.sendlen > 0 /\ Chunk(ps) <= u.mss
          /\ u.snd_nxt = SeqOut(ps.sendptr) /\ ps.handed = ps.sendptr + u.len
          /\ \/ u.len = 0 /\ ps.state # "DATA_SENT"
             \/ u.len = Chunk(ps) /\ ps.state = "DATA_SENT"
    /\ u.state \in {"FIN_WAIT_1", "CLOSING", "LAST_ACK"} =>
          u.len = 1 /\ u.snd_nxt = SeqOut(ps.handed) /\ ps.sendptr = ps.handed
    /\ u.state \in {"FIN_WAIT_2", "TIME_WAIT"} =>
          u.len = 0 /\ u.snd_nxt = SeqOut(ps.handed + 1) /\ ps.sendptr = ps.handed

\* The peer has the beginning of the message, all that is confirmed and no more
\* than was handed out, and the end only after everything.
PeerHas(p, ps, closing) ==
    /\ ps.sendptr <= Len(p.got) /\ Len(p.got) <= ps.handed /\ Len(p.got) \in Nat
    /\ p.got = From(0, Len(p.got))
    /\ p.fin \in BOOLEAN
    /\ p.fin => Len(p.got) = ps.handed /\ closing
    /\ p.rcv_nxt = SeqOut(Len(p.got) + Bit(p.fin))

Closing == uip.state # "ESTABLISHED"

\* A segment of uIP: the bytes of the message after the first a, or the FIN.
IsOut(sg, a, h, closing) ==
    /\ sg.seq = SeqOut(a)
    /\ Len(sg.data) \in Nat /\ sg.data = From(a, Len(sg.data))
    /\ Len(sg.data) > 0 => a + Len(sg.data) <= h
    /\ sg.fin \in BOOLEAN
    /\ sg.fin => Len(sg.data) = 0 /\ a = h /\ closing

FlightIsRight(net, h, closing) ==
    \A sg \in net : \E a \in 0 .. h + 1 : IsOut(sg, a, h, closing)

AcksAreRight(net, p) ==
    \A sg \in net : \E r \in 0 .. Len(p.got) + Bit(p.fin) : sg.ack = SeqOut(r)

OutInv ==
    /\ SenderIs(uip, psock)
    /\ PeerHas(peer, psock, Closing)
    /\ FlightIsRight(toPeer, psock.handed, Closing)
    /\ AcksAreRight(toUip, peer)

-----------------------------------------------------------------------------
LEMMA SeqOutIs ==
    ASSUME NEW k \in 0 .. MessageLen + 2
    PROVE  SeqOut(k) = IF ISS + k < SeqMod THEN ISS + k ELSE ISS + k - SeqMod
<1> DEFINE x == ISS + k
<1>1. /\ SeqMod \in Nat /\ SeqMod > 0 /\ x \in Int
      /\ -SeqMod <= x /\ x < 2 * SeqMod /\ ~(x < 0)
  BY StreamAssumption, SMT
<1> HIDE DEF x
<1>2. x % SeqMod = IF x < SeqMod THEN x ELSE x - SeqMod
  BY <1>1, Remainder
<1>3. SeqOut(k) = x % SeqMod
  BY DEF SeqOut, Add32, x
<1>4. x = ISS + k
  BY DEF x
<1>5. SeqOut(k) = IF x < SeqMod THEN x ELSE x - SeqMod
  BY <1>2, <1>3
<1> QED
  BY <1>1, <1>4, <1>5, StreamAssumption, SMT

LEMMA SeqOutIsInjective ==
    ASSUME NEW j \in 0 .. MessageLen + 2, NEW k \in 0 .. MessageLen + 2, SeqOut(j) = SeqOut(k)
    PROVE  j = k
BY SeqOutIs, StreamAssumption, SMT

LEMMA SeqOutGoesOn ==
    ASSUME NEW k \in 0 .. MessageLen + 2, NEW n \in 0 .. MessageLen + 2, k + n <= MessageLen + 2
    PROVE  Add32(SeqOut(k), n) = SeqOut(k + n)
<1> DEFINE a == SeqOut(k)
           x == a + n
<1>1. /\ a = IF ISS + k < SeqMod THEN ISS + k ELSE ISS + k - SeqMod
      /\ SeqOut(k + n) = IF ISS + (k + n) < SeqMod THEN ISS + (k + n) ELSE ISS + (k + n) - SeqMod
  BY SeqOutIs, StreamAssumption, SMT
<1> HIDE DEF a
<1>2. /\ SeqMod \in Nat /\ SeqMod > 0 /\ x \in Int /\ ~(x < 0)
      /\ -SeqMod <= x /\ x < 2 * SeqMod
  BY <1>1, StreamAssumption, SMT
<1>3. x % SeqMod = IF x < SeqMod THEN x ELSE x - SeqMod
  BY <1>2, Remainder
<1>4. x % SeqMod = SeqOut(k + n)
  BY <1>1, <1>3, StreamAssumption, SMT
<1> QED
  BY <1>4 DEF Add32, a

\* How far the peer is ahead of a segment; a segment from further on seems a
\* long way behind.
LEMMA SeqOutIsAhead ==
    ASSUME NEW j \in 0 .. MessageLen + 2, NEW k \in 0 .. MessageLen + 2
    PROVE  Sub32(SeqOut(k), SeqOut(j)) = IF j <= k THEN k - j ELSE k - j + SeqMod
<1> DEFINE a == SeqOut(j)
           b == SeqOut(k)
           x == b - a
<1>1. /\ a = IF ISS + j < SeqMod THEN ISS + j ELSE ISS + j - SeqMod
      /\ b = IF ISS + k < SeqMod THEN ISS + k ELSE ISS + k - SeqMod
  BY SeqOutIs
<1> HIDE DEF a, b
<1>2. /\ SeqMod \in Nat /\ SeqMod > 0 /\ x \in Int
      /\ -SeqMod <= x /\ x < 2 * SeqMod
  BY <1>1, StreamAssumption, SMT
<1>3. x % SeqMod = IF x < 0 THEN x + SeqMod ELSE IF x < SeqMod THEN x ELSE x - SeqMod
  BY <1>2, Remainder
<1>4. x % SeqMod = IF j <= k THEN k - j ELSE k - j + SeqMod
  BY <1>1, <1>3, StreamAssumption, SMT
<1> QED
  BY <1>4 DEF Sub32, a, b

-----------------------------------------------------------------------------
LEMMA FromIs ==
    ASSUME NEW a \in Nat, NEW n \in Nat
    PROVE  /\ From(a, n) \in Seq(Nat) /\ Len(From(a, n)) = n
           /\ \A i \in 1 .. n : From(a, n)[i] = a + i
BY DEF From

LEMMA NothingFrom ==
    ASSUME NEW a \in Nat
    PROVE  From(a, 0) = << >>
<1>1. From(a, 0) \in Seq(Nat) /\ Len(From(a, 0)) = 0
  BY FromIs
<1> QED
  BY <1>1, EmptySeq

\* A part of a part.
CutOut(s, o, m) == SubSeq(s, o + 1, o + m)

LEMMA PartOfFrom ==
    ASSUME NEW a \in Nat, NEW n \in Nat, NEW o \in Nat, NEW m \in Nat, o + m <= n
    PROVE  CutOut(From(a, n), o, m) = From(a + o, m)
<1> DEFINE s == From(a, n)
           t == SubSeq(s, o + 1, o + m)
           u == From(a + o, m)
<1>1. /\ s \in Seq(Nat) /\ \A i \in 1 .. n : s[i] = a + i
      /\ u \in Seq(Nat) /\ Len(u) = m /\ \A i \in 1 .. m : u[i] = (a + o) + i
  <2>1. a + o \in Nat
    OBVIOUS
  <2> QED
    BY <2>1, FromIs
<1> HIDE DEF s, u
<1>2. \A i \in o + 1 .. o + m : s[i] \in Nat
  BY <1>1
<1>3. /\ t \in Seq(Nat)
      /\ Len(t) = IF o + 1 <= o + m THEN o + m - (o + 1) + 1 ELSE 0
      /\ \A i \in 1 .. o + m - (o + 1) + 1 : t[i] = s[o + 1 + i - 1]
  BY <1>2, SubSeqProperties
<1> HIDE DEF t
<1>4. Len(t) = m
  BY <1>3
<1>5. ASSUME NEW i \in 1 .. m PROVE t[i] = u[i]
  <2>1. i \in 1 .. o + m - (o + 1) + 1 /\ o + 1 + i - 1 = o + i /\ o + i \in 1 .. n
    OBVIOUS
  <2>2. t[i] = s[o + i]
    BY <1>3, <2>1
  <2> QED
    BY <1>1, <2>1, <2>2
<1>6. t = u
  BY <1>1, <1>3, <1>4, <1>5, SeqEqual
<1> QED
  BY <1>6 DEF s, t, u, CutOut

\* What comes next, put behind what has come.
LEMMA FromJoins ==
    ASSUME NEW k \in Nat, NEW n \in Nat
    PROVE  From(0, k) \o From(k, n) = From(0, k + n)
<1> DEFINE s == From(0, k)
           t == From(k, n)
           u == From(0, k + n)
<1>1. /\ s \in Seq(Nat) /\ Len(s) = k /\ \A i \in 1 .. k : s[i] = 0 + i
      /\ t \in Seq(Nat) /\ Len(t) = n /\ \A i \in 1 .. n : t[i] = k + i
      /\ u \in Seq(Nat) /\ Len(u) = k + n /\ \A i \in 1 .. k + n : u[i] = 0 + i
  <2>1. 0 \in Nat /\ k + n \in Nat
    OBVIOUS
  <2> QED
    BY <2>1, FromIs
<1> HIDE DEF s, t, u
<1>2. /\ s \o t \in Seq(Nat) /\ Len(s \o t) = k + n
      /\ \A i \in 1 .. k + n : (s \o t)[i] = IF i <= k THEN s[i] ELSE t[i - k]
  <2>1. /\ s \o t \in Seq(Nat) /\ Len(s \o t) = Len(s) + Len(t)
        /\ \A i \in 1 .. Len(s) + Len(t) :
              (s \o t)[i] = IF i <= Len(s) THEN s[i] ELSE t[i - Len(s)]
    BY <1>1, ConcatProperties
  <2> QED
    BY <1>1, <2>1, Zenon
<1>3. ASSUME NEW i \in 1 .. k + n PROVE (s \o t)[i] = u[i]
  <2>1. CASE i <= k
    BY <1>1, <1>2, <2>1
  <2>2. CASE ~(i <= k)
    <3>1. i - k \in 1 .. n /\ k + (i - k) = 0 + i
      BY <2>2
    <3> QED
      BY <1>1, <1>2, <2>2, <3>1
  <2> QED
    BY <2>1, <2>2
<1>4. s \o t = u
  BY <1>1, <1>2, <1>3, SeqEqual
<1> QED
  BY <1>4 DEF s, t, u

-----------------------------------------------------------------------------
(* What the protosocket hands out                                          *)

LEMMA ChunkIs ==
    ASSUME NEW ps, GoodPsock(ps)
    PROVE  /\ ps.sendlen \in Nat /\ ps.sendptr \in Nat /\ ps.handed \in Nat
           /\ ps.sendptr + ps.sendlen = MessageLen /\ ps.handed <= MessageLen
           /\ Chunk(ps) \in Nat /\ Chunk(ps) <= ps.sendlen
           /\ ps.sendlen > 0 => Chunk(ps) > 0
           /\ \A mss \in SegmentSizes : Chunk(ps) <= mss => Least(ps.sendlen, mss) = Chunk(ps)
<1>1. /\ ps.sendlen \in 0 .. MessageLen /\ ps.sendptr \in 0 .. MessageLen
      /\ ps.handed \in 0 .. MessageLen /\ ps.sendptr + ps.sendlen = MessageLen
  BY DEF GoodPsock, PsockType, Offsets
<1>2. MessageLen \in Nat /\ UIP_TCP_MSS \in Nat /\ UIP_TCP_MSS > 0
  BY StreamAssumption
<1>3. ASSUME NEW mss \in SegmentSizes, Chunk(ps) <= mss PROVE Least(ps.sendlen, mss) = Chunk(ps)
  <2>1. mss \in Nat /\ mss <= UIP_TCP_MSS
    BY <1>2 DEF SegmentSizes
  <2> QED
    BY <1>1, <1>2, <1>3, <2>1 DEF Chunk, Least
<1> QED
  BY <1>1, <1>2, <1>3 DEF Chunk, Least

\* The turn hands out the chunk at the protosocket's pointer.
HandsOut(ps, turn) ==
    /\ turn.slen = Chunk(ps)
    /\ GoodPsock(turn.psock) /\ turn.psock.state = "DATA_SENT"
    /\ turn.psock.sendptr = ps.sendptr /\ turn.psock.sendlen = ps.sendlen
    /\ turn.psock.handed = ps.handed

LEMMA TurnSends ==
    ASSUME NEW ps, GoodPsock(ps), NEW mss \in SegmentSizes, Chunk(ps) <= mss,
           ps.sendlen > 0, NEW rexmit, NEW acked, MustSend(ps, rexmit)
    PROVE  HandsOut(ps, PsockTurn(ps, mss, rexmit, acked))
<1> DEFINE turn == PsockTurn(ps, mss, rexmit, acked)
<1>1. ps.sendlen \in Nat /\ Least(ps.sendlen, mss) = Chunk(ps)
  BY ChunkIs
<1>2. turn = SendChunk(ps, mss)
  BY <1>1 DEF PsockTurn
<1>3. turn.slen = Least(ps.sendlen, mss)
  BY <1>2 DEF SendChunk
<1> HIDE DEF turn
<1>4. /\ GoodPsock(turn.psock) /\ turn.psock.state = "DATA_SENT"
      /\ turn.psock.sendptr = ps.sendptr /\ turn.psock.sendlen = ps.sendlen
      /\ turn.psock.handed = ps.handed
  BY <1>2, SendChunkFacts
<1>5. HandsOut(ps, turn)
  BY <1>1, <1>3, <1>4 DEF HandsOut
<1> QED
  BY <1>5 DEF turn

LEMMA TurnWaits ==
    ASSUME NEW ps, GoodPsock(ps), NEW mss, ps.sendlen > 0, ps.state = "DATA_SENT",
           NEW turn, turn = PsockTurn(ps, mss, FALSE, FALSE)
    PROVE  turn.psock = ps /\ turn.slen = 0
<1>1. ps.sendlen \in Nat
  BY ChunkIs
<1> QED
  BY <1>1 DEF PsockTurn, MustSend, Silent

LEMMA TurnGoesOn ==
    ASSUME NEW ps, GoodPsock(ps), NEW mss \in SegmentSizes, Chunk(ps) <= mss,
           ps.sendlen > 0, ps.state = "DATA_SENT",
           NEW turn, turn = PsockTurn(ps, mss, FALSE, TRUE)
    PROVE  /\ GoodPsock(turn.psock) /\ turn.psock.handed = ps.handed
           /\ turn.psock.sendptr = ps.sendptr + Chunk(ps)
           /\ Chunk(turn.psock) <= mss /\ turn.slen = Chunk(turn.psock)
           /\ turn.slen > 0 => turn.psock.state = "DATA_SENT"
<1> DEFINE next == ChunkAcked(ps, mss)
<1>1. /\ ps.sendlen \in Nat /\ Least(ps.sendlen, mss) = Chunk(ps)
      /\ Chunk(ps) \in Nat /\ Chunk(ps) <= ps.sendlen
  BY ChunkIs
<1>2. GoodPsock(next) /\ next.handed = ps.handed
  BY ChunkAckedFacts
<1>3. next.sendptr = ps.sendptr + Chunk(ps) /\ next.sendlen = ps.sendlen - Chunk(ps)
  <2>1. ps \in PsockType
    BY DEF GoodPsock
  <2> QED
    BY <1>1, <2>1 DEF ChunkAcked, PsockType
<1>a. ~MustSend(ps, FALSE) /\ ps.sendlen # 0
  BY <1>1 DEF MustSend
<1>4. turn = IF next.sendlen = 0 THEN Silent(next) ELSE SendChunk(next, mss)
  BY <1>a DEF PsockTurn
<1> HIDE DEF next
<1>5. next.sendlen \in Nat /\ next.sendlen <= ps.sendlen /\ Chunk(next) \in Nat
  BY <1>1, <1>2, <1>3, ChunkIs
<1>6. Chunk(next) <= Chunk(ps)
  BY <1>1, <1>5, StreamAssumption DEF Chunk, Least
<1>7. Chunk(next) <= mss
  BY <1>1, <1>5, <1>6, StreamAssumption DEF SegmentSizes
<1>8. CASE next.sendlen = 0
  <2>0. turn = Silent(next)
    BY <1>4, <1>8
  <2>a. Silent(next).psock = next /\ Silent(next).slen = 0
    BY DEF Silent
  <2>b. ~(0 > 0)
    OBVIOUS
  <2>1. turn.psock = next /\ turn.slen = 0 /\ ~(turn.slen > 0)
    BY <2>0, <2>a, <2>b, Zenon
  <2>2. Chunk(next) = 0
    BY <1>2, <1>8, ChunkIs
  <2> QED
    BY <1>2, <1>3, <1>7, <2>1, <2>2
<1>9. CASE next.sendlen # 0
  <2>1. turn = SendChunk(next, mss)
    BY <1>4, <1>9
  <2> DEFINE t == SendChunk(next, mss)
  <2>b. /\ GoodPsock(t.psock) /\ t.psock.handed = next.handed
        /\ t.psock.sendptr = next.sendptr /\ t.psock.sendlen = next.sendlen
        /\ t.psock.state = "DATA_SENT"
    BY <1>2, SendChunkFacts
  <2>c. t.slen = Least(next.sendlen, mss)
    BY Zenon DEF SendChunk
  <2> HIDE DEF t
  <2>2. /\ GoodPsock(turn.psock) /\ turn.psock.handed = next.handed
        /\ turn.psock.sendptr = next.sendptr /\ turn.psock.sendlen = next.sendlen
        /\ turn.psock.state = "DATA_SENT"
    BY <2>1, <2>b, Zenon DEF t
  <2>3. turn.slen = Least(next.sendlen, mss) /\ Chunk(turn.psock) = Chunk(next)
    BY <2>1, <2>2, <2>c, Zenon DEF t, Chunk
  <2>4. Least(next.sendlen, mss) = Chunk(next)
    BY <1>2, <1>7, ChunkIs
  <2> QED
    BY <1>2, <1>3, <1>7, <2>2, <2>3, <2>4
<1> QED
  BY <1>8, <1>9

-----------------------------------------------------------------------------
(* What uIP sends                                                          *)

LEMMA AckIsOut ==
    ASSUME NEW u, NEW a \in Nat, u.snd_nxt = SeqOut(a), NEW h, NEW closing
    PROVE  IsOut(UipSegment(u, << >>, FALSE), a, h, closing)
<1> DEFINE sg == UipSegment(u, << >>, FALSE)
<1>1. sg.seq = SeqOut(a) /\ sg.data = << >> /\ sg.fin = FALSE
  BY DEF UipSegment
<1> HIDE DEF sg
<1>a. Len(<< >>) = 0 /\ From(a, 0) = << >> /\ 0 \in Nat /\ ~(0 > 0)
  BY NothingFrom
<1>2. Len(sg.data) = 0 /\ sg.data = From(a, Len(sg.data)) /\ ~(Len(sg.data) > 0)
      /\ Len(sg.data) \in Nat
  BY <1>1, <1>a, Zenon
<1>3. IsOut(sg, a, h, closing)
  BY <1>1, <1>2 DEF IsOut
<1> QED
  BY <1>3 DEF sg

LEMMA FinIsOut ==
    ASSUME NEW u, NEW h \in Nat, u.snd_nxt = SeqOut(h)
    PROVE  IsOut(UipSegment(u, << >>, TRUE), h, h, TRUE)
<1> DEFINE sg == UipSegment(u, << >>, TRUE)
<1>1. sg.seq = SeqOut(h) /\ sg.data = << >> /\ sg.fin = TRUE
  BY DEF UipSegment
<1> HIDE DEF sg
<1>a. Len(<< >>) = 0 /\ From(h, 0) = << >> /\ 0 \in Nat /\ ~(0 > 0)
  BY NothingFrom
<1>2. Len(sg.data) = 0 /\ sg.data = From(h, Len(sg.data)) /\ ~(Len(sg.data) > 0)
      /\ Len(sg.data) \in Nat
  BY <1>1, <1>a, Zenon
<1>3. IsOut(sg, h, h, TRUE)
  BY <1>1, <1>2 DEF IsOut
<1> QED
  BY <1>3 DEF sg

LEMMA DataIsOut ==
    ASSUME NEW u, NEW ps, NEW n \in Nat, NEW h, NEW closing, ps.sendptr \in Nat,
           u.snd_nxt = SeqOut(ps.sendptr), ps.sendptr + n <= h
    PROVE  IsOut(UipSegment(u, Payload(ps, n, n), FALSE), ps.sendptr, h, closing)
<1> DEFINE a == ps.sendptr
           d == Payload(ps, n, n)
<1>1. d = From(a, n)
  BY DEF Payload, From
<1>2. UipSegment(u, d, FALSE).seq = SeqOut(a) /\ UipSegment(u, d, FALSE).data = d
      /\ UipSegment(u, d, FALSE).fin = FALSE
  BY DEF UipSegment
<1> HIDE DEF d, a
<1>3. a \in Nat /\ a + n <= h
  BY DEF a
<1>4. Len(d) = n
  BY <1>1, <1>3, FromIs
<1>5. IsOut(UipSegment(u, d, FALSE), a, h, closing)
  BY <1>1, <1>2, <1>3, <1>4 DEF IsOut
<1> QED
  BY <1>5 DEF a, d

\* What is in flight stays right when more is handed out, or the end is.
LEMMA FlightGoesOn ==
    ASSUME NEW net, NEW h \in Nat, NEW closing \in BOOLEAN, FlightIsRight(net, h, closing),
           NEW m \in Nat, h <= m, NEW closed \in BOOLEAN, closing => closed /\ m = h,
           NEW new, \A sg \in new : sg \in net \/ \E a \in 0 .. m + 1 : IsOut(sg, a, m, closed)
    PROVE  FlightIsRight(new, m, closed)
<1>1. ASSUME NEW sg \in net PROVE \E a \in 0 .. m + 1 : IsOut(sg, a, m, closed)
  <2>1. PICK a \in 0 .. h + 1 : IsOut(sg, a, h, closing)
    BY <1>1 DEF FlightIsRight
  <2>2. a \in 0 .. m + 1 /\ a \in Nat
    OBVIOUS
  <2>3. Len(sg.data) > 0 => a + Len(sg.data) <= m
    BY <2>1, <2>2 DEF IsOut
  <2>4. IsOut(sg, a, m, closed)
    BY <2>1, <2>3 DEF IsOut
  <2> QED
    BY <2>2, <2>4
<1> QED
  BY <1>1 DEF FlightIsRight

LEMMA TransmitPuts ==
    ASSUME NEW u, NEW data, NEW fin, Transmit(u, data, fin)
    PROVE  \A sg \in toPeer' : sg \in toPeer \/ sg = UipSegment(u, data, fin)
BY DEF Transmit, Put

-----------------------------------------------------------------------------
(* The turn of the application                                             *)

\* The application's turn finds the connection as the protosocket left it, or
\* with the chunk that was out acknowledged: the peer has it.
Called(u, acked) ==
    \/ ~acked /\ SenderIs(u, psock)
    \/ /\ acked /\ u.len = 0 /\ psock.state = "DATA_SENT" /\ psock.sendlen > 0
       /\ Chunk(psock) <= u.mss
       /\ psock.handed = psock.sendptr + Chunk(psock)
       /\ u.snd_nxt = SeqOut(psock.handed)
       /\ Len(peer.got) = psock.handed

\* What the turn hands out follows what has been handed out.
Ready(u, turn) ==
    /\ GoodPsock(turn.psock) /\ turn.psock.handed = psock.handed
    /\ Chunk(turn.psock) <= u.mss
    /\ u.snd_nxt = SeqOut(turn.psock.sendptr)
    /\ psock.sendptr <= turn.psock.sendptr
    /\ turn.psock.sendptr = psock.sendptr \/ turn.psock.sendptr = Len(peer.got)
    /\ \/ u.len > 0 /\ turn.slen = 0 /\ turn.psock = psock /\ SenderIs(u, psock)
       \/ /\ u.len = 0 /\ turn.slen = Chunk(turn.psock)
          /\ turn.psock.handed = turn.psock.sendptr
          /\ turn.slen > 0 => turn.psock.state = "DATA_SENT"

LEMMA TurnIsReady ==
    ASSUME NEW u \in UipType, u.state = "ESTABLISHED", GoodPsock(psock),
           NEW acked \in BOOLEAN, Called(u, acked),
           NEW turn, turn = PsockTurn(psock, u.mss, FALSE, acked)
    PROVE  Ready(u, turn)
<1>1. /\ u.mss \in SegmentSizes /\ u.len \in Nat
      /\ psock.sendptr \in Nat /\ psock.handed \in Nat /\ Chunk(psock) \in Nat
      /\ psock.sendlen > 0 => Chunk(psock) > 0
  BY ChunkIs, StreamAssumption DEF UipType, Lengths
<1>2. CASE ~acked /\ u.len > 0
  <2>1. /\ psock.sendlen > 0 /\ psock.state = "DATA_SENT" /\ Chunk(psock) <= u.mss
        /\ u.snd_nxt = SeqOut(psock.sendptr) /\ SenderIs(u, psock)
    BY <1>2 DEF Called, SenderIs
  <2> DEFINE t == PsockTurn(psock, u.mss, FALSE, FALSE)
  <2>2. t.psock = psock /\ t.slen = 0
    BY <2>1, TurnWaits
  <2>3. turn.psock = psock /\ turn.slen = 0
    BY <1>2, <2>2
  <2>4. psock.sendptr <= psock.sendptr
    BY <1>1
  <2> QED
    BY <1>2, <2>1, <2>3, <2>4, Zenon DEF Ready
<1>3. CASE ~acked /\ ~(u.len > 0)
  <2>1. u.len = 0
    BY <1>1, <1>3
  <2>2. /\ psock.sendlen > 0 /\ Chunk(psock) <= u.mss /\ Chunk(psock) > 0
        /\ u.snd_nxt = SeqOut(psock.sendptr) /\ psock.handed = psock.sendptr + 0
        /\ psock.state # "DATA_SENT"
    BY <1>1, <1>3, <2>1 DEF Called, SenderIs
  <2>3. psock.handed = psock.sendptr /\ psock.sendptr <= psock.sendptr
    BY <1>1, <2>2
  <2>4. MustSend(psock, FALSE)
    BY <2>2 DEF MustSend
  <2>a. HandsOut(psock, PsockTurn(psock, u.mss, FALSE, acked))
    BY <1>1, <2>2, <2>4, TurnSends
  <2>5. /\ turn.slen = Chunk(psock)
        /\ GoodPsock(turn.psock) /\ turn.psock.state = "DATA_SENT"
        /\ turn.psock.sendptr = psock.sendptr /\ turn.psock.sendlen = psock.sendlen
        /\ turn.psock.handed = psock.handed
    BY <2>a, Zenon DEF HandsOut
  <2>6. Chunk(turn.psock) = Chunk(psock)
    BY <2>5, Zenon DEF Chunk
  <2> QED
    BY <2>1, <2>2, <2>3, <2>5, <2>6, Zenon DEF Ready
<1>4. CASE acked
  <2>1. /\ u.len = 0 /\ psock.state = "DATA_SENT" /\ psock.sendlen > 0
        /\ Chunk(psock) <= u.mss /\ psock.handed = psock.sendptr + Chunk(psock)
        /\ u.snd_nxt = SeqOut(psock.handed) /\ Len(peer.got) = psock.handed
    BY <1>4 DEF Called
  <2>2. turn = PsockTurn(psock, u.mss, FALSE, TRUE)
    BY <1>4
  <2>3. /\ GoodPsock(turn.psock) /\ turn.psock.handed = psock.handed
        /\ turn.psock.sendptr = psock.sendptr + Chunk(psock)
        /\ Chunk(turn.psock) <= u.mss /\ turn.slen = Chunk(turn.psock)
        /\ turn.slen > 0 => turn.psock.state = "DATA_SENT"
    BY <1>1, <2>1, <2>2, TurnGoesOn
  <2>4. psock.sendptr <= psock.sendptr + Chunk(psock)
    BY <1>1
  <2>5. turn.psock.sendptr = psock.handed /\ psock.sendptr <= turn.psock.sendptr
    BY <2>1, <2>3, <2>4, Zenon
  <2> QED
    BY <2>1, <2>3, <2>5, Zenon DEF Ready
<1> QED
  BY <1>2, <1>3, <1>4

\* What uIP does to the stream in one of its steps.
UipSends ==
    /\ SenderIs(uip', psock')
    /\ psock.handed <= psock'.handed
    /\ psock.sendptr <= psock'.sendptr /\ psock'.sendptr <= Len(peer.got)
    /\ Closing => Closing' /\ psock'.handed = psock.handed
    /\ FlightIsRight(toPeer', psock'.handed, Closing')

LEMMA AppTurnSendsRight ==
    ASSUME ~MayQuit, NEW u \in UipType, u.state = "ESTABLISHED", uip.state = "ESTABLISHED",
           GoodPsock(psock), Len(peer.got) \in Nat, psock.sendptr <= Len(peer.got),
           FlightIsRight(toPeer, psock.handed, FALSE),
           NEW acked \in BOOLEAN, Called(u, acked), NEW newdata, AppTurn(u, newdata, acked)
    PROVE  UipSends
<1> DEFINE turn == PsockTurn(psock, u.mss, FALSE, acked)
<1>1. Ready(u, turn)
  BY TurnIsReady
<1>2. \/ AppSends(u, turn)
      \/ AppWaits(u, turn, newdata)
      \/ SendDone(turn.psock) /\ psock' = turn.psock /\ AppCloses(u)
  BY Zenon DEF AppTurn
<1> HIDE DEF turn
<1> DEFINE p == turn.psock
<1>3. /\ p.sendptr \in Nat /\ p.sendlen \in Nat /\ p.handed \in Nat /\ Chunk(p) \in Nat
      /\ Chunk(p) <= p.sendlen /\ p \in PsockType
      /\ psock.sendptr \in Nat /\ psock.handed \in Nat /\ p.handed = psock.handed
      /\ u.len \in Nat /\ u.mss \in SegmentSizes
      /\ psock.sendptr <= p.sendptr /\ p.sendptr <= Len(peer.got)
  <2>1. GoodPsock(p) /\ psock.sendptr <= p.sendptr /\ p.handed = psock.handed
        /\ (p.sendptr = psock.sendptr \/ p.sendptr = Len(peer.got))
    BY <1>1, Zenon DEF Ready
  <2>2. p.sendptr <= Len(peer.got)
    BY <2>1
  <2> HIDE DEF p
  <2>3. u.len \in Nat /\ u.mss \in SegmentSizes
    BY StreamAssumption DEF UipType, Lengths
  <2> QED
    BY <2>1, <2>2, <2>3, ChunkIs DEF GoodPsock
<1>4. ~Closing
  BY DEF Closing
<1>5. CASE AppSends(u, turn)
  <2>1. turn.slen > 0
    BY <1>5, Zenon DEF AppSends
  <2>2. /\ u.len = 0 /\ turn.slen = Chunk(p) /\ p.handed = p.sendptr
        /\ p.state = "DATA_SENT" /\ Chunk(p) <= u.mss /\ u.snd_nxt = SeqOut(p.sendptr)
    <3>1. ~(0 > 0)
      OBVIOUS
    <3>2. turn.slen # 0
      BY <2>1, <3>1
    <3> QED
      BY <1>1, <2>1, <3>2, Zenon DEF Ready
  <2> DEFINE n == Chunk(p)
             h == p.sendptr + n
             v == [u EXCEPT !.len = n, !.nrtx = 0]
             q == [p EXCEPT !.handed = h]
  <2>3. n \in Nat /\ n > 0 /\ n <= p.sendlen /\ Least(n, u.mss) = n
    <3>1. u.mss \in Nat
      BY <1>3, StreamAssumption DEF SegmentSizes
    <3>2. n \in Nat /\ n > 0 /\ n <= p.sendlen /\ n <= u.mss
      BY <1>3, <2>1, <2>2
    <3> HIDE DEF n
    <3> QED
      BY <3>1, <3>2 DEF Least
  <2>4. /\ uip' = v /\ Transmit(u, Payload(p, n, n), FALSE)
        /\ psock' = [p EXCEPT !.handed = IF p.sendptr + n > p.handed THEN p.sendptr + n
                                         ELSE p.handed]
    BY <1>5, <2>2, <2>3, Zenon DEF AppSends
  <2> HIDE DEF n, p
  <2>5. /\ p.sendptr + n > p.handed /\ h \in Nat /\ p.handed <= h
        /\ p.sendptr + n <= h /\ p.sendptr \in 0 .. h + 1
    BY <1>3, <2>2, <2>3
  <2>6. psock' = q
    BY <2>4, <2>5
  <2>7. q.handed = h /\ q.sendptr = p.sendptr /\ q.sendlen = p.sendlen /\ q.state = p.state
    BY <1>3 DEF PsockType
  <2>8. v.len = n /\ v.mss = u.mss /\ v.snd_nxt = u.snd_nxt /\ v.state = "ESTABLISHED"
    BY DEF UipType
  <2> HIDE DEF q, v
  <2>9. Chunk(q) = n
    BY <2>7, Zenon DEF Chunk, n
  <2>10. SenderIs(v, q)
    <3>1. p.sendlen > 0
      BY <1>3, <2>3
    <3>2. n <= u.mss
      BY <2>2 DEF n
    <3> QED
      BY <2>2, <2>7, <2>8, <2>9, <3>1, <3>2 DEF SenderIs
  <2>11. IsOut(UipSegment(u, Payload(p, n, n), FALSE), p.sendptr, h, FALSE)
    <3> HIDE DEF h
    <3> QED
      BY <1>3, <2>2, <2>3, <2>5, DataIsOut
  <2> HIDE DEF h
  <2>12. \A sg \in toPeer' : sg \in toPeer \/ \E a \in 0 .. h + 1 : IsOut(sg, a, h, FALSE)
    BY <2>4, <2>5, <2>11, TransmitPuts
  <2>13. FlightIsRight(toPeer', h, FALSE)
    BY <1>3, <2>5, <2>12, FlightGoesOn
  <2>14. Closing' = FALSE
    BY <2>4, <2>8 DEF Closing
  <2> QED
    BY <1>3, <1>4, <2>4, <2>5, <2>6, <2>7, <2>10, <2>13, <2>14, Zenon DEF UipSends
<1>6. CASE AppWaits(u, turn, newdata)
  <2>1. /\ turn.slen = 0 /\ ~SendDone(p) /\ psock' = p /\ uip' = [u EXCEPT !.nrtx = 0]
        /\ Transmit(u, << >>, FALSE) \/ toPeer' = toPeer
    BY <1>6, Zenon DEF AppWaits, SendAck, SendNothing
  <2>2. turn.slen # Chunk(p)
    <3>1. p.sendlen > 0 /\ GoodPsock(p)
      BY <1>1, <1>3, <2>1 DEF SendDone, Ready
    <3> QED
      BY <2>1, <3>1, ChunkIs
  <2>3. psock' = psock /\ SenderIs(u, psock) /\ u.snd_nxt = SeqOut(p.sendptr) /\ p = psock
    BY <1>1, <2>1, <2>2, Zenon DEF Ready
  <2> DEFINE v == [u EXCEPT !.nrtx = 0]
  <2>4. v.len = u.len /\ v.mss = u.mss /\ v.snd_nxt = u.snd_nxt /\ v.state = u.state
    BY DEF UipType
  <2> HIDE DEF v, p
  <2>5. uip' = v
    BY <2>1 DEF v
  <2>6. SenderIs(uip', psock')
    BY <2>3, <2>4, <2>5 DEF SenderIs
  <2>7. IsOut(UipSegment(u, << >>, FALSE), p.sendptr, psock.handed, FALSE)
    BY <1>3, <2>3, AckIsOut
  <2>8. p.sendptr \in 0 .. psock.handed + 1
    <3>1. psock.sendptr <= psock.handed
      <4>1. psock.handed = psock.sendptr + u.len
        BY <2>3 DEF SenderIs
      <4> QED
        BY <1>3, <4>1
    <3> QED
      BY <1>3, <2>3, <3>1
  <2>9. \A sg \in toPeer' : sg \in toPeer \/ \E a \in 0 .. psock.handed + 1 :
                                               IsOut(sg, a, psock.handed, FALSE)
    BY <2>1, <2>7, <2>8, TransmitPuts
  <2>10. psock.handed <= psock.handed /\ psock.sendptr <= psock.sendptr
    BY <1>3
  <2>11. FlightIsRight(toPeer', psock.handed, FALSE)
    BY <1>3, <2>9, <2>10, FlightGoesOn
  <2>12. Closing' = FALSE
    BY <2>4, <2>5 DEF Closing
  <2> QED
    BY <1>4, <2>3, <2>6, <2>10, <2>11, <2>12, Zenon DEF UipSends
<1>7. CASE SendDone(p) /\ psock' = p /\ AppCloses(u)
  <2>1. /\ p.sendlen = 0 /\ psock' = p /\ Transmit(u, << >>, TRUE)
        /\ uip' = [u EXCEPT !.state = "FIN_WAIT_1", !.len = 1, !.nrtx = 0]
    BY <1>7, Zenon DEF AppCloses, SendDone
  <2>2. ~(p.sendlen > 0)
    BY <2>1
  <2>3. p.handed = p.sendptr /\ u.snd_nxt = SeqOut(p.sendptr)
    BY <1>1, <2>2 DEF Ready, SenderIs
  <2> DEFINE v == [u EXCEPT !.state = "FIN_WAIT_1", !.len = 1, !.nrtx = 0]
             h == p.handed
  <2>4. v.len = 1 /\ v.snd_nxt = u.snd_nxt /\ v.state = "FIN_WAIT_1"
    BY DEF UipType
  <2>5. uip' = v
    BY <2>1
  <2> HIDE DEF v, p
  <2>6. SenderIs(v, p)
    BY <2>3, <2>4 DEF SenderIs
  <2>7. h \in Nat /\ h = psock.handed /\ h <= h /\ h \in 0 .. h + 1
    BY <1>3
  <2>8. IsOut(UipSegment(u, << >>, TRUE), h, h, TRUE)
    <3>1. u.snd_nxt = SeqOut(h)
      BY <2>3
    <3> HIDE DEF h
    <3> QED
      BY <2>7, <3>1, FinIsOut
  <2> HIDE DEF h
  <2>9. \A sg \in toPeer' : sg \in toPeer \/ \E a \in 0 .. h + 1 : IsOut(sg, a, h, TRUE)
    BY <2>1, <2>7, <2>8, TransmitPuts
  <2>10. FlightIsRight(toPeer', h, TRUE)
    BY <2>7, <2>9, FlightGoesOn
  <2>11. Closing' = TRUE
    BY <2>4, <2>5 DEF Closing
  <2> QED
    BY <1>3, <1>4, <2>1, <2>5, <2>6, <2>7, <2>10, <2>11, Zenon DEF UipSends, h
<1> QED
  BY <1>2, <1>5, <1>6, <1>7

-----------------------------------------------------------------------------
(* The steps of uIP                                                        *)

\* A step that leaves the protosocket alone.
LEMMA SendsForItself ==
    ASSUME UipFits, OutInv, psock' = psock, SenderIs(uip', psock), Closing => Closing',
           \A sg \in toPeer' : sg \in toPeer \/ \E a \in 0 .. psock.handed + 1 :
                                                  IsOut(sg, a, psock.handed, Closing')
    PROVE  UipSends
<1>1. /\ psock.handed \in Nat /\ psock.sendptr \in Nat /\ GoodPsock(psock)
      /\ psock.sendptr <= Len(peer.got)
  BY ChunkIs DEF UipFits, OutInv, PeerHas
<1>2. psock.handed <= psock.handed /\ psock.sendptr <= psock.sendptr
  BY <1>1
<1>3. Closing \in BOOLEAN /\ Closing' \in BOOLEAN
  BY DEF Closing
<1>4. FlightIsRight(toPeer, psock.handed, Closing)
  BY DEF OutInv
<1> HIDE DEF Closing
<1>5. FlightIsRight(toPeer', psock.handed, Closing')
  BY <1>1, <1>2, <1>3, <1>4, FlightGoesOn
<1> QED
  BY <1>1, <1>2, <1>5, Zenon DEF UipSends

\* One that sends nothing, an acknowledgement, or the FIN.
LEMMA SendsQuietly ==
    ASSUME UipFits, OutInv, psock' = psock, SenderIs(uip', psock), Closing => Closing',
           \/ toPeer' = toPeer
           \/ \E u, a : /\ a \in 0 .. psock.handed + 1 /\ u.snd_nxt = SeqOut(a)
                        /\ Transmit(u, << >>, FALSE)
           \/ \E u : u.snd_nxt = SeqOut(psock.handed) /\ Transmit(u, << >>, TRUE) /\ Closing'
    PROVE  UipSends
<1>1. psock.handed \in Nat
  BY ChunkIs DEF UipFits
<1>2. psock.handed \in 0 .. psock.handed + 1
  BY <1>1
<1>3. CASE toPeer' = toPeer
  BY <1>3, SendsForItself
<1>4. ASSUME NEW u, NEW a \in 0 .. psock.handed + 1, u.snd_nxt = SeqOut(a),
             Transmit(u, << >>, FALSE)
      PROVE  UipSends
  <2>1. a \in Nat
    BY <1>1
  <2>2. IsOut(UipSegment(u, << >>, FALSE), a, psock.handed, Closing')
    BY <1>4, <2>1, AckIsOut
  <2> QED
    BY <1>4, <2>2, TransmitPuts, SendsForItself
<1>5. ASSUME NEW u, u.snd_nxt = SeqOut(psock.handed), Transmit(u, << >>, TRUE), Closing'
      PROVE  UipSends
  <2>1. IsOut(UipSegment(u, << >>, TRUE), psock.handed, psock.handed, TRUE)
    BY <1>1, <1>5, FinIsOut
  <2>2. Closing' = TRUE
    BY <1>5 DEF Closing
  <2> QED
    BY <1>2, <1>5, <2>1, <2>2, TransmitPuts, SendsForItself
<1> QED
  BY <1>3, <1>4, <1>5, Zenon

LEMMA TickSends ==
    ASSUME ~MayQuit, UipFits, OutInv, Tick
    PROVE  UipSends
<1>1. /\ uip \in UipType /\ GoodPsock(psock) /\ SenderIs(uip, psock)
      /\ psock.sendptr <= Len(peer.got) /\ Len(peer.got) \in Nat
      /\ FlightIsRight(toPeer, psock.handed, Closing)
  BY DEF UipFits, OutInv, PeerHas
<1>2. /\ psock.handed \in Nat /\ psock.sendptr \in Nat /\ Chunk(psock) \in Nat
  BY <1>1, ChunkIs
<1>3. CASE TickGiveUp \/ TickWait
  <2>1. uip' = [uip EXCEPT !.state = "CLOSED"] /\ psock' = psock /\ toPeer' = toPeer
    BY <1>3 DEF TickGiveUp, TickWait
  <2>2. uip'.state = "CLOSED"
    BY <1>1, <2>1 DEF UipType
  <2>3. SenderIs(uip', psock) /\ Closing'
    BY <2>2 DEF SenderIs, Closing
  <2> QED
    BY <2>1, <2>3, SendsQuietly
<1>4. CASE TickAppRetransmit
  <2> DEFINE turn == PsockTurn(psock, uip.mss, TRUE, FALSE)
             n == uip.len
             v == [uip EXCEPT !.nrtx = uip.nrtx + 1]
  <2>1. /\ uip.state = "ESTABLISHED" /\ Outstanding(uip) /\ uip' = v /\ psock' = turn.psock
        /\ \/ turn.slen > 0 /\ Transmit(uip, Payload(psock, turn.slen, n), FALSE)
           \/ toPeer' = toPeer
    BY <1>4, Zenon DEF TickAppRetransmit, SendNothing
  <2>2. /\ psock.sendlen > 0 /\ Chunk(psock) <= uip.mss /\ uip.mss \in SegmentSizes
        /\ uip.snd_nxt = SeqOut(psock.sendptr) /\ psock.handed = psock.sendptr + n
        /\ n = Chunk(psock) /\ n \in Nat
    <3>1. uip.len # 0
      BY <2>1 DEF Outstanding
    <3> QED
      BY <1>1, <1>2, <2>1, <3>1 DEF SenderIs, UipType
  <2>3. HandsOut(psock, turn)
    BY <1>1, <2>2, TurnSends DEF MustSend
  <2> HIDE DEF turn, n
  <2>4. turn.slen = n /\ Chunk(psock') = Chunk(psock)
        /\ psock'.sendptr = psock.sendptr /\ psock'.sendlen = psock.sendlen
        /\ psock'.handed = psock.handed /\ psock'.state = "DATA_SENT"
    BY <2>1, <2>2, <2>3, Zenon DEF HandsOut, Chunk
  <2>5. v.len = n /\ v.mss = uip.mss /\ v.snd_nxt = uip.snd_nxt /\ v.state = uip.state
    BY <1>1 DEF UipType, n
  <2> HIDE DEF v
  <2>6. SenderIs(uip', psock')
    BY <2>1, <2>2, <2>4, <2>5 DEF SenderIs
  <2>7. ~Closing /\ ~Closing' /\ psock.sendptr \in 0 .. psock.handed + 1
    BY <1>2, <2>1, <2>2, <2>5 DEF Closing
  <2>8. IsOut(UipSegment(uip, Payload(psock, n, n), FALSE), psock.sendptr, psock.handed, FALSE)
    <3>1. psock.sendptr + n <= psock.handed
      BY <1>2, <2>2
    <3> QED
      BY <1>2, <2>2, <3>1, DataIsOut
  <2>9. \A sg \in toPeer' : sg \in toPeer \/ \E a \in 0 .. psock.handed + 1 :
                                               IsOut(sg, a, psock.handed, FALSE)
    <3>1. CASE Transmit(uip, Payload(psock, n, n), FALSE)
      BY <2>7, <2>8, <3>1, TransmitPuts
    <3> QED
      BY <2>1, <2>4, <3>1
  <2>10. psock.handed <= psock.handed /\ psock.sendptr <= psock.sendptr
    BY <1>2
  <2>11. Closing = FALSE /\ Closing' = FALSE
    BY <2>7 DEF Closing
  <2>12. FlightIsRight(toPeer', psock.handed, FALSE)
    BY <1>1, <1>2, <2>9, <2>10, <2>11, FlightGoesOn
  <2> QED
    BY <1>1, <2>4, <2>6, <2>7, <2>10, <2>11, <2>12, Zenon DEF UipSends
<1>5. CASE TickRetransmitFin
  <2>1. /\ uip.state \in {"FIN_WAIT_1", "CLOSING", "LAST_ACK"} /\ psock' = psock
        /\ uip' = [uip EXCEPT !.nrtx = uip.nrtx + 1] /\ Transmit(uip, << >>, TRUE)
    BY <1>5 DEF TickRetransmitFin
  <2>2. /\ uip'.len = uip.len /\ uip'.mss = uip.mss /\ uip'.snd_nxt = uip.snd_nxt
        /\ uip'.state = uip.state
    BY <1>1, <2>1 DEF UipType
  <2>3. SenderIs(uip', psock) /\ Closing' /\ uip.snd_nxt = SeqOut(psock.handed)
    BY <1>1, <2>1, <2>2 DEF SenderIs, Closing
  <2> QED
    BY <2>1, <2>3, SendsQuietly
<1>6. CASE TickPoll
  <2>1. uip.state = "ESTABLISHED" /\ AppTurn(uip, FALSE, FALSE)
    BY <1>6 DEF TickPoll
  <2>2. Called(uip, FALSE) /\ Closing = FALSE
    BY <1>1, <2>1 DEF Called, Closing
  <2> QED
    BY <1>1, <2>1, <2>2, AppTurnSendsRight
<1> QED
  BY <1>3, <1>4, <1>5, <1>6 DEF Tick

LEMMA ReceivedSends ==
    ASSUME NEW u \in UipType, NEW n \in Int
    PROVE  /\ Received(u, n) \in UipType /\ Received(u, n).snd_nxt = u.snd_nxt
           /\ Received(u, n).state = u.state /\ Received(u, n).mss = u.mss
           /\ Received(u, n).len = u.len
BY ReceivedFits DEF Received, UipType

LEMMA StateSends ==
    ASSUME NEW u \in UipType, NEW state \in UipStates
    PROVE  LET v == [u EXCEPT !.state = state]
           IN  v.state = state /\ v.snd_nxt = u.snd_nxt /\ v.len = u.len /\ v.mss = u.mss
BY DEF UipType

\* An acknowledgement that is taken is one of everything that was handed out,
\* and of the FIN if that is out; the peer has it.
LEMMA AckedIsRight ==
    ASSUME UipFits, OutInv, NEW sg \in toUip, Acked(uip, sg)
    PROVE  LET u == AfterAck(uip, sg)
           IN  /\ u.len = 0
               /\ uip.state = "ESTABLISHED" =>
                     /\ u.snd_nxt = SeqOut(psock.handed) /\ Len(peer.got) = psock.handed
                     /\ psock.handed = psock.sendptr + Chunk(psock)
                     /\ psock.state = "DATA_SENT"
               /\ uip.state \in {"FIN_WAIT_1", "CLOSING", "LAST_ACK"} =>
                     u.snd_nxt = SeqOut(psock.handed + 1)
<1> DEFINE u == AfterAck(uip, sg)
           h == psock.handed
<1>1. /\ uip \in UipType /\ GoodPsock(psock) /\ SenderIs(uip, psock)
      /\ PeerHas(peer, psock, Closing) /\ AcksAreRight(toUip, peer)
  BY DEF UipFits, OutInv
<1>2. /\ h \in Nat /\ psock.sendptr \in Nat /\ Chunk(psock) \in Nat /\ h <= MessageLen
      /\ Chunk(psock) <= psock.sendlen /\ psock.sendptr + psock.sendlen = MessageLen
      /\ psock.sendlen \in Nat /\ MessageLen \in Nat
  BY <1>1, ChunkIs, StreamAssumption
<1>3. u.len = 0 /\ u.snd_nxt = Add32(uip.snd_nxt, uip.len) /\ uip.len # 0
      /\ sg.ack = Add32(uip.snd_nxt, uip.len)
  <2>1. u = [uip EXCEPT !.snd_nxt = sg.ack, !.len = 0]
    BY DEF AfterAck
  <2>2. u.len = 0 /\ u.snd_nxt = sg.ack
    BY <1>1, <2>1 DEF UipType
  <2> QED
    BY <2>2 DEF Acked, Outstanding
<1> HIDE DEF u, h
<1>4. ASSUME uip.state = "ESTABLISHED"
      PROVE  /\ u.snd_nxt = SeqOut(h) /\ Len(peer.got) = h
             /\ h = psock.sendptr + Chunk(psock) /\ psock.state = "DATA_SENT"
  <2>1. /\ uip.snd_nxt = SeqOut(psock.sendptr) /\ h = psock.sendptr + Chunk(psock)
        /\ uip.len = Chunk(psock) /\ psock.state = "DATA_SENT"
    BY <1>1, <1>3, <1>4 DEF SenderIs, h
  <2>2. Add32(SeqOut(psock.sendptr), Chunk(psock)) = SeqOut(h)
    <3>1. /\ psock.sendptr \in 0 .. MessageLen + 2 /\ Chunk(psock) \in 0 .. MessageLen + 2
          /\ psock.sendptr + Chunk(psock) <= MessageLen + 2
      BY <1>2
    <3> QED
      BY <2>1, <3>1, SeqOutGoesOn
  <2>3. peer.fin = FALSE /\ Len(peer.got) \in Nat /\ Len(peer.got) <= h
    BY <1>1, <1>4 DEF PeerHas, Closing, h
  <2>4. PICK r \in 0 .. Len(peer.got) + Bit(peer.fin) : sg.ack = SeqOut(r)
    BY <1>1 DEF AcksAreRight
  <2>5. r \in 0 .. Len(peer.got)
    <3>1. Bit(peer.fin) = 0
      BY <2>3 DEF Bit
    <3> QED
      BY <2>3, <2>4, <3>1
  <2>6. r = h
    <3>1. SeqOut(r) = SeqOut(h)
      BY <1>3, <2>1, <2>2, <2>4
    <3>2. r \in 0 .. MessageLen + 2 /\ h \in 0 .. MessageLen + 2
      BY <1>2, <2>3, <2>5
    <3> QED
      BY <3>1, <3>2, SeqOutIsInjective
  <2>7. Len(peer.got) = h
    BY <1>2, <2>3, <2>5, <2>6
  <2> QED
    BY <1>3, <2>1, <2>2, <2>7
<1>5. ASSUME uip.state \in {"FIN_WAIT_1", "CLOSING", "LAST_ACK"}
      PROVE  u.snd_nxt = SeqOut(h + 1)
  <2>1. uip.snd_nxt = SeqOut(h) /\ uip.len = 1
    BY <1>1, <1>5 DEF SenderIs, h
  <2>2. h \in 0 .. MessageLen + 2 /\ 1 \in 0 .. MessageLen + 2 /\ h + 1 <= MessageLen + 2
    BY <1>2
  <2> QED
    BY <1>3, <2>1, <2>2, SeqOutGoesOn
<1> QED
  BY <1>3, <1>4, <1>5 DEF u, h

\* Where uIP's next segment is.
LEMMA NextIsInRange ==
    ASSUME UipFits, OutInv, uip.state # "CLOSED"
    PROVE  \E a \in 0 .. psock.handed + 1 : uip.snd_nxt = SeqOut(a)
<1>1. /\ uip \in UipType /\ GoodPsock(psock) /\ SenderIs(uip, psock)
  BY DEF UipFits, OutInv
<1>2. psock.handed \in Nat /\ psock.sendptr \in Nat /\ uip.len \in Nat /\ uip.state \in UipStates
  BY <1>1, ChunkIs, StreamAssumption DEF UipType, Lengths
<1>3. CASE uip.state = "ESTABLISHED"
  <2>1. uip.snd_nxt = SeqOut(psock.sendptr) /\ psock.handed = psock.sendptr + uip.len
    BY <1>1, <1>3 DEF SenderIs
  <2>2. psock.sendptr \in 0 .. psock.handed + 1
    BY <1>2, <2>1
  <2> QED
    BY <2>1, <2>2
<1>4. CASE uip.state \in {"FIN_WAIT_1", "CLOSING", "LAST_ACK"}
  <2>1. uip.snd_nxt = SeqOut(psock.handed) /\ psock.handed \in 0 .. psock.handed + 1
    BY <1>1, <1>2, <1>4 DEF SenderIs
  <2> QED
    BY <2>1
<1>5. CASE uip.state \in {"FIN_WAIT_2", "TIME_WAIT"}
  <2>1. uip.snd_nxt = SeqOut(psock.handed + 1) /\ psock.handed + 1 \in 0 .. psock.handed + 1
    BY <1>1, <1>2, <1>5 DEF SenderIs
  <2> QED
    BY <2>1
<1> QED
  BY <1>2, <1>3, <1>4, <1>5 DEF UipStates

LEMMA RecvSends ==
    ASSUME ~MayQuit, WindowsFit, UipFits, ToUipFits(toUip), OutInv, NEW sg \in toUip, Recv(sg)
    PROVE  UipSends
<1> DEFINE u == AfterAck(uip, sg)
           k == Len(sg.data)
           acked == Acked(uip, sg)
<1>1. /\ uip \in UipType /\ GoodPsock(psock) /\ SenderIs(uip, psock)
      /\ psock.sendptr <= Len(peer.got) /\ Len(peer.got) \in Nat
      /\ FlightIsRight(toPeer, psock.handed, Closing)
  BY DEF UipFits, OutInv, PeerHas
<1>2. /\ psock.handed \in Nat /\ psock.sendptr \in Nat /\ Chunk(psock) \in Nat
      /\ psock.handed \in 0 .. psock.handed + 1 /\ psock.handed + 1 \in 0 .. psock.handed + 1
  BY <1>1, ChunkIs
<1>3. /\ k \in Int /\ k + 1 \in Int /\ 1 \in Int
  BY DEF ToUipFits
<1>4. /\ acked \in BOOLEAN /\ u \in UipType /\ u.state = uip.state /\ u.mss = uip.mss
      /\ u.len = IF acked THEN 0 ELSE uip.len
  BY <1>1, AfterAckFits
<1>5. ~acked => u = uip
  BY DEF AfterAck
<1>6. acked =>
         /\ u.len = 0
         /\ uip.state = "ESTABLISHED" =>
               /\ u.snd_nxt = SeqOut(psock.handed) /\ Len(peer.got) = psock.handed
               /\ psock.handed = psock.sendptr + Chunk(psock)
               /\ psock.state = "DATA_SENT"
         /\ uip.state \in {"FIN_WAIT_1", "CLOSING", "LAST_ACK"} =>
               u.snd_nxt = SeqOut(psock.handed + 1)
  BY AckedIsRight
<1> HIDE DEF u, k, acked
<1>7. CASE RecvOutOfOrder(sg) \/ RecvInTimeWait(sg)
  <2>1. uip' = uip /\ psock' = psock /\ Transmit(uip, << >>, FALSE) /\ uip.state # "CLOSED"
    BY <1>7 DEF RecvOutOfOrder, RecvInTimeWait, SendAck, Recv
  <2>2. PICK a \in 0 .. psock.handed + 1 : uip.snd_nxt = SeqOut(a)
    BY <2>1, NextIsInRange
  <2>3. SenderIs(uip', psock) /\ (Closing => Closing')
    BY <1>1, <2>1 DEF Closing
  <2> QED
    BY <2>1, <2>2, <2>3, SendsQuietly
<1>8. CASE RecvFinInEstablished(sg)
  <2> DEFINE turn == PsockTurn(psock, u.mss, FALSE, acked)
             w == Received(u, k + 1)
             v == [w EXCEPT !.state = "LAST_ACK", !.len = 1, !.nrtx = 0]
             h == psock.handed
  <2>1. CASE UNCHANGED <<uip, psock, heard, toPeer>>
    BY <1>1, <2>1, SendsQuietly DEF Closing
  <2>2. CASE /\ uip' = v /\ psock' = turn.psock /\ ~Outstanding(u)
             /\ Transmit(uip', << >>, TRUE) /\ uip.state = "ESTABLISHED"
    <3>1. ~(u.len > 0)
      BY <2>2 DEF Outstanding
    <3>2. Called(u, acked)
      <4>1. CASE acked
        <5>1. psock.sendlen > 0 /\ Chunk(psock) <= u.mss
          BY <1>1, <1>4, <2>2 DEF SenderIs
        <5> QED
          BY <1>6, <2>2, <4>1, <5>1 DEF Called
      <4>2. CASE ~acked
        BY <1>1, <1>5, <4>2 DEF Called
      <4> QED
        BY <1>4, <4>1, <4>2
    <3>3. Ready(u, turn)
      BY <1>1, <1>4, <2>2, <3>2, TurnIsReady
    <3> HIDE DEF turn
    <3>4. /\ turn.psock.handed = h /\ turn.psock.sendptr = h
          /\ u.snd_nxt = SeqOut(h) /\ psock.sendptr <= h /\ h <= Len(peer.got)
      <4>1. /\ turn.psock.handed = h /\ turn.psock.handed = turn.psock.sendptr
            /\ u.snd_nxt = SeqOut(turn.psock.sendptr) /\ psock.sendptr <= turn.psock.sendptr
            /\ (turn.psock.sendptr = psock.sendptr \/ turn.psock.sendptr = Len(peer.got))
        BY <3>1, <3>3, Zenon DEF Ready
      <4> QED
        BY <1>1, <1>2, <4>1
    <3>5. w \in UipType /\ w.snd_nxt = u.snd_nxt
      BY <1>3, <1>4, ReceivedSends
    <3> HIDE DEF w
    <3>6. v.state = "LAST_ACK" /\ v.len = 1 /\ v.snd_nxt = w.snd_nxt
      BY <3>5 DEF UipType
    <3> HIDE DEF v
    <3>7. SenderIs(uip', psock') /\ uip'.snd_nxt = SeqOut(h) /\ psock'.handed = h
      BY <2>2, <3>4, <3>5, <3>6 DEF SenderIs
    <3>8. Closing = FALSE /\ Closing' = TRUE
      BY <2>2, <3>6 DEF Closing
    <3> HIDE DEF h
    <3>9. h \in Nat /\ h <= h /\ h \in 0 .. h + 1
      BY <1>2 DEF h
    <3>10. IsOut(UipSegment(uip', << >>, TRUE), h, h, TRUE)
      BY <3>7, <3>9, FinIsOut
    <3>11. \A s \in toPeer' : s \in toPeer \/ \E a \in 0 .. h + 1 : IsOut(s, a, h, TRUE)
      BY <2>2, <3>9, <3>10, TransmitPuts
    <3>12. FlightIsRight(toPeer', h, TRUE)
      BY <1>1, <3>8, <3>9, <3>11, FlightGoesOn DEF h
    <3> QED
      BY <2>2, <3>4, <3>7, <3>8, <3>9, <3>12, Zenon DEF UipSends, h
  <2> QED
    BY <1>8, <2>1, <2>2, Zenon DEF RecvFinInEstablished, u, k, acked
<1>9. CASE RecvInEstablished(sg)
  <2> DEFINE w == Received(u, k)
             m == Mss(sg)
             v == [w EXCEPT !.mss = m]
             newdata == sg.data # << >>
  <2>1. /\ uip.state = "ESTABLISHED"
        /\ IF newdata \/ acked THEN AppTurn(v, newdata, acked)
           ELSE uip' = v /\ toPeer' = toPeer /\ psock' = psock
    BY <1>9, Zenon DEF RecvInEstablished, SendNothing, u, k, acked
  <2>2. /\ w \in UipType /\ w.state = "ESTABLISHED" /\ w.len = u.len
        /\ w.snd_nxt = u.snd_nxt
    BY <1>3, <1>4, <2>1, ReceivedSends
  <2> HIDE DEF w
  <2>3. m \in SegmentSizes /\ Chunk(psock) <= m
    <3>1. sg.wnd \in 0 .. PeerBuf
      BY DEF ToUipFits
    <3>2. m \in SegmentSizes
      BY <3>1, StreamAssumption DEF Mss, SegmentSizes
    <3>3. m >= Chunk(psock)
      BY DEF WindowsFit
    <3> HIDE DEF m
    <3> QED
      BY <1>2, <3>2, <3>3, StreamAssumption DEF SegmentSizes
  <2> HIDE DEF m
  <2>4. v \in UipType
    BY <2>2, <2>3, Zenon DEF UipType
  <2>5. v.state = "ESTABLISHED" /\ v.len = u.len /\ v.snd_nxt = u.snd_nxt /\ v.mss = m
    BY <2>2 DEF UipType
  <2> HIDE DEF v, newdata
  <2>6. ~acked => SenderIs(v, psock)
    BY <1>1, <1>5, <2>1, <2>3, <2>5 DEF SenderIs
  <2>7. Called(v, acked)
    <3>1. CASE acked
      <4>1. psock.sendlen > 0
        BY <1>1, <2>1 DEF SenderIs
      <4> QED
        BY <1>6, <2>1, <2>3, <2>5, <3>1, <4>1 DEF Called
    <3>2. CASE ~acked
      BY <2>6, <3>2 DEF Called
    <3> QED
      BY <1>4, <3>1, <3>2
  <2>8. CASE newdata \/ acked
    <3>1. Closing = FALSE
      BY <2>1 DEF Closing
    <3> QED
      BY <1>1, <1>4, <2>1, <2>4, <2>5, <2>7, <2>8, <3>1, AppTurnSendsRight
  <2>9. CASE ~(newdata \/ acked)
    <3>1. uip' = v /\ toPeer' = toPeer /\ psock' = psock
      BY <2>1, <2>9
    <3>2. SenderIs(uip', psock) /\ (Closing => Closing')
      BY <2>1, <2>6, <2>9, <3>1 DEF Closing
    <3> QED
      BY <3>1, <3>2, SendsQuietly
  <2> QED
    BY <2>8, <2>9
<1>10. CASE RecvInLastAck(sg) \/ RecvInClosing(sg)
  <2>1. /\ psock' = psock /\ toPeer' = toPeer /\ uip.state \in {"LAST_ACK", "CLOSING"}
        /\ \/ uip' = uip
           \/ \E state \in {"CLOSED", "TIME_WAIT"} : acked /\ uip' = [u EXCEPT !.state = state]
    BY <1>10 DEF RecvInLastAck, RecvInClosing, SendNothing, u, acked
  <2>2. CASE uip' = uip
    <3>1. SenderIs(uip', psock) /\ (Closing => Closing')
      BY <1>1, <2>2 DEF Closing
    <3> QED
      BY <2>1, <3>1, SendsQuietly
  <2>3. ASSUME NEW state \in {"CLOSED", "TIME_WAIT"}, acked, uip' = [u EXCEPT !.state = state]
        PROVE  UipSends
    <3>1. state \in UipStates
      BY DEF UipStates
    <3>2. uip'.state = state /\ uip'.snd_nxt = u.snd_nxt /\ uip'.len = u.len
      BY <1>4, <2>3, <3>1, StateSends
    <3>3. psock.sendptr = psock.handed
      BY <1>1, <2>1 DEF SenderIs
    <3>4. SenderIs(uip', psock) /\ (Closing => Closing')
      BY <1>6, <2>1, <2>3, <3>2, <3>3 DEF SenderIs, Closing
    <3> QED
      BY <2>1, <3>4, SendsQuietly
  <2> QED
    BY <2>1, <2>2, <2>3
<1>11. CASE RecvInFinWait1(sg)
  <2> DEFINE v == Received(u, k)
             w == Received(v, 1)
  <2>1. /\ psock' = psock /\ uip.state = "FIN_WAIT_1"
        /\ \/ /\ uip' = [w EXCEPT !.state = IF acked THEN "TIME_WAIT" ELSE "CLOSING"]
              /\ Transmit(uip', << >>, FALSE)
           \/ acked /\ uip' = [v EXCEPT !.state = "FIN_WAIT_2"] /\ toPeer' = toPeer
           \/ ~acked /\ uip' = v /\ (Transmit(v, << >>, FALSE) \/ toPeer' = toPeer)
    BY <1>11 DEF RecvInFinWait1, SendAck, SendNothing, u, k, acked
  <2>2. /\ v \in UipType /\ v.state = "FIN_WAIT_1" /\ v.snd_nxt = u.snd_nxt /\ v.len = u.len
    BY <1>3, <1>4, <2>1, ReceivedSends
  <2> HIDE DEF v
  <2>3. w \in UipType /\ w.snd_nxt = u.snd_nxt /\ w.len = u.len
    BY <1>3, <2>2, ReceivedSends
  <2> HIDE DEF w
  <2>4. /\ psock.sendptr = psock.handed
        /\ acked => u.snd_nxt = SeqOut(psock.handed + 1) /\ u.len = 0
        /\ ~acked => u.snd_nxt = SeqOut(psock.handed) /\ u.len = 1
    BY <1>1, <1>5, <1>6, <2>1 DEF SenderIs
  <2>5. /\ uip'.snd_nxt = u.snd_nxt /\ uip'.len = u.len
        /\ uip'.state \in IF acked THEN {"TIME_WAIT", "FIN_WAIT_2"} ELSE {"CLOSING", "FIN_WAIT_1"}
    BY <1>4, <2>1, <2>2, <2>3 DEF UipType
  <2>6. SenderIs(uip', psock) /\ Closing'
    BY <1>4, <2>4, <2>5 DEF SenderIs, Closing
  <2>7. toPeer' = toPeer \/ Transmit(uip', << >>, FALSE)
    BY <2>1
  <2>8. \E a \in 0 .. psock.handed + 1 : uip'.snd_nxt = SeqOut(a)
    BY <1>2, <1>4, <2>4, <2>5
  <2> QED
    BY <2>1, <2>6, <2>7, <2>8, SendsQuietly
<1>12. CASE RecvInFinWait2(sg)
  <2> DEFINE v == Received(uip, k)
             w == Received(v, 1)
  <2>1. /\ psock' = psock /\ uip.state = "FIN_WAIT_2"
        /\ uip' = v \/ uip' = [w EXCEPT !.state = "TIME_WAIT"]
        /\ Transmit(uip', << >>, FALSE) \/ toPeer' = toPeer
    BY <1>12 DEF RecvInFinWait2, SendAck, SendNothing, k
  <2>2. /\ v \in UipType /\ v.state = "FIN_WAIT_2" /\ v.snd_nxt = uip.snd_nxt
        /\ v.len = uip.len
    BY <1>1, <1>3, <2>1, ReceivedSends
  <2> HIDE DEF v
  <2>3. w \in UipType /\ w.snd_nxt = uip.snd_nxt /\ w.len = uip.len
    BY <1>3, <2>2, ReceivedSends
  <2> HIDE DEF w
  <2>4. /\ uip'.snd_nxt = uip.snd_nxt /\ uip'.len = uip.len
        /\ uip'.state \in {"FIN_WAIT_2", "TIME_WAIT"}
    BY <2>1, <2>2, <2>3 DEF UipType
  <2>5. SenderIs(uip', psock) /\ Closing' /\ uip'.snd_nxt = SeqOut(psock.handed + 1)
    BY <1>1, <2>1, <2>4 DEF SenderIs, Closing
  <2> QED
    BY <1>2, <2>1, <2>5, SendsQuietly
<1> QED
  BY <1>7, <1>8, <1>9, <1>10, <1>11, <1>12 DEF Recv

-----------------------------------------------------------------------------
(* The stream the peer gets                                                *)

MessageGoesOn == [Outgoing!Next]_Outgoing!streamVars

LEMMA BitsAdd ==
    ASSUME NEW x \in BOOLEAN, NEW y \in BOOLEAN, ~(x /\ y), NEW z, z = (x \/ y)
    PROVE  Bit(z) = Bit(x) + Bit(y) /\ Bit(x) \in 0 .. 1 /\ Bit(y) \in 0 .. 1 /\ Bit(z) \in 0 .. 1
<1>1. CASE x
  <2>1. Bit(x) = 1 /\ Bit(y) = 0 /\ Bit(z) = 1
    BY <1>1, Zenon DEF Bit
  <2> QED
    BY <2>1
<1>2. CASE ~x /\ y
  <2>1. Bit(x) = 0 /\ Bit(y) = 1 /\ Bit(z) = 1
    BY <1>2, Zenon DEF Bit
  <2> QED
    BY <2>1
<1>3. CASE ~x /\ ~y
  <2>1. Bit(x) = 0 /\ Bit(y) = 0 /\ Bit(z) = 0
    BY <1>3, Zenon DEF Bit
  <2> QED
    BY <2>1
<1> QED
  BY <1>1, <1>2, <1>3

\* A step that hands out more, confirms more and delivers n bytes.
LEMMA StreamSteps ==
    ASSUME psock.handed \in Nat, psock'.handed \in Nat, psock'.handed <= MessageLen,
           psock.handed <= psock'.handed, peer.fin => psock'.handed = psock.handed,
           psock.sendptr \in Nat, psock'.sendptr \in Nat, psock.sendptr <= psock'.sendptr,
           psock'.sendptr <= Len(peer.got), PeerHas(peer, psock, Closing),
           NEW n \in Nat, Len(peer.got) + n <= psock.handed,
           peer'.got = From(0, Len(peer.got) + n), peer.fin => n = 0,
           peer'.fin \in BOOLEAN, peer.fin => peer'.fin,
           peer'.fin => peer.fin \/ Len(peer.got) + n = psock.handed
    PROVE  MessageGoesOn
<1> DEFINE g == Len(peer.got)
<1>1. g \in Nat /\ g + n \in Nat /\ g + n \in g .. psock.handed /\ g + n <= MessageLen
      /\ MessageLen \in Nat
  BY StreamAssumption DEF PeerHas
<1>2. Len(Message) = MessageLen /\ Message = From(0, MessageLen)
  BY StreamAssumption DEF Message, From
<1>3. peer.got = From(0, g) /\ peer.fin \in BOOLEAN
  BY DEF PeerHas
<1>4. peer'.got = peer.got \o SubSeq(Message, g + 1, g + n)
  <2> HIDE DEF g
  <2>1. 0 \in Nat /\ 0 + g = g
    BY <1>1
  <2>2. CutOut(From(0, MessageLen), g, n) = From(g, n)
    BY <1>1, <2>1, PartOfFrom
  <2>3. From(0, g) \o From(g, n) = From(0, g + n)
    BY <1>1, FromJoins
  <2>4. SubSeq(Message, g + 1, g + n) = From(g, n)
    BY <1>2, <2>2 DEF CutOut
  <2> QED
    BY <1>3, <2>3, <2>4 DEF g
<1>5. Outgoing!Deliver
  <2>1. peer.fin => peer'.got = peer.got
    BY <1>1, <1>3
  <2> QED
    BY <1>1, <1>4, <2>1 DEF Outgoing!Deliver
<1>6. Outgoing!Write
  BY <1>1, <1>2 DEF Outgoing!Write
<1>7. Outgoing!Confirm
  BY <1>1 DEF Outgoing!Confirm
<1>8. Outgoing!End
  <2>1. Len(From(0, g + n)) = g + n
    BY <1>1, FromIs
  <2>2. Len(peer'.got) = g + n
    BY <2>1
  <2> QED
    BY <2>2 DEF Outgoing!End
<1>9. Outgoing!Abandon
  BY DEF Outgoing!Abandon
<1> QED
  BY <1>5, <1>6, <1>7, <1>8, <1>9 DEF MessageGoesOn, Outgoing!Next

LEMMA UipKeeps ==
    ASSUME UipFits, OutInv, UipSends, UipFits', peer' = peer, toUip' \subseteq toUip
    PROVE  OutInv' /\ MessageGoesOn
<1>1. /\ psock.handed \in Nat /\ psock'.handed \in Nat /\ psock'.handed <= MessageLen
      /\ psock.sendptr \in Nat /\ psock'.sendptr \in Nat
  <2>1. GoodPsock(psock) /\ GoodPsock(psock')
    BY DEF UipFits
  <2> QED
    BY <2>1, ChunkIs
<1>2. /\ PeerHas(peer, psock, Closing) /\ AcksAreRight(toUip, peer)
  BY DEF OutInv
<1>3. /\ SenderIs(uip', psock') /\ psock.handed <= psock'.handed
      /\ psock.sendptr <= psock'.sendptr /\ psock'.sendptr <= Len(peer.got)
      /\ Closing => Closing' /\ psock'.handed = psock.handed
      /\ FlightIsRight(toPeer', psock'.handed, Closing')
  BY Zenon DEF UipSends
<1>4. peer.fin => psock'.handed = psock.handed /\ Closing'
  BY <1>2, <1>3 DEF PeerHas
<1>5. OutInv'
  <2>1. PeerHas(peer', psock', Closing')
    <3>1. Len(peer.got) <= psock'.handed
      BY <1>1, <1>2, <1>3 DEF PeerHas
    <3> HIDE DEF Closing
    <3> QED
      BY <1>2, <1>3, <1>4, <3>1 DEF PeerHas
  <2>2. AcksAreRight(toUip', peer')
    BY <1>2 DEF AcksAreRight
  <2> QED
    BY <1>3, <2>1, <2>2 DEF OutInv
<1>6. MessageGoesOn
  <2>1. /\ 0 \in Nat /\ Len(peer.got) + 0 = Len(peer.got) /\ Len(peer.got) <= psock.handed
        /\ peer'.got = From(0, Len(peer.got)) /\ peer.fin \in BOOLEAN /\ peer'.fin = peer.fin
    BY <1>2 DEF PeerHas
  <2> HIDE DEF Closing
  <2> QED
    BY <1>1, <1>2, <1>3, <1>4, <2>1, StreamSteps
<1> QED
  BY <1>5, <1>6

\* The peer takes what comes next of the message and nothing else.
LEMMA PeerTakes ==
    ASSUME UipFits, PeerFits(peer), OutInv, NEW sg \in toPeer, PeerRecv(sg)
    PROVE  /\ OutInv' /\ MessageGoesOn
           /\ peer.unread <= Len(peer.got) => peer'.unread <= Len(peer'.got)
<1> DEFINE g == Len(peer.got)
           h == psock.handed
           L == Len(sg.data)
           old == Sub32(peer.rcv_nxt, sg.seq)
           fits == old <= L /\ ~peer.fin
           n == IF fits THEN Least(L - old, PeerBuf - peer.unread) ELSE 0
           fin == fits /\ sg.fin /\ old + n = L
           new == SubSeq(sg.data, old + 1, old + n)
<1>1. /\ IsPeer(peer) /\ uip' = uip /\ psock' = psock /\ toUip' = toUip /\ toPeer' \subseteq toPeer
      /\ peer' = [peer EXCEPT !.got = peer.got \o new, !.unread = peer.unread + n,
                              !.rcv_nxt = Add32(peer.rcv_nxt, n + Bit(fin)),
                              !.fin = peer.fin \/ fin, !.una = PeerAcked(sg)]
  BY DEF PeerRecv, PeerFits, Bit
<1>2. /\ h \in Nat /\ psock.sendptr \in Nat /\ h <= MessageLen /\ MessageLen \in Nat
  <2>1. GoodPsock(psock)
    BY DEF UipFits
  <2> QED
    BY <2>1, ChunkIs, StreamAssumption
<1>3. /\ PeerHas(peer, psock, Closing) /\ FlightIsRight(toPeer, h, Closing)
      /\ AcksAreRight(toUip, peer) /\ SenderIs(uip, psock)
  BY DEF OutInv
<1>4. /\ g \in Nat /\ g <= h /\ psock.sendptr <= g /\ peer.got = From(0, g)
      /\ peer.fin \in BOOLEAN
      /\ peer.fin => g = h /\ Closing
      /\ peer.rcv_nxt = SeqOut(g + Bit(peer.fin))
  BY <1>3 DEF PeerHas
<1>5. PICK a \in 0 .. h + 1 : IsOut(sg, a, h, Closing)
  BY <1>3 DEF FlightIsRight
<1>6. /\ sg.seq = SeqOut(a) /\ L \in Nat /\ a \in Nat /\ a <= h + 1 /\ sg.data = From(a, L) /\ sg.fin \in BOOLEAN
      /\ L > 0 => a + L <= h
      /\ sg.fin => L = 0 /\ a = h /\ Closing
  BY <1>2, <1>5 DEF IsOut
<1>7. peer.unread \in Nat /\ PeerBuf - peer.unread \in Nat
  BY StreamAssumption DEF PeerFits
<1> HIDE DEF Closing, L, g, h
<1>8. ~peer.fin => old = IF a <= g THEN g - a ELSE g - a + SeqMod
  <2>1. a \in 0 .. MessageLen + 2 /\ g \in 0 .. MessageLen + 2 /\ g + 0 = g
    BY <1>2, <1>4
  <2>2. ~peer.fin => peer.rcv_nxt = SeqOut(g)
    BY <1>4, <2>1 DEF Bit
  <2>3. Sub32(SeqOut(g), SeqOut(a)) = IF a <= g THEN g - a ELSE g - a + SeqMod
    BY <2>1, SeqOutIsAhead
  <2> QED
    BY <1>6, <2>2, <2>3
<1>9. /\ old \in Nat
  <2>1. peer.rcv_nxt \in Int /\ sg.seq \in Int
    <3>1. SeqOut(a) \in Int /\ peer.rcv_nxt \in Int
      BY <1>2, <1>4, Bounds, StreamAssumption DEF SeqOut, PeerFits, Seqnos
    <3> QED
      BY <1>6, <3>1
  <2> QED
    BY <2>1, Bounds
<1> HIDE DEF old
\* What fits begins where the peer's bytes end.
<1>10. fits => a <= g /\ old = g - a /\ a + L <= h
  <2>1. ASSUME fits, ~(a <= g) PROVE FALSE
    <3>1. old = g - a + SeqMod /\ old <= L
      BY <1>8, <2>1
    <3>2. L <= h
      <4>1. CASE L > 0
        BY <1>2, <1>6, <4>1
      <4>2. CASE ~(L > 0)
        BY <1>2, <1>6, <4>2
      <4> QED
        BY <4>1, <4>2
    <3>3. SeqMod \in Nat /\ 2 * (MessageLen + 2) < SeqMod
      BY StreamAssumption
    <3>4. g \in Nat /\ a \in Nat /\ a <= h + 1 /\ L \in Nat
      BY <1>4, <1>6
    <3> HIDE DEF fits
    <3> QED
      BY <1>2, <3>1, <3>2, <3>3, <3>4
  <2>2. ASSUME fits PROVE a + L <= h
    <3>1. CASE L > 0
      BY <1>6, <3>1
    <3>2. CASE ~(L > 0)
      BY <1>2, <1>4, <1>6, <2>1, <2>2, <3>2
    <3> QED
      BY <3>1, <3>2
  <2> QED
    BY <1>8, <2>1, <2>2
<1>11. fits \in BOOLEAN /\ fin \in BOOLEAN /\ (fits => ~peer.fin /\ old <= L) /\ (fin => fits)
  OBVIOUS
<1>12. /\ n \in Nat
       /\ fits => old + n <= L /\ n <= L - old
       /\ ~fits => n = 0
  <2>1. CASE fits
    <3>1. L - old \in Nat
      BY <1>6, <1>9, <1>11, <2>1
    <3>2. n = Least(L - old, PeerBuf - peer.unread)
      BY <2>1
    <3> HIDE DEF n, fits
    <3>3. n \in Nat /\ n <= L - old
      BY <1>7, <3>1, <3>2, LeastIs
    <3>4. old + n <= L
      BY <1>6, <1>9, <3>3
    <3> QED
      BY <2>1, <3>3, <3>4
  <2>2. CASE ~fits
    BY <2>2
  <2> QED
    BY <2>1, <2>2
<1>13. fin => sg.fin /\ old + n = L
  OBVIOUS
<1> HIDE DEF fits, n, fin
<1>a. /\ g \in Nat /\ n \in Nat /\ old \in Nat /\ a \in Nat /\ L \in Nat /\ h \in Nat
      /\ psock.sendptr \in Nat /\ psock.sendptr <= g /\ g <= h
  BY <1>2, <1>4, <1>6, <1>9, <1>12, Zenon
<1>b. fits => old = g - a /\ a <= g /\ a + L <= h /\ old + n <= L
  BY <1>10, <1>12, Zenon
<1>14. g + n <= h /\ g + n \in Nat
  <2>1. CASE fits
    BY <1>a, <1>b, <2>1
  <2>2. CASE ~fits
    BY <1>a, <1>12, <2>2
  <2> QED
    BY <1>11, <2>1, <2>2
<1>15. peer.got \o new = From(0, g + n)
  <2>1. CASE fits
    <3>1. a + old = g /\ old + n <= L
      BY <1>a, <1>b, <2>1
    <3>b. CutOut(From(a, L), old, n) = From(g, n)
      <4>1. CutOut(From(a, L), old, n) = From(a + old, n)
        BY <1>a, <3>1, PartOfFrom
      <4> QED
        BY <3>1, <4>1
    <3>2. new = From(g, n)
      BY <1>6, <3>b DEF CutOut, new
    <3>3. From(0, g) \o From(g, n) = From(0, g + n)
      BY <1>a, FromJoins
    <3> QED
      BY <1>4, <3>1, <3>2, <3>3
  <2>2. CASE ~fits
    <3>1. n = 0 /\ old + n = old /\ ~(old + 1 <= old) /\ g + n = g
      BY <1>4, <1>9, <1>12, <2>2
    <3>2. new = << >>
      BY <1>9, <3>1, SubSeqEmpty
    <3>3. peer.got \in Seq(Nat)
      BY <1>4, FromIs
    <3>4. peer.got \o << >> = peer.got
      BY <3>3
    <3> QED
      BY <1>4, <3>1, <3>2, <3>4
  <2> QED
    BY <1>11, <2>1, <2>2
\* The end comes after everything.
<1>16. fin => g + n = h /\ Closing
  <2>1. ASSUME fin PROVE g + n = h /\ Closing
    <3>1. /\ L = 0 /\ a = h /\ Closing /\ old + n = L /\ old = g - a
      BY <1>6, <1>b, <1>11, <1>13, <2>1
    <3> QED
      BY <1>a, <3>1
  <2> QED
    BY <2>1
<1>17. peer.fin => n = 0 /\ ~fin
  BY <1>11, <1>12
<1> HIDE DEF new
<1>18. /\ IsPeer(peer') /\ peer'.got = From(0, g + n) /\ peer'.fin = (peer.fin \/ fin)
       /\ peer'.rcv_nxt = Add32(peer.rcv_nxt, n + Bit(fin))
  BY <1>1, <1>15 DEF IsPeer
<1>19. Len(peer'.got) = g + n
  BY <1>14, <1>18, FromIs
<1>20. /\ g + Bit(peer.fin) + (n + Bit(fin)) = g + n + Bit(peer'.fin)
       /\ g + Bit(peer.fin) \in 0 .. MessageLen + 2 /\ n + Bit(fin) \in 0 .. MessageLen + 2
       /\ g + Bit(peer.fin) + (n + Bit(fin)) <= MessageLen + 2
  <2>1. Bit(peer'.fin) = Bit(peer.fin) + Bit(fin) /\ Bit(peer.fin) \in 0 .. 1 /\ Bit(fin) \in 0 .. 1
        /\ Bit(peer'.fin) \in 0 .. 1
    <3>1. peer.fin \in BOOLEAN /\ fin \in BOOLEAN /\ ~(peer.fin /\ fin)
      BY <1>4, <1>11, <1>17, Zenon
    <3>2. peer'.fin = (peer.fin \/ fin)
      BY <1>18
    <3> QED
      BY <3>1, <3>2, BitsAdd
  <2> DEFINE b == Bit(peer.fin)
             c == Bit(fin)
             d == Bit(peer'.fin)
  <2>2. d = b + c /\ b \in 0 .. 1 /\ c \in 0 .. 1 /\ d \in 0 .. 1
    BY <2>1
  <2> HIDE DEF b, c, d
  <2>3. /\ g + b + (n + c) = g + n + d
        /\ g + b \in 0 .. MessageLen + 2 /\ n + c \in 0 .. MessageLen + 2
        /\ g + b + (n + c) <= MessageLen + 2
    BY <1>2, <1>a, <1>14, <2>2
  <2> QED
    BY <2>3 DEF b, c, d
<1>21. peer'.rcv_nxt = SeqOut(g + n + Bit(peer'.fin))
  BY <1>4, <1>18, <1>20, SeqOutGoesOn
<1>22. PeerHas(peer', psock', Closing')
  <2>1. Closing' = Closing
    BY <1>1 DEF Closing
  <2>2. psock.sendptr <= g + n
    BY <1>a
  <2>3. peer'.fin \in BOOLEAN
    BY <1>4, <1>11, <1>18
  <2>4. peer'.fin => g + n = h /\ Closing
    <3>1. CASE peer.fin
      <4>1. n = 0 /\ g = h /\ Closing
        BY <1>4, <1>17, <3>1
      <4> QED
        BY <1>a, <4>1
    <3>2. CASE ~peer.fin
      BY <1>16, <1>18, <3>2
    <3> QED
      BY <3>1, <3>2
  <2> QED
    BY <1>1, <1>14, <1>18, <1>19, <1>21, <2>1, <2>2, <2>3, <2>4 DEF PeerHas, h
<1>23. AcksAreRight(toUip', peer')
  <2>1. ASSUME NEW s \in toUip
        PROVE  \E r \in 0 .. Len(peer'.got) + Bit(peer'.fin) : s.ack = SeqOut(r)
    <3>1. PICK r \in 0 .. g + Bit(peer.fin) : s.ack = SeqOut(r)
      BY <1>3 DEF AcksAreRight, g
    <3>2. n + Bit(fin) \in Nat
      BY <1>2, <1>20
    <3>3. r \in 0 .. g + n + Bit(peer'.fin)
      BY <1>2, <1>20, <3>2
    <3> QED
      BY <1>19, <3>1, <3>3
  <2> QED
    BY <1>1, <2>1 DEF AcksAreRight
<1>24. OutInv'
  <2>1. FlightIsRight(toPeer', h, Closing)
    BY <1>1, <1>3 DEF FlightIsRight
  <2>2. Closing' = Closing /\ psock'.handed = h
    BY <1>1 DEF Closing, h
  <2> QED
    BY <1>1, <1>3, <1>22, <1>23, <2>1, <2>2 DEF OutInv
<1>25. MessageGoesOn
  <2>1. /\ psock'.handed = psock.handed /\ psock'.sendptr = psock.sendptr
        /\ psock.handed <= psock.handed /\ psock.sendptr <= psock.sendptr
    BY <1>1, <1>2 DEF h
  <2>2. /\ peer'.fin \in BOOLEAN /\ (peer.fin => peer'.fin)
        /\ peer'.fin => peer.fin \/ g + n = h
    BY <1>4, <1>11, <1>16, <1>18
  <2> QED
    <3>1. /\ psock.handed \in Nat /\ psock.handed <= MessageLen /\ psock.sendptr \in Nat
          /\ psock.sendptr <= Len(peer.got) /\ PeerHas(peer, psock, Closing)
          /\ Len(peer.got) + n <= psock.handed /\ peer'.got = From(0, Len(peer.got) + n)
          /\ n \in Nat /\ (peer.fin => n = 0)
          /\ peer'.fin => peer.fin \/ Len(peer.got) + n = psock.handed
      BY <1>2, <1>3, <1>a, <1>14, <1>17, <1>18, <2>2 DEF g, h
    <3> QED
      BY <2>1, <2>2, <3>1, StreamSteps
<1>26. ASSUME peer.unread <= Len(peer.got) PROVE peer'.unread <= Len(peer'.got)
  <2>1. peer'.unread = peer.unread + n /\ peer.unread <= g
    BY <1>1, <1>26 DEF IsPeer, g
  <2> QED
    BY <1>7, <1>a, <1>19, <2>1
<1> QED
  BY <1>24, <1>25, <1>26

\* The steps of the network and of the peer's application.
LEMMA RestOfTheWorld ==
    ASSUME OutInv, uip' = uip, psock' = psock, toPeer' \subseteq toPeer,
           peer'.got = peer.got, peer'.fin = peer.fin, peer'.rcv_nxt = peer.rcv_nxt,
           \A sg \in toUip' : sg \in toUip \/ sg.ack = peer.rcv_nxt
    PROVE  OutInv' /\ MessageGoesOn
<1>1. /\ SenderIs(uip, psock) /\ PeerHas(peer, psock, Closing)
      /\ FlightIsRight(toPeer, psock.handed, Closing) /\ AcksAreRight(toUip, peer)
  BY DEF OutInv
<1>2. SenderIs(uip', psock')
  BY <1>1
<1>3. Closing' = Closing
  BY DEF Closing
<1>4. PeerHas(peer', psock', Closing')
  BY <1>1, <1>3 DEF PeerHas
<1>5. FlightIsRight(toPeer', psock'.handed, Closing')
  BY <1>1, <1>3 DEF FlightIsRight
<1>6. AcksAreRight(toUip', peer')
  <2> DEFINE G == Len(peer.got) + Bit(peer.fin)
  <2>1. peer.rcv_nxt = SeqOut(G) /\ G \in 0 .. G
    <3>1. Len(peer.got) \in Nat /\ Bit(peer.fin) \in Nat
      BY <1>1 DEF PeerHas, Bit
    <3>2. G \in Nat
      BY <3>1
    <3>3. peer.rcv_nxt = SeqOut(G)
      BY <1>1 DEF PeerHas
    <3> HIDE DEF G
    <3> QED
      BY <3>2, <3>3
  <2>2. ASSUME NEW sg \in toUip' PROVE \E r \in 0 .. G : sg.ack = SeqOut(r)
    <3>1. CASE sg \in toUip
      BY <1>1, <3>1 DEF AcksAreRight
    <3>2. CASE sg.ack = peer.rcv_nxt
      BY <2>1, <3>2
    <3> QED
      BY <3>1, <3>2
  <2> QED
    BY <2>2 DEF AcksAreRight
<1>7. MessageGoesOn
  BY DEF MessageGoesOn, Outgoing!streamVars
<1> QED
  BY <1>2, <1>4, <1>5, <1>6, <1>7 DEF OutInv

LEMMA StepDelivers ==
    ASSUME ~MayQuit, WindowsFit, SendInv, SendInv', OutInv, [Next]_vars
    PROVE  OutInv' /\ MessageGoesOn
<1>1. UipFits /\ UipFits' /\ ToUipFits(toUip) /\ PeerFits(peer) /\ IsPeer(peer)
  BY DEF SendInv, PeerFits
<1>2. CASE UNCHANGED vars
  BY <1>2, RestOfTheWorld DEF vars
<1>3. CASE Tick
  <2>1. peer' = peer /\ toUip' \subseteq toUip
    BY <1>3 DEF Tick
  <2> QED
    BY <1>1, <1>3, <2>1, TickSends, UipKeeps
<1>4. ASSUME NEW sg \in toUip, Recv(sg)
      PROVE  OutInv' /\ MessageGoesOn
  <2>1. peer' = peer /\ toUip' \subseteq toUip
    BY <1>4 DEF Recv
  <2> QED
    BY <1>1, <1>4, <2>1, RecvSends, UipKeeps
<1>5. ASSUME NEW from \in 0 .. PeerLen, NEW n \in 0 .. PeerLen, NEW fin \in BOOLEAN,
             PeerSend(from, n, fin)
      PROVE  OutInv' /\ MessageGoesOn
  <2> DEFINE sg == [seq |-> Add32(IRS, from), ack |-> peer.rcv_nxt,
                    data |-> SubSeq(PeerMessage, from + 1, from + n), fin |-> fin,
                    wnd |-> PeerBuf - peer.unread]
  <2>1. /\ uip' = uip /\ psock' = psock /\ toPeer' = toPeer
        /\ \E k : peer' = [peer EXCEPT !.sent = k]
        /\ \A s \in toUip' : s \in toUip \/ s = sg
    BY <1>5 DEF PeerSend, Put
  <2>2. sg.ack = peer.rcv_nxt
    OBVIOUS
  <2> HIDE DEF sg
  <2>3. peer'.got = peer.got /\ peer'.fin = peer.fin /\ peer'.rcv_nxt = peer.rcv_nxt
    BY <1>1, <2>1 DEF IsPeer
  <2> QED
    BY <2>1, <2>2, <2>3, RestOfTheWorld
<1>6. ASSUME NEW sg \in toPeer, PeerRecv(sg)
      PROVE  OutInv' /\ MessageGoesOn
  BY <1>1, <1>6, PeerTakes
<1>7. CASE PeerRead
  <2>1. /\ uip' = uip /\ psock' = psock /\ toPeer' = toPeer /\ toUip' = toUip
        /\ peer' = [peer EXCEPT !.unread = 0]
    BY <1>7 DEF PeerRead
  <2>2. peer'.got = peer.got /\ peer'.fin = peer.fin /\ peer'.rcv_nxt = peer.rcv_nxt
    BY <1>1, <2>1 DEF IsPeer
  <2> QED
    BY <2>1, <2>2, RestOfTheWorld
<1>8. CASE Lose
  BY <1>8, RestOfTheWorld DEF Lose
<1> QED
  BY <1>2, <1>3, <1>4, <1>5, <1>6, <1>7, <1>8 DEF Next

LEMMA InitDelivers == Init => OutInv /\ Outgoing!Init
<1> SUFFICES ASSUME Init PROVE OutInv /\ Outgoing!Init
  OBVIOUS
<1>1. /\ uip.state = "ESTABLISHED" /\ uip.len = 0 /\ uip.snd_nxt = ISS /\ uip.mss = UIP_TCP_MSS
      /\ psock.state = "NONE" /\ psock.sendptr = 0 /\ psock.sendlen = MessageLen
      /\ psock.handed = 0 /\ peer.got = << >> /\ peer.fin = FALSE /\ peer.rcv_nxt = ISS
      /\ toPeer = {} /\ toUip = {}
  BY DEF Init
<1>2. SeqOut(0) = ISS
  <2>1. 0 \in 0 .. MessageLen + 2 /\ ISS \in 0 .. SeqMod - 1 /\ ISS + 0 = ISS /\ ISS < SeqMod
    BY StreamAssumption
  <2> QED
    BY <2>1, SeqOutIs
<1>3. SenderIs(uip, psock)
  <2>1. Chunk(psock) <= UIP_TCP_MSS /\ MessageLen > 0 /\ 0 + 0 = 0
    BY <1>1, StreamAssumption DEF Chunk, Least
  <2> QED
    BY <1>1, <1>2, <2>1 DEF SenderIs
<1>4. PeerHas(peer, psock, Closing)
  <2>1. Len(<< >>) = 0 /\ From(0, 0) = << >> /\ 0 + 0 = 0 /\ 0 <= 0 /\ 0 \in Nat
    BY NothingFrom
  <2>2. Len(peer.got) = 0 /\ Bit(peer.fin) = 0 /\ peer.fin = FALSE
    BY <1>1, <2>1, Zenon DEF Bit
  <2>3. psock.sendptr <= Len(peer.got) /\ Len(peer.got) <= psock.handed /\ Len(peer.got) \in Nat
    BY <1>1, <2>1, <2>2
  <2>4. peer.got = From(0, Len(peer.got))
    BY <1>1, <2>1, <2>2
  <2>5. peer.fin \in BOOLEAN /\ (peer.fin => Len(peer.got) = psock.handed /\ Closing)
    BY <2>2
  <2>6. peer.rcv_nxt = SeqOut(Len(peer.got) + Bit(peer.fin))
    BY <1>1, <1>2, <2>1, <2>2
  <2> QED
    BY <2>3, <2>4, <2>5, <2>6, Zenon DEF PeerHas
<1>5. FlightIsRight(toPeer, psock.handed, Closing) /\ AcksAreRight(toUip, peer)
  BY <1>1 DEF FlightIsRight, AcksAreRight
<1>6. Outgoing!Init
  BY <1>1 DEF Outgoing!Init
<1> QED
  BY <1>3, <1>4, <1>5, <1>6 DEF OutInv

\* PSOCK_SEND is done when the whole message is confirmed.
LEMMA DoneIsReceived == SendInv /\ OutInv => SentIsReceived
<1> SUFFICES ASSUME SendInv, OutInv, SendDone(psock) PROVE peer.got = Message
  BY DEF SentIsReceived
<1>1. psock.sendlen = 0 /\ psock.sendptr + psock.sendlen = MessageLen
      /\ psock.sendptr \in Nat /\ psock.handed \in Nat /\ psock.handed <= MessageLen
  <2>1. GoodPsock(psock)
    BY DEF SendInv, UipFits
  <2> QED
    BY <2>1, ChunkIs DEF SendDone, GoodPsock
<1>2. /\ psock.sendptr <= Len(peer.got) /\ Len(peer.got) <= psock.handed /\ Len(peer.got) \in Nat
      /\ peer.got = From(0, Len(peer.got))
  BY DEF OutInv, PeerHas
<1>3. Len(peer.got) = MessageLen
  BY <1>1, <1>2, StreamAssumption
<1>4. Message = From(0, MessageLen)
  BY StreamAssumption DEF Message, From
<1> QED
  BY <1>2, <1>3, <1>4

\* The peer gets the message as ReliableStream says, and psock_send() takes for
\* sent only what the peer has, whatever the network does, as long as the
\* windows fit and the application does not close on its own: what ack_data()
\* takes back by the present mss is then what was sent.
THEOREM MessageIsDelivered ==
    ASSUME ~MayQuit
    PROVE  Spec /\ []WindowsFit => OutgoingSpec
<1>1. Init => IInv
  BY InitGood
<1>2. IInv /\ [Next]_vars => IInv'
  BY StepGood, StutterGood
<1>3. IInv => SentInRange
  BY DEF IInv
<1>4. Init => OutInv /\ Outgoing!Init
  BY InitDelivers
<1>5. WindowsFit /\ SendInv /\ SendInv' /\ OutInv /\ [Next]_vars
        => OutInv' /\ [Outgoing!Next]_Outgoing!streamVars
  BY StepDelivers DEF MessageGoesOn
<1> QED
  BY <1>1, <1>2, <1>3, <1>4, <1>5, InitFits, StepFits, PTL
     DEF Spec, OutgoingSpec, Outgoing!Spec


\* psock.h's promise, PSOCK_SEND "blocks until all data has been sent and is
\* known to have been received by the remote end", under the same conditions.
THEOREM SentAndReceived ==
    ASSUME ~MayQuit
    PROVE  Spec /\ []WindowsFit => []SentIsReceived
<1>1. Init => IInv
  BY InitGood
<1>2. IInv /\ [Next]_vars => IInv'
  BY StepGood, StutterGood
<1>3. IInv => SentInRange
  BY DEF IInv
<1>4. Init => OutInv
  BY InitDelivers
<1>5. WindowsFit /\ SendInv /\ SendInv' /\ OutInv /\ [Next]_vars => OutInv'
  BY StepDelivers
<1>6. SendInv /\ OutInv => SentIsReceived
  BY DoneIsReceived
<1> QED
  BY <1>1, <1>2, <1>3, <1>4, <1>5, <1>6, InitFits, StepFits, PTL DEF Spec

-----------------------------------------------------------------------------
(* A peer with room for the whole message                                  *)

\* What the peer has not read is no more than it has got, and no window it
\* advertised was smaller than a full segment.
Roomy ==
    /\ peer.unread <= Len(peer.got)
    /\ \A sg \in toUip : sg.wnd >= UIP_TCP_MSS

LEMMA RoomyFits == SendInv /\ Roomy => WindowsFit
<1> SUFFICES ASSUME SendInv, Roomy, NEW sg \in toUip PROVE Mss(sg) >= Chunk(psock)
  BY DEF WindowsFit
<1>1. psock.sendlen \in Nat /\ UIP_TCP_MSS \in Nat /\ UIP_TCP_MSS > 0
  <2>1. GoodPsock(psock)
    BY DEF SendInv, UipFits
  <2> QED
    BY <2>1, ChunkIs, StreamAssumption
<1>2. Chunk(psock) <= UIP_TCP_MSS /\ Chunk(psock) \in Nat
  BY <1>1, LeastIs DEF Chunk
<1>3. sg.wnd \in Nat /\ sg.wnd >= UIP_TCP_MSS
  <2>1. sg.wnd \in 0 .. PeerBuf
    BY DEF SendInv, ToUipFits
  <2> QED
    BY <2>1, StreamAssumption DEF Roomy
<1>4. Mss(sg) = UIP_TCP_MSS
  <2>1. sg.wnd > UIP_TCP_MSS \/ sg.wnd = UIP_TCP_MSS
    BY <1>1, <1>3
  <2> QED
    BY <2>1 DEF Mss
<1> QED
  BY <1>1, <1>2, <1>4

LEMMA StepKeepsRoom ==
    ASSUME PeerBuf >= MessageLen + UIP_TCP_MSS, SendInv, OutInv, Roomy, [Next]_vars
    PROVE  Roomy'
<1>1. UipFits /\ ToUipFits(toUip) /\ PeerFits(peer) /\ IsPeer(peer)
  BY DEF SendInv, PeerFits
<1>2. /\ peer.unread \in Nat /\ Len(peer.got) \in Nat /\ Len(peer.got) <= MessageLen
      /\ peer.unread <= Len(peer.got) /\ PeerBuf \in Nat
      /\ MessageLen \in Nat /\ UIP_TCP_MSS \in Nat
  <2>1. Len(peer.got) \in Nat /\ Len(peer.got) <= psock.handed
    BY DEF OutInv, PeerHas
  <2>2. psock.handed \in Nat /\ psock.handed <= MessageLen
    <3>1. GoodPsock(psock)
      BY <1>1 DEF UipFits
    <3> QED
      BY <3>1, ChunkIs
  <2>3. peer.unread \in 0 .. PeerBuf
    BY <1>1 DEF PeerFits
  <2> QED
    BY <2>1, <2>2, <2>3, StreamAssumption DEF Roomy
<1>3. ASSUME peer'.got = peer.got, peer'.unread = peer.unread \/ peer'.unread = 0,
             \A sg \in toUip' : sg \in toUip \/ sg.wnd = PeerBuf - peer.unread
      PROVE  Roomy'
  <2>1. peer'.unread <= Len(peer'.got)
    BY <1>2, <1>3
  <2>2. PeerBuf - peer.unread >= UIP_TCP_MSS
    BY <1>2
  <2>3. ASSUME NEW sg \in toUip' PROVE sg.wnd >= UIP_TCP_MSS
    BY <1>3, <2>2, <2>3 DEF Roomy
  <2> QED
    BY <2>1, <2>3 DEF Roomy
<1>4. CASE UNCHANGED vars
  BY <1>3, <1>4 DEF vars
<1>5. CASE Tick
  BY <1>3, <1>5 DEF Tick
<1>6. ASSUME NEW sg \in toUip, Recv(sg) PROVE Roomy'
  <2>1. peer' = peer /\ toUip' \subseteq toUip
    BY <1>6 DEF Recv
  <2> QED
    BY <1>3, <2>1
<1>7. ASSUME NEW from \in 0 .. PeerLen, NEW n \in 0 .. PeerLen, NEW fin \in BOOLEAN,
             PeerSend(from, n, fin)
      PROVE  Roomy'
  <2> DEFINE sg == [seq |-> Add32(IRS, from), ack |-> peer.rcv_nxt,
                    data |-> SubSeq(PeerMessage, from + 1, from + n), fin |-> fin,
                    wnd |-> PeerBuf - peer.unread]
  <2>1. /\ \E k : peer' = [peer EXCEPT !.sent = k]
        /\ \A s \in toUip' : s \in toUip \/ s = sg
    BY <1>7 DEF PeerSend, Put
  <2>2. sg.wnd = PeerBuf - peer.unread
    OBVIOUS
  <2> HIDE DEF sg
  <2>3. peer'.got = peer.got /\ peer'.unread = peer.unread
    BY <1>1, <2>1 DEF IsPeer
  <2> QED
    BY <1>3, <2>1, <2>2, <2>3
<1>8. ASSUME NEW sg \in toPeer, PeerRecv(sg) PROVE Roomy'
  <2>1. peer'.unread <= Len(peer'.got)
    BY <1>1, <1>2, <1>8, PeerTakes
  <2>2. toUip' = toUip
    BY <1>8 DEF PeerRecv
  <2> QED
    BY <2>1, <2>2 DEF Roomy
<1>9. CASE PeerRead
  <2>1. toUip' = toUip /\ peer' = [peer EXCEPT !.unread = 0]
    BY <1>9 DEF PeerRead
  <2>2. peer'.got = peer.got /\ peer'.unread = 0
    BY <1>1, <2>1 DEF IsPeer
  <2> QED
    BY <1>3, <2>1, <2>2
<1>10. CASE Lose
  BY <1>3, <1>10 DEF Lose
<1> QED
  BY <1>4, <1>5, <1>6, <1>7, <1>8, <1>9, <1>10 DEF Next

\* With a buffer that holds the message and a segment more, every window fits:
\* the peer gets the message as ReliableStream says, however slowly it reads,
\* and psock_send() keeps psock.h's promise.
THEOREM RoomIsEnough ==
    ASSUME ~MayQuit, PeerBuf >= MessageLen + UIP_TCP_MSS
    PROVE  Spec => OutgoingSpec /\ []SentIsReceived
<1>1. Init => IInv
  BY InitGood
<1>2. IInv /\ [Next]_vars => IInv'
  BY StepGood, StutterGood
<1>3. IInv => SentInRange
  BY DEF IInv
<1>4. Init => OutInv /\ Outgoing!Init
  BY InitDelivers
<1>5. WindowsFit /\ SendInv /\ SendInv' /\ OutInv /\ [Next]_vars
        => OutInv' /\ [Outgoing!Next]_Outgoing!streamVars
  BY StepDelivers DEF MessageGoesOn
<1>6. Init => Roomy
  <2> SUFFICES ASSUME Init PROVE Roomy
    OBVIOUS
  <2>1. peer.unread = 0 /\ peer.got = << >> /\ toUip = {} /\ Len(<< >>) = 0
    BY DEF Init
  <2>2. peer.unread <= Len(peer.got)
    BY <2>1
  <2> QED
    BY <2>1, <2>2 DEF Roomy
<1>7. SendInv /\ OutInv /\ Roomy /\ [Next]_vars => Roomy'
  BY StepKeepsRoom
<1>8. SendInv /\ OutInv => SentIsReceived
  BY DoneIsReceived
<1> QED
  BY <1>1, <1>2, <1>3, <1>4, <1>5, <1>6, <1>7, <1>8, RoomyFits, InitFits, StepFits, PTL
     DEF Spec, OutgoingSpec, Outgoing!Spec

=============================================================================
