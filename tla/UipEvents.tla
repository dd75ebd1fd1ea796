------------------------------ MODULE UipEvents ------------------------------
(***************************************************************************)
(* A TCP connection as its application sees it: the events uip_process()   *)
(* calls the application for, and what becomes of the application's        *)
(* answer.                                                                 *)
(*                                                                         *)
(* It is the application's end of what UipTcp and TcpStream model in full: *)
(* at most one segment is outstanding, an acknowledgement is for all of    *)
(* it, and the peer takes what it gets in order and once.  The mss stays   *)
(* the same (TcpStream has a changing window).  Data is a sequence of      *)
(* tokens, each of length one.                                             *)
(***************************************************************************)
EXTENDS Integers, Sequences

CONSTANTS
    AppMss,         \* uip_mss()
    MaxRexmit       \* UIP_MAXRTX: a segment is sent so often again

ASSUME AppAssumption == AppMss \in Nat \ {0, 1} /\ MaxRexmit \in Nat

\* struct uip_conn, with the outstanding data.  "none" is a connection that is
\* not there, or that is being opened.
Link(state) == [state |-> state, len |-> 0, sent |-> <<>>, nrtx |-> 0]

LinkStates == {"none", "open", "closing", "last ack"}

\* An event: uip_flags, with the data of the segment.  A FIN (kind "closed")
\* and a segment may come with data or an acknowledgement or both.
Event(kind, acks, data) == [kind |-> kind, acks |-> acks, data |-> data]
Newdata(e) == e.data # <<>>
EndsIt(e) == e.kind \in {"closed", "aborted", "timedout"}

\* An answer: uip_abort(), uip_close(), and what is given to uip_send().
Answer(data) == [abort |-> FALSE, close |-> FALSE, data |-> data]
Silent == Answer(<<>>)
Close == [abort |-> FALSE, close |-> TRUE, data |-> <<>>]
Abort == [abort |-> TRUE, close |-> FALSE, data |-> <<>>]

Cut(data, n) == IF Len(data) <= n THEN data ELSE SubSeq(data, 1, n)
Drop(data, n) == IF Len(data) <= n THEN <<>> ELSE SubSeq(data, n + 1, Len(data))

-----------------------------------------------------------------------------
(* What becomes of an answer: the connection afterwards, and the data of   *)
(* the segment that is sent.                                               *)

\* Mutant: data that waits to be acknowledged is sent with what was added to it.
SendsAll(l, data) ==
    [link |-> IF l.len = 0 THEN [l EXCEPT !.len = Len(data), !.sent = data] ELSE l,
     wire |-> data]

\* With nothing outstanding the data is sent as far as it fits a segment;
\* otherwise as much as was sent before is taken from it.
Sends(l, data) ==
    LET first == Cut(data, AppMss)
    IN  IF l.len = 0
        THEN [link |-> [l EXCEPT !.len = Len(first), !.sent = first], wire |-> first]
        ELSE [link |-> l, wire |-> Cut(data, l.len)]

Ends(state) == [link |-> Link(state), wire |-> <<>>]

\* uip_abort(), uip_close() or uip_send() on connection l.
Does(l, a) ==
    IF a.abort THEN Ends("none")
    ELSE IF a.close THEN Ends("closing")
    ELSE Sends(l, a.data)

\* Event e happened on connection l and the application answered a.
After(l, e, a) ==
    CASE e.kind = "closed" -> Ends(IF l.state = "open" THEN "last ack" ELSE "none")
      [] e.kind \in {"aborted", "timedout"} -> Ends("none")
      [] e.kind = "rexmit" ->
             [link |-> [l EXCEPT !.nrtx = @ + 1], wire |-> Cut(a.data, l.len)]
      [] e.kind = "connected" -> Does(Link("open"), a)
      [] OTHER -> Does(IF e.acks THEN Link("open") ELSE [l EXCEPT !.nrtx = 0], a)

-----------------------------------------------------------------------------
(* The events that can happen on connection l                              *)

\* Data, an acknowledgement, or both.
CanInput(l, e) ==
    /\ l.state = "open"
    /\ e.acks => l.len > 0
    /\ e.acks \/ Newdata(e)

\* The peer's FIN, which is not taken while data is outstanding; or the end of
\* a connection that is closing on both sides.
CanClose(l, e) ==
    \/ l.state = "open" /\ (e.acks <=> l.len > 0)
    \/ l.state \in {"closing", "last ack"} /\ ~e.acks /\ ~Newdata(e)

\* A SYN or a FIN is outstanding, or data that was sent often enough.
CanTimeOut(l) == l.state = "open" => (l.len > 0 /\ l.nrtx = MaxRexmit)

CanHappen(l, e) ==
    \/ e.kind = "connected" /\ l.state = "none"
    \/ e.kind = "poll" /\ l.state = "open" /\ l.len = 0
    \/ e.kind = "rexmit" /\ l.state = "open" /\ l.len > 0 /\ l.nrtx < MaxRexmit
    \/ e.kind = "input" /\ CanInput(l, e)
    \/ e.kind = "closed" /\ CanClose(l, e)
    \/ e.kind = "aborted"
    \/ e.kind = "timedout" /\ CanTimeOut(l)

\* All events with data of a set of inputs.  The acknowledgement that completes
\* a passive open may bring data.
Events(inputs) ==
    {Event(k, FALSE, <<>>) : k \in {"poll", "rexmit", "aborted", "timedout"}}
    \cup {Event("connected", FALSE, data) : data \in inputs \cup {<<>>}}
    \cup {Event(k, acks, data) : k \in {"input", "closed"}, acks \in BOOLEAN,
                                 data \in inputs \cup {<<>>}}

=============================================================================
