----------------------------- MODULE WebClient -----------------------------
(***************************************************************************)
(* The web client, webclient.c: one page at a time, in one static variable *)
(* that every connection of the client shares.  A page that has moved is   *)
(* asked for again, on another connection, while the one before is still   *)
(* being closed.                                                           *)
(*                                                                         *)
(* An action is one call of webclient_appcall() for a connection, with the *)
(* answer, or a call of the program's.  The text of a request or reply is  *)
(* a sequence of tokens; a header field is one token.  The servers are     *)
(* external: they answer a request when they have got its end, in pieces,  *)
(* and close the connection then.                                          *)
(***************************************************************************)
EXTENDS UipEvents, SequencesExt, FiniteSets

CONSTANTS
    WebReplies,    \* the reply of the servers to <<host, file>>
    WebMoved,      \* "Location:" header fields: the <<host, file>> of each
    WebKnown,      \* the hosts resolv_lookup() knows
    WebSlots,      \* the connections of the stack
    WebLine,       \* sizeof(httpheaderline): 200
    WebTimeout,    \* WEBCLIENT_TIMEOUT: 100
    WebWrap        \* where the timer wraps: 256

\* A name is not the end of a request, and a known host has the pages that moved
\* to it.
IsPage(page) == \A i \in {1, 2} : page[i] \in STRING /\ page[i] # "crnl"

ASSUME WebAssumption ==
    /\ WebLine \in Nat \ {0, 1}
    /\ WebTimeout \in Nat \ {0} /\ WebWrap \in Nat /\ WebWrap > WebTimeout
    /\ WebSlots # {} /\ IsFiniteSet(WebSlots)
    /\ \A page \in DOMAIN WebReplies : IsPage(page) /\ WebReplies[page] \in Seq(STRING)
    /\ \A field \in DOMAIN WebMoved :
           /\ IsPage(WebMoved[field])
           /\ WebMoved[field][1] \in WebKnown => WebMoved[field] \in DOMAIN WebReplies

VARIABLES
    web,      \* webclient_state
    conns,    \* the connections, with their servers
    told      \* history: what the program was told, and on which page's connection

webVars == <<web, conns, told>>

Request(page) == <<"get", page[2], "host", page[1], "crnl">>

NoConn == [used |-> FALSE, link |-> Link("none"), wire |-> <<>>,
           page |-> <<"", "">>, got |-> <<>>, rest |-> <<>>, replied |-> FALSE]

-----------------------------------------------------------------------------
(* webclient_get()                                                         *)

InitConnection(w) ==
    [w EXCEPT !.state = "STATUSLINE", !.line = <<>>, !.ptr = 0, !.left = Len(Request(w.page))]

FreeSlots(cs) == {c \in WebSlots : ~cs[c].used}

\* It returns 0 and does nothing if the host is not known or no connection is
\* free.  i is [web, conns].
GetFails(i, page) == page[1] \notin WebKnown \/ FreeSlots(i.conns) = {}

Get(i, page) ==
    IF GetFails(i, page) THEN i
    ELSE [web |-> InitConnection([i.web EXCEPT !.page = page]),
          conns |-> [i.conns EXCEPT ![CHOOSE c \in FreeSlots(i.conns) : TRUE] =
                        [NoConn EXCEPT !.used = TRUE, !.page = page]]]

-----------------------------------------------------------------------------
(* The request                                                             *)

ChunkLen(w) == IF w.left > AppMss THEN AppMss ELSE w.left

\* Mutant: from its beginning.
ChunkFromStart(w) == SubSeq(Request(w.page), 1, ChunkLen(w))

\* senddata(): made anew each time, from the part that is not acknowledged.
Chunk(w) == SubSeq(Request(w.page), w.ptr + 1, w.ptr + ChunkLen(w))

\* acked()
AckedChunk(w) == [w EXCEPT !.left = @ - ChunkLen(w), !.ptr = @ + ChunkLen(w)]

-----------------------------------------------------------------------------
(* The reply                                                               *)

WebStatuses == {"200", "moved", "other"}
Flag(status) == CASE status = "200" -> "OK" [] status = "moved" -> "MOVED" [] OTHER -> "NONE"

\* The tokens of a segment one after the other; p is [web, data, abort], with
\* the data for the program.  A line that does not fit is never over.
LineFull(p) == Len(p.web.line) >= WebLine

ParseStatusline(p, t) ==
    IF LineFull(p) THEN p
    ELSE IF t # "nl" THEN [p EXCEPT !.web.line = Append(@, t)]
    ELSE IF p.web.line = <<>> \/ Head(p.web.line) \notin WebStatuses
    THEN [p EXCEPT !.abort = TRUE]
    ELSE [p EXCEPT !.web.flag = Flag(Head(p.web.line)), !.web.line = <<>>,
                   !.web.state = "HEADERS"]

ParseHeaders(p, t) ==
    IF LineFull(p) THEN p
    ELSE IF t # "nl" THEN [p EXCEPT !.web.line = Append(@, t)]
    ELSE IF p.web.line = <<>> THEN p
    ELSE IF Head(p.web.line) = "cr" THEN [p EXCEPT !.web.state = "DATA"]
    ELSE IF Head(p.web.line) \in DOMAIN WebMoved
    THEN [p EXCEPT !.web.page = WebMoved[Head(p.web.line)], !.web.line = <<>>]
    ELSE [p EXCEPT !.web.line = <<>>]

ParseToken(p, t) ==
    CASE p.abort -> p
      [] ~p.abort /\ p.web.state = "STATUSLINE" -> ParseStatusline(p, t)
      [] ~p.abort /\ p.web.state = "HEADERS" -> ParseHeaders(p, t)
      [] OTHER -> IF p.web.flag = "MOVED" THEN p ELSE [p EXCEPT !.data = Append(@, t)]

Parse(w, data) == FoldLeft(ParseToken, [web |-> w, data |-> <<>>, abort |-> FALSE], data)

-----------------------------------------------------------------------------
(* webclient_appcall(), for event e of connection c                        *)

\* What the server has still to send.
ReplyLeft(conn) == IF conn.replied THEN conn.rest ELSE WebReplies[conn.page]

\* The connection after the call, in which a was answered.
Happened(c, e, a) ==
    LET after == After(conns[c].link, e, a)
    IN  [conns EXCEPT ![c] =
            IF after.link.state = "none" THEN NoConn
            ELSE [conns[c] EXCEPT !.link = after.link, !.wire = after.wire,
                           !.got = IF e.acks THEN @ \o conns[c].link.sent ELSE @,
                           !.replied = @ \/ Newdata(e),
                           !.rest = Drop(ReplyLeft(conns[c]), Len(e.data))]]

WebConnected(c, e) ==
    LET w == [web EXCEPT !.timer = 0, !.state = "STATUSLINE"]
    IN  /\ e.kind = "connected"
        /\ web' = w
        /\ conns' = Happened(c, e, Answer(Chunk(w)))
        /\ told' = [told EXCEPT !.data = <<>>, !.page = conns[c].page]

\* webclient_close() was called: the program is told and the connection aborted.
WebCloses(c, e) ==
    /\ e.kind # "connected" /\ web.state = "CLOSE"
    /\ conns' = Happened(c, e, Abort)
    /\ UNCHANGED <<web, told>>

\* Acknowledgement and data, in this order.
Handled(e) ==
    LET t == IF e.acks \/ Newdata(e) THEN [web EXCEPT !.timer = 0] ELSE web
    IN  Parse(IF e.acks /\ t.left > 0 THEN AckedChunk(t) ELSE t, e.data)

Ticked(timer) == (timer + 1) % WebWrap
TooLong(e) == e.kind = "poll" /\ Ticked(web.timer) = WebTimeout

WebEvent(c, e) ==
    LET p == Handled(e)
        sends == e.kind = "rexmit" \/ Newdata(e) \/ e.acks
    IN  /\ e.kind \in {"input", "rexmit", "poll", "aborted", "timedout"}
        /\ web.state # "CLOSE"
        /\ web' = IF e.kind = "poll" THEN [web EXCEPT !.timer = Ticked(@)] ELSE p.web
        /\ conns' = Happened(c, e, IF p.abort \/ TooLong(e) THEN Abort
                                   ELSE IF sends THEN Answer(Chunk(p.web)) ELSE Silent)
        /\ told' = [told EXCEPT !.data = @ \o p.data]

\* The page is complete, of which the program is told, or is somewhere else.
WebClosed(c, e) ==
    LET p == Handled(e)
        i == [web |-> p.web, conns |-> Happened(c, e, Silent)]
        j == IF p.web.flag = "MOVED" THEN Get(i, p.web.page) ELSE i
        asks == j.conns # i.conns
    IN  /\ e.kind = "closed" /\ web.state # "CLOSE"
        /\ web' = j.web
        /\ conns' = j.conns
        /\ told' = [told EXCEPT !.data = @ \o p.data,
                                !.mixed = @ \/ (asks /\ \E d \in WebSlots : d # c /\ conns[d].used)]

\* What the servers send: nothing before the end of a request, and no FIN
\* before the end of the reply.
WebServes(c, e) ==
    LET conn == conns[c]
        stream == IF e.acks THEN conn.got \o conn.link.sent ELSE conn.got
        asked == stream # <<>> /\ Last(stream) = "crnl"
        rest == ReplyLeft(conn)
    IN  /\ Newdata(e) => e.kind # "connected" /\ asked /\ e.data = Cut(rest, Len(e.data))
        /\ e.kind = "closed" /\ conn.link.state = "open" =>
               asked /\ Drop(rest, Len(e.data)) = <<>>

WebReplyData ==
    UNION {{Cut(Drop(WebReplies[page], n), m) : n \in 0 .. Len(WebReplies[page]), m \in 1 .. AppMss} :
              page \in DOMAIN WebReplies} \ {<<>>}

WebAppcall ==
    \E c \in WebSlots, e \in Events(WebReplyData) :
        /\ conns[c].used
        /\ CanHappen(conns[c].link, e)
        /\ WebServes(c, e)
        /\ WebConnected(c, e) \/ WebCloses(c, e) \/ WebEvent(c, e) \/ WebClosed(c, e)

\* The program asks for one page, and may give it up at any time.
WebGet ==
    /\ ~told.asked
    /\ \E page \in DOMAIN WebReplies :
         LET i == Get([web |-> web, conns |-> conns], page)
         IN  ~GetFails([web |-> web, conns |-> conns], page) /\ web' = i.web /\ conns' = i.conns
    /\ told' = [told EXCEPT !.asked = TRUE]

WebClose ==
    /\ told.asked /\ web.state # "CLOSE"
    /\ web' = [web EXCEPT !.state = "CLOSE"]
    /\ UNCHANGED <<conns, told>>

WebInit ==
    /\ web = [state |-> "STATUSLINE", flag |-> "NONE", timer |-> 0, page |-> <<"", "">>,
              left |-> 0, ptr |-> 0, line |-> <<>>]
    /\ conns = [c \in WebSlots |-> NoConn]
    /\ told = [data |-> <<>>, page |-> <<"", "">>, asked |-> FALSE, mixed |-> FALSE]

\* Bound: what becomes of two connections that ask for the same page is not
\* followed.
WebNext == ~told.mixed /\ (WebAppcall \/ WebGet \/ WebClose)

WebSpec == WebInit /\ [][WebNext]_webVars

-----------------------------------------------------------------------------
(* Correctness                                                             *)

WebTypeOK ==
    /\ web.timer \in 0 .. WebWrap - 1
    /\ ~told.mixed => web.timer <= WebTimeout
    /\ web.state \in {"STATUSLINE", "HEADERS", "DATA", "CLOSE"}
    /\ Len(web.line) <= WebLine
    /\ web.ptr + web.left = Len(Request(web.page)) \/ ~told.asked
    /\ \A c \in WebSlots : conns[c].used \/ conns[c] = NoConn

\* Token n of a reply ends a line that begins with a CR.
EndsHeaders(reply, n) ==
    /\ reply[n] = "nl"
    /\ \E i \in 1 .. n - 1 : /\ reply[i] = "cr" /\ (i = 1 \/ reply[i - 1] = "nl")
                             /\ \A j \in i .. n - 1 : reply[j] # "nl"

\* The text of a page: what follows the empty line.
Body(page) ==
    LET reply == WebReplies[page]
    IN  {SubSeq(reply, n + 1, Len(reply)) : n \in {k \in DOMAIN reply : EndsHeaders(reply, k)}}

\* The program gets the text of the page its connection is for, from the
\* beginning and nothing else, whatever the segments of the reply; and a server
\* gets the request for its page, whatever had to be sent again.  Not so once a
\* page that has moved was asked for on a second connection before the first is
\* done.
DataIsRight ==
    ~told.mixed =>
        /\ told.data = <<>> \/ \E text \in Body(told.page) : IsPrefix(told.data, text)
        /\ \A c \in WebSlots : conns[c].link.state = "open" =>
               IsPrefix(conns[c].got \o conns[c].link.sent, Request(conns[c].page))

=============================================================================
