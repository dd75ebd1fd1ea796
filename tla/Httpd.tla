------------------------------- MODULE Httpd -------------------------------
(***************************************************************************)
(* The web server, httpd.c, with its files (httpd-fs.c) and its scripts    *)
(* (httpd-cgi.c), on one connection slot that is used again and again.     *)
(*                                                                         *)
(* A call runs handle_input(), which reads the request with the            *)
(* protosocket http.sin, and then, once the name of the page is known,     *)
(* handle_output(), which sends the page with the other protosocket,       *)
(* psock.  The statements at which handle_output() and the protothreads it *)
(* waits for can block are the values of http.pc.                          *)
(*                                                                         *)
(* The text of a request, a file or a report is a sequence of tokens.  A   *)
(* script line of a file, with its end of line, is one token.  In a name a *)
(* dot and what follows it up to the next is one token, and no token is    *)
(* the beginning of another.                                               *)
(***************************************************************************)
EXTENDS Psock, SequencesExt, FiniteSetsExt

CONSTANTS
    HttpdFiles,      \* httpd_fsdata: the list of files, each a name and a text
    HttpdTypes,      \* the content type of a name for each token with a dot
    HttpdInclude,    \* "%!: name" lines: the name each includes
    HttpdReport,     \* "%! name" lines: the lines the script function makes
    HttpdChanging,   \* the lines of reports that are made of counters and timers
    HttpdRequests,   \* what clients ask
    HttpdPolls       \* the silent polls after which the server gives up: 20

Index == <<"/", "index", ".html">>
NotFound == <<"/", "404", ".html">>

LineEnds == {"cr", "nl"}

-----------------------------------------------------------------------------
(* The names of files (httpd-fs.c)                                         *)

\* httpd_fs_strcmp() comes to the place i of the two names: they are alike so far.
Alike(name, stored, i) == \A j \in 1 .. i - 1 : j <= Len(name) /\ name[j] = stored[j]

\* Mutant: a line end in a name is like any other character.
CompareAll(name, stored) == Alike(name, stored, Len(stored) + 1)

\* It finds them equal where the stored one ends or the other has a line end.
httpd_fs_strcmp(name, stored) ==
    \E i \in 1 .. Len(stored) + 1 :
        /\ Alike(name, stored, i)
        /\ i = Len(stored) + 1 \/ (i <= Len(name) /\ name[i] \in LineEnds)

\* The files a name opens; httpd_fs_open() takes the first.
Matches(name) == {i \in DOMAIN HttpdFiles : httpd_fs_strcmp(name, HttpdFiles[i].name)}
Opens(name) == Matches(name) # {}
TextOf(name) == HttpdFiles[Min(Matches(name))].text

\* The first dot of a name says whether it is a script, the last its type.
Dots(name) == {i \in DOMAIN name : name[i] \in DOMAIN HttpdTypes}
IsScript(name) == Dots(name) # {} /\ name[Min(Dots(name))] = ".shtml"
LastOf(dots) == {i \in dots : \A j \in dots : j <= i}
TypeOf(name) ==
    IF LastOf(Dots(name)) = {} THEN "binary"
    ELSE HttpdTypes[name[CHOOSE i \in LastOf(Dots(name)) : TRUE]]

ASSUME HttpdAssumption ==
    /\ HttpdFiles \in Seq([name : Seq(STRING), text : Seq(STRING) \ {<<>>}])
    /\ \A name \in {NotFound} \cup Range(HttpdInclude) : Opens(name)
    /\ \A line \in DOMAIN HttpdReport : HttpdReport[line] \in Seq(STRING)
    /\ \A request \in HttpdRequests : request \in Seq(STRING \ {Junk})
    /\ HttpdPolls \in Nat \ {0}
    /\ PsockBufsize > 1

VARIABLES
    http,     \* struct httpd_state
    asked     \* history: the request the client is sending, and what of it it has sent

httpdVars == <<http, asked, link, wire, psock, call, got>>

NewHttp == [timer |-> 0, sin |-> NewPsock, reading |-> "method", turn |-> "input",
            output |-> FALSE, name |-> <<>>, status |-> "", pc |-> "open",
            file |-> <<>>, script |-> <<>>, len |-> 0, report |-> <<>>]

\* The time-out of the server is not undone by what the protothreads do.
Otherwise == IF http.timer >= HttpdPolls THEN Abort ELSE Silent

Handling(turn) == call # NoCall /\ ~EndsIt(call) /\ http.turn = turn

-----------------------------------------------------------------------------
(* handle_input()                                                          *)

\* Mutant: the name of the page before is kept when the slot is used again.
OpenedAgain(h) == [NewHttp EXCEPT !.name = h.name, !.output = h.output]

Opened(h) == NewHttp

\* Mutant: the timer is not set back by what the client sends.
TimerRuns(h, e) == IF e.kind # "rexmit" THEN h.timer + 1 ELSE h.timer

\* Mutant: every call sets the timer back.
TimerStands(h, e) == 0

Timer(h, e) == IF e.kind = "poll" THEN h.timer + 1 ELSE 0

HttpdCalled(e) ==
    /\ Begin(e)
    /\ http' = CASE EndsIt(e) -> http
                 [] e.kind = "connected" -> Opened(http)
                 [] OTHER -> [http EXCEPT !.timer = Timer(http, e), !.turn = "input"]
    /\ psock' = IF e.kind = "connected" THEN NewPsock ELSE psock

\* The client sends its request in pieces, and any lines after it.
ClientSends(e) ==
    \E request \in IF e.kind = "connected" THEN HttpdRequests ELSE {asked.request} :
        LET sent == IF e.kind = "connected" THEN 0 ELSE asked.sent
            rest == Drop(request, sent)
        IN  /\ e.data # <<>> => e.data = IF rest = <<>> THEN <<"nl">> ELSE Cut(rest, Len(e.data))
            /\ asked' = [request |-> request,
                         sent |-> IF rest = <<>> THEN sent ELSE sent + Len(e.data)]

HttpdInputs ==
    UNION {{Cut(Drop(r, n), m) : n \in 0 .. Len(r), m \in {1, 2, 10}} : r \in HttpdRequests}

HttpdEvent == \E e \in Events(HttpdInputs \ {<<>>}) : HttpdCalled(e) /\ ClientSends(e)

\* The page a line of the request names, without the space that ends it.
NameIn(buf) == IF buf[2] = "sp" THEN Index ELSE Cut(buf, Len(buf) - 1)

Mark == IF http.reading = "lines" THEN "nl" ELSE "sp"

InputRead == ReadTo(http.sin, call, Mark).p
InputEnds == ReadEnds(http.sin, call, Mark)
Sin == [InputRead EXCEPT !.busy = FALSE]

\* A request that is no request for a page.
HttpdRefuse ==
    /\ Handling("input") /\ InputEnds
    /\ \/ http.reading = "method" /\ Sin.buf # <<"GET", "sp">>
       \/ http.reading = "path" /\ Sin.buf[1] # "/"
    /\ http' = [http EXCEPT !.sin = NewPsock]
    /\ Returns(psock, Close)
    /\ UNCHANGED asked

HttpdMethod ==
    /\ Handling("input") /\ http.reading = "method" /\ InputEnds
    /\ Sin.buf = <<"GET", "sp">>
    /\ http' = [http EXCEPT !.sin = Sin, !.reading = "path"]
    /\ UNCHANGED <<asked, psock, call, got, link, wire>>

HttpdPath ==
    /\ Handling("input") /\ http.reading = "path" /\ InputEnds
    /\ Sin.buf[1] = "/"
    /\ http' = [http EXCEPT !.sin = Sin, !.reading = "lines", !.output = TRUE,
                            !.name = NameIn(Sin.buf)]
    /\ UNCHANGED <<asked, psock, call, got, link, wire>>

HttpdLine ==
    /\ Handling("input") /\ http.reading = "lines" /\ InputEnds
    /\ http' = [http EXCEPT !.sin = Sin]
    /\ UNCHANGED <<asked, psock, call, got, link, wire>>

HttpdWaits ==
    /\ Handling("input") /\ ~InputEnds
    /\ LET sin == [InputRead EXCEPT !.busy = TRUE,
                                    !.state = IF @ = "READ" THEN "BLOCKED_NEWDATA" ELSE @]
       IN  http' = [http EXCEPT !.sin = sin, !.turn = IF http.output THEN "output" ELSE @]
    /\ IF http.output THEN UNCHANGED <<psock, call, got, link, wire>>
       ELSE Returns(psock, Otherwise)
    /\ UNCHANGED asked

-----------------------------------------------------------------------------
(* handle_output()                                                         *)

At(pc) == Handling("output") /\ http.pc = pc

\* A statement that does not block.
Continues(h) == http' = h /\ UNCHANGED <<asked, psock, call, got, link, wire>>

\* The next part of the file that is no script line, as long as one segment.
PartLen(file) ==
    LET percents == {i \in 2 .. Len(file) :
                        file[i] = "%" \/ file[i] \in DOMAIN HttpdInclude \cup DOMAIN HttpdReport}
    IN  Min({Len(file), AppMss} \cup {i - 1 : i \in percents})

\* handle_script() looks at what is left of the file.
Script(h, file) ==
    IF file = <<>> THEN [h EXCEPT !.pc = "close", !.file = <<>>]
    ELSE IF file[1] \in DOMAIN HttpdInclude
    THEN [h EXCEPT !.pc = "include", !.script = Tail(file),
                   !.file = TextOf(HttpdInclude[file[1]])]
    ELSE IF file[1] \in DOMAIN HttpdReport
    THEN [h EXCEPT !.pc = "report", !.script = Tail(file), !.report = HttpdReport[file[1]]]
    ELSE [h EXCEPT !.pc = "part", !.file = file, !.len = PartLen(file)]

HttpdOpen ==
    /\ At("open")
    /\ LET name == IF Opens(http.name) THEN http.name ELSE NotFound
       IN  Continues([http EXCEPT !.name = name, !.file = TextOf(name), !.pc = "status",
                                  !.status = IF Opens(http.name) THEN "200" ELSE "404"])

\* What PSOCK_SEND sends at a statement; only scripts are sent in parts.
Text(h) ==
    CASE h.pc = "status" -> <<h.status>>
      [] h.pc = "type" -> <<TypeOf(h.name)>>
      [] OTHER -> Cut(h.file, h.len)

\* The statement after one that has sent its data.
AfterText(h) ==
    CASE h.pc = "status" -> [h EXCEPT !.pc = "type"]
      [] h.pc = "type" -> IF h.status = "200" /\ IsScript(h.name)
                          THEN Script(h, h.file) ELSE [h EXCEPT !.pc = "file"]
      [] OTHER -> Script(h, Drop(h.file, h.len))

HttpdText ==
    /\ Handling("output") /\ http.pc \in {"status", "type", "part"}
    /\ \/ PsockSend(Text(http)) /\ http' = AfterText(http)
       \/ PsockSendBlocks(Text(http), Otherwise) /\ UNCHANGED http
    /\ UNCHANGED asked

\* send_file(), for a page or for a file a script includes.
SentFile(h) ==
    LET rest == Drop(h.file, AppMss)
    IN  IF rest # <<>> THEN [h EXCEPT !.file = rest]
        ELSE IF h.pc = "file" THEN [h EXCEPT !.file = <<>>, !.pc = "close"]
        ELSE Script(h, h.script)

HttpdFile ==
    /\ Handling("output") /\ http.pc \in {"file", "include"}
    /\ \/ PsockGenerated /\ http' = SentFile(http)
       \/ PsockGenerates(Cut(http.file, AppMss), Otherwise) /\ UNCHANGED http
    /\ UNCHANGED asked

\* What the function of a script makes of a line, the first time or again: the
\* timer of the connection, for one, is another when a segment is sent again.
Generated(line) ==
    IF line \in HttpdChanging /\ call.kind = "rexmit" THEN "changed" ELSE line

HttpdScriptEnds ==
    /\ At("report") /\ http.report = <<>>
    /\ Continues(Script(http, http.script))

HttpdScript ==
    /\ At("report") /\ http.report # <<>>
    /\ \/ PsockGenerated /\ http' = [http EXCEPT !.report = Tail(@)]
       \/ PsockGenerates(<<Generated(http.report[1])>>, Otherwise) /\ UNCHANGED http
    /\ UNCHANGED asked

HttpdClose ==
    /\ At("close")
    /\ http' = [http EXCEPT !.pc = "open"]
    /\ Returns(psock, Close)
    /\ UNCHANGED asked

HttpdOver ==
    /\ call # NoCall /\ EndsIt(call)
    /\ Returns(psock, Silent)
    /\ UNCHANGED <<http, asked>>

-----------------------------------------------------------------------------
HttpdRuns ==
    \/ HttpdMethod \/ HttpdPath \/ HttpdLine \/ HttpdRefuse \/ HttpdWaits
    \/ HttpdOpen \/ HttpdText \/ HttpdFile \/ HttpdScript \/ HttpdScriptEnds
    \/ HttpdClose \/ HttpdOver

HttpdInit ==
    /\ PsockInit
    /\ http = NewHttp
    /\ asked = [request |-> <<>>, sent |-> 0]

HttpdNext == HttpdEvent \/ HttpdRuns

HttpdSpec == HttpdInit /\ [][HttpdNext]_httpdVars

\* A call returns; the periodic timer goes on polling and sending again.
HttpdTick ==
    \E e \in Events({}) : e.kind \in {"poll", "rexmit", "timedout"} /\ HttpdCalled(e)
                          /\ UNCHANGED asked

-----------------------------------------------------------------------------
(* Correctness                                                             *)

HttpdTypeOK ==
    /\ http.timer \in 0 .. HttpdPolls
    /\ http.pc # "open" => Opens(http.name) /\ (http.status = "404" => http.name = NotFound)
    /\ Len(http.sin.buf) <= PsockBufsize
    /\ http.len \in 0 .. AppMss
    /\ \A i \in DOMAIN http.sin.unread : http.sin.unread[i] # Junk

\* What a page is: its text, with the text of the files it includes and the
\* reports of its scripts in place.
Shown(line) ==
    IF line \in DOMAIN HttpdInclude THEN TextOf(HttpdInclude[line])
    ELSE IF line \in DOMAIN HttpdReport THEN HttpdReport[line] ELSE <<line>>

ShownAll(lines) == FoldLeft(LAMBDA text, line : text \o Shown(line), <<>>, lines)

\* The files a name stands for: those whose names it begins with.  What follows
\* a line end in a name does not count, and what is left of such a name may be
\* the beginning of the file's.
StandsFor(name, stored) ==
    \/ IsPrefix(stored, name)
    \/ \E i \in DOMAIN name : name[i] \in LineEnds /\ IsPrefix(SubSeq(name, 1, i - 1), stored)

Candidates(name) == {i \in DOMAIN HttpdFiles : StandsFor(name, HttpdFiles[i].name)}

\* A request for a page: GET, a name that begins with a slash, and a space.
Spaces(request) == {i \in 4 .. Len(request) : request[i] = "sp"}

IsRequest(request) ==
    /\ Len(request) > 3 /\ request[1] = "GET" /\ request[2] = "sp" /\ request[3] = "/"
    /\ Spaces(request) # {}

\* What a request asks for, however it was cut into segments: the name up to
\* the space, as far as it fits the buffer with the byte that ends it.
Named(request) ==
    LET name == SubSeq(request, 3, Min(Spaces(request)) - 1)
    IN  IF name = <<"/">> THEN Index ELSE Cut(name, PsockBufsize - 1)

Page(status, name) ==
    LET text == HttpdFiles[Min(Candidates(name))].text
    IN  <<status, TypeOf(name)>>
        \o IF status = "200" /\ IsScript(name) THEN ShownAll(text) ELSE text

Response(request) ==
    IF Candidates(Named(request)) # {} THEN Page("200", Named(request))
    ELSE Page("404", NotFound)

\* The client gets the page it asked for, nothing else and nothing twice; and
\* when the server closes the connection, all of it.  The request may come in
\* any pieces, and any segment may have to be sent again.  A line of a report
\* that changes stands for whichever of its versions arrived.
PageIsRight ==
    /\ IsRequest(asked.request) => IsPrefix(got, Response(asked.request))
    /\ ~IsRequest(asked.request) => got = <<>>
    /\ IsRequest(asked.request) /\ link.state = "closing" => got = Response(asked.request)

\* What is sent while a segment is outstanding is that segment again, except
\* for a line of a report, which is made anew.
PageIsSentAgain ==
    link.len > 0 =>
        \/ wire \in {link.sent, <<>>}
        \/ \E line \in HttpdChanging : link.sent = <<line>> /\ wire = <<"changed">>

\* A client that stops sending loses its connection, whatever it was about.
SilentClientIsDropped ==
    []<>(link.state = "none") \/ []<>(Newdata(call) \/ call.kind = "connected")

=============================================================================
