------------------------------- MODULE MCApps -------------------------------
(***************************************************************************)
(* The applications.  Each has the connection or connections of the stack  *)
(* for itself and knows nothing of the others; a behaviour is one of one   *)
(* of them, named by app.                                                  *)
(***************************************************************************)
EXTENDS Dhcpc, Telnetd, Smtp, Httpd, WebClient

\* Two DHCP servers, with an address each.
MCOffers == ("s1" :> {"a"}) @@ ("s2" :> {"b"})

MCMsg == <<"m1", "m2", "m3", "m4">>

\* The files of the web server: a script with a line that includes a file, two
\* that call functions and a percent sign, a text longer than a segment, the
\* file the script includes, and the page for names that open no file.
MCFile(name, text) == [name |-> name, text |-> text]
MCFiles ==
    <<MCFile(<<"/", "s", ".shtml">>, <<"inc", "h1", "%", "h2", "rep", "none", "h3", "0">>),
      MCFile(Index, <<"t1", "t2", "t3", "t4", "0">>),
      MCFile(<<"/", "h", ".html">>, <<"i1", "i2", "i3", "0">>),
      MCFile(NotFound, <<"e", "0">>)>>
MCTypes == (".html" :> "html") @@ (".shtml" :> "html") @@ (".x" :> "plain")
MCInclude == "inc" :> <<"/", "h", ".html", "nl">>
MCReport == ("rep" :> <<"r1", "r2">>) @@ ("none" :> <<>>)

\* Requests: for two pages, for one that is not there, for one whose name goes
\* on after the name of a file and is too long for the buffer, for one with a
\* line end, and two that are none.
MCRequests ==
    {<<"GET", "sp", "/", "sp", "v", "nl">>,
     <<"GET", "sp", "/", "s", ".shtml", "sp", "nl">>,
     <<"GET", "sp", "/", "x", ".x", "sp", "v", "nl">>,
     <<"GET", "sp", "/", "s", ".shtml", ".x", "x", "sp">>,
     <<"GET", "sp", "/", "nl", ".html", "sp">>,
     <<"PUT", "sp", "/">>, <<"GET", "sp", "x", "sp">>}

\* Replies: a page, one that has moved to it, an answer that is not HTTP, an
\* error with a line too long, a page that has moved to an unknown host, and
\* one that is there and says where it is.
MCWebReplies ==
    (<<"h1", "a">> :> <<"200", "nl", "type", "nl", "cr", "nl", "d1", "nl", "d2", "cr2">>)
    @@ (<<"h2", "m">> :> <<"moved", "nl", "loc", "nl", "cr", "nl", "x">>)
    @@ (<<"h2", "q">> :> <<"bad", "nl", "x">>)
    @@ (<<"h1", "b">> :> <<"other", "nl", "long", "long", "long", "long", "nl", "cr", "nl", "y">>)
    @@ (<<"h2", "d">> :> <<"moved", "nl", "lod", "nl", "cr", "nl">>)
    @@ (<<"h2", "r">> :> <<"200", "nl", "loc", "nl", "cr", "nl", "z">>)
MCWebMoved == ("loc" :> <<"h1", "a">>) @@ ("lod" :> <<"h3", "a">>)

-----------------------------------------------------------------------------
VARIABLE app

dhcpOnly == <<dhcp, hostaddr, messages, granted, asking>>
telOnly == <<tel, heap>>
smtpOnly == <<smtp, done, server>>
httpdOnly == <<http, asked>>
sockOnly == <<psock, call, got>>
webOnly == <<web, conns, told>>

appsVars == <<app, link, wire, sockOnly, dhcpOnly, telOnly, smtpOnly, httpdOnly, webOnly>>

\* The variables of the applications that do not run stay as they are; of their
\* initial states one is enough.
AppsInit ==
    /\ app \in {"dhcpc", "telnetd", "smtp", "httpd", "webclient"}
    /\ DhcpcInit /\ TelnetdInit /\ SmtpInit /\ HttpdInit /\ WebInit
    /\ app = "smtp" \/ smtp.cc

AppsNext ==
    \/ /\ app = "dhcpc" /\ DhcpcNext
       /\ UNCHANGED <<app, link, wire, sockOnly, telOnly, smtpOnly, httpdOnly, webOnly>>
    \/ /\ app = "telnetd" /\ TelnetdNext
       /\ UNCHANGED <<app, sockOnly, dhcpOnly, smtpOnly, httpdOnly, webOnly>>
    \/ /\ app = "smtp" /\ SmtpNext
       /\ UNCHANGED <<app, dhcpOnly, telOnly, httpdOnly, webOnly>>
    \/ /\ app = "httpd" /\ HttpdNext
       /\ UNCHANGED <<app, dhcpOnly, telOnly, smtpOnly, webOnly>>
    \/ /\ app = "webclient" /\ WebNext
       /\ UNCHANGED <<app, link, wire, sockOnly, dhcpOnly, telOnly, smtpOnly, httpdOnly>>

\* The DHCP client's connection is polled at every tick, and time goes on
\* (Node); the call of a TCP application returns, and the periodic timer goes
\* on polling and sending again.
AppsFairness ==
    /\ WF_dhcpVars(app = "dhcpc" /\ DhcpPoll)
    /\ WF_dhcpVars(app = "dhcpc" /\ DhcpElapse)
    /\ WF_httpdVars(app = "httpd" /\ HttpdRuns)
    /\ WF_httpdVars(app = "httpd" /\ HttpdTick)

AppsSpec == AppsInit /\ [][AppsNext]_appsVars /\ AppsFairness

-----------------------------------------------------------------------------
\* Types of the application that runs.
AppsTypeOK ==
    /\ app = "dhcpc" => DhcpcTypeOK
    /\ app = "telnetd" => TelnetdTypeOK
    /\ app = "smtp" => SmtpTypeOK
    /\ app = "httpd" => HttpdTypeOK
    /\ app = "webclient" => WebTypeOK

\* An application that is asked for a segment again gives the same data; of the
\* web server's reports only those lines change that are made of counters.
AppsSendTheSame == IF app = "httpd" THEN PageIsSentAgain ELSE RexmitIsSame

\* The properties of one application, which say nothing of the others; the
\* variables of those stay at their initial values.
DhcpcKeepsAsking == app = "dhcpc" => KeepsAsking
HttpdDropsSilentClient == app = "httpd" => SilentClientIsDropped
HttpdPageIsRight == app = "httpd" => PageIsRight
=============================================================================
