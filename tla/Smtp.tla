-------------------------------- MODULE Smtp --------------------------------
(***************************************************************************)
(* The SMTP client, smtp.c: one protothread that talks to a mail server    *)
(* and tells the program by smtp_done() how it went.                       *)
(*                                                                         *)
(* The protothread is a program of statements; smtp.pc is the one it is    *)
(* at.  A string is one token.  A reply of the server is a code and an end *)
(* of line, which may come in two segments; the server is external: it     *)
(* answers every command once, after it has got all of it.                 *)
(***************************************************************************)
EXTENDS Psock, SequencesExt

CONSTANTS
    SmtpMsg,        \* the message, a sequence of tokens
    SmtpCodes       \* the replies of the server: "220", "2", "3", "5"

ASSUME SmtpAssumption ==
    /\ SmtpMsg \in Seq(STRING) /\ "nl" \notin SmtpCodes
    /\ \A i \in DOMAIN SmtpMsg : SmtpMsg[i] # Junk

VARIABLES
    smtp,     \* [pc, cc, connected]: the protothread; is there a Cc: receiver?
    done,     \* history: the codes smtp_done() was called with
    server    \* [reply, answered, seen]: the rest of a reply, the commands replied to,
              \* and how much of the client's data it had then

smtpVars == <<smtp, done, server, link, wire, psock, call, got>>

OK == 0    \* SMTP_ERR_OK

-----------------------------------------------------------------------------
(* The protothread                                                         *)

Read(want, error) == [op |-> "read", want |-> want, error |-> error]
Send(data) == [op |-> "send", data |-> data]

\* A command or header line: its name, its argument and the end of line.
Line(name, argument) == <<Send(<<name>>), Send(<<argument>>), Send(<<"crnl">>)>>

Program(cc) ==
    <<Read("220", 2)>>
    \o Line("helo", "host") \o <<Read("2", 3)>>
    \o Line("mail from", "from") \o <<Read("2", 4)>>
    \o Line("rcpt to", "to") \o <<Read("2", 5)>>
    \o (IF cc THEN Line("rcpt to", "cc") \o <<Read("2", 6)>> ELSE <<>>)
    \o <<Send(<<"data">>), Read("3", 7)>>
    \o Line("to", "to")
    \o (IF cc THEN Line("cc", "cc") ELSE <<>>)
    \o Line("from", "from") \o Line("subject", "subject")
    \o <<Send(SmtpMsg), Send(<<"period">>), Read("2", 8), Send(<<"quit">>)>>

Statement == Program(smtp.cc)[smtp.pc]
Running == call # NoCall /\ ~EndsIt(call)
AtEnd == smtp.pc > Len(Program(smtp.cc))

NextStatement == smtp' = [smtp EXCEPT !.pc = @ + 1]

SmtpSend ==
    /\ Running /\ ~AtEnd /\ Statement.op = "send"
    /\ \/ PsockSend(Statement.data) /\ NextStatement
       \/ PsockSendBlocks(Statement.data, Silent) /\ UNCHANGED smtp
    /\ UNCHANGED <<done, server>>

SmtpRead ==
    /\ Running /\ ~AtEnd /\ Statement.op = "read"
    /\ PsockReadBlocks("nl", Silent)
    /\ UNCHANGED <<smtp, done, server>>

\* A reply has been read; one that is not wanted closes the connection.
SmtpReply ==
    /\ Running /\ ~AtEnd /\ Statement.op = "read"
    /\ ReadEnds(psock, call, "nl")
    /\ LET p == ReadResult("nl")
       IN  \/ /\ p.buf[1] = Statement.want
              /\ GoesOn(p)
              /\ NextStatement
              /\ UNCHANGED done
           \/ /\ p.buf[1] # Statement.want
              /\ Returns(p, Close)
              /\ done' = Append(done, Statement.error)
              /\ smtp' = [smtp EXCEPT !.pc = 1]
    /\ UNCHANGED server

\* PSOCK_END: the next call begins again.
SmtpEnd ==
    /\ Running /\ AtEnd
    /\ done' = Append(done, OK)
    /\ smtp' = [smtp EXCEPT !.pc = 1]
    /\ Returns(psock, Silent)
    /\ UNCHANGED server

\* smtp_appcall() at the end of the connection: an end by the server is not
\* reported.
SmtpOver ==
    /\ call # NoCall /\ EndsIt(call)
    /\ done' = IF call.kind = "closed" THEN done ELSE Append(done, 1)
    /\ smtp' = [smtp EXCEPT !.connected = FALSE]
    /\ Returns(psock, Silent)
    /\ UNCHANGED server

-----------------------------------------------------------------------------
(* The server                                                              *)

\* What the server gets for each reply: nothing for the greeting.
Commands(cc) ==
    <<<<>>, <<"helo", "host", "crnl">>, <<"mail from", "from", "crnl">>, <<"rcpt to", "to", "crnl">>>>
    \o (IF cc THEN <<<<"rcpt to", "cc", "crnl">>>> ELSE <<>>)
    \o <<<<"data">>,
         <<"to", "to", "crnl">> \o (IF cc THEN <<"cc", "cc", "crnl">> ELSE <<>>)
            \o <<"from", "from", "crnl", "subject", "subject", "crnl">> \o SmtpMsg \o <<"period">>,
         <<"quit">>>>

\* The whole dialogue, as one stream.
Dialogue(cc) == FoldLeft(LAMBDA stream, command : stream \o command, <<>>, Commands(cc))

\* The server has got the end of the command it has to answer next; it does not
\* know what the command should have been.
MayReply(stream) ==
    /\ server.reply = <<>>
    /\ server.answered < Len(Commands(smtp.cc))
    /\ LET command == Commands(smtp.cc)[server.answered + 1]
       IN  command = <<>> \/ (Len(stream) > server.seen /\ Last(stream) = Last(command))

\* The tokens of a reply the server can send now, and what is left of it then.
ServerSends(e) ==
    LET stream == IF e.acks THEN got \o link.sent ELSE got
        whole == IF MayReply(stream) THEN {<<c, "nl">> : c \in SmtpCodes}
                 ELSE {server.reply} \ {<<>>}
    IN  IF ~Newdata(e) THEN UNCHANGED server
        ELSE \E r \in whole :
               /\ e.data = Cut(r, Len(e.data))
               /\ server' = IF MayReply(stream)
                             THEN [reply |-> Drop(r, Len(e.data)), seen |-> Len(stream),
                                   answered |-> server.answered + 1]
                             ELSE [server EXCEPT !.reply = Drop(r, Len(e.data))]

Replies == {<<c, "nl">> : c \in SmtpCodes} \cup {<<c>> : c \in SmtpCodes} \cup {<<"nl">>}

SmtpCalled ==
    \E e \in Events(Replies) :
        /\ link.state = "none" => smtp.connected
        /\ e.kind = "connected" => ~Newdata(e)
        /\ Begin(e)
        /\ ServerSends(e)
        /\ UNCHANGED <<smtp, done, psock>>

\* smtp_send(); there is one mail to send.
SmtpInit ==
    /\ PsockInit
    /\ smtp \in [pc : {1}, cc : BOOLEAN, connected : {TRUE}]
    /\ done = <<>>
    /\ server = [reply |-> <<>>, answered |-> 0, seen |-> 0]

SmtpNext == SmtpCalled \/ SmtpSend \/ SmtpRead \/ SmtpReply \/ SmtpEnd \/ SmtpOver

SmtpSpec == SmtpInit /\ [][SmtpNext]_smtpVars

-----------------------------------------------------------------------------
(* Correctness                                                             *)

SmtpTypeOK ==
    /\ smtp.pc \in 1 .. Len(Program(smtp.cc)) + 1
    /\ \A i \in DOMAIN done : done[i] \in 0 .. 8
    /\ Len(psock.buf) <= PsockBufsize
    /\ \A i \in DOMAIN psock.rest : psock.rest[i] # Junk

\* The program is told that the mail was sent only when the server has got all
\* of it, once and in order, and has replied to it: the replies, which may come
\* in pieces, stay in step with the commands.
OkMeansTaken ==
    (\E i \in DOMAIN done : done[i] = OK) =>
        /\ server.answered >= Len(Commands(smtp.cc)) - 1
        /\ IsPrefix(Dialogue(smtp.cc), got)

=============================================================================
