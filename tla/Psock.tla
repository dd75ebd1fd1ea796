------------------------------- MODULE Psock -------------------------------
(***************************************************************************)
(* Protosockets, psock.cpp, as the applications use them: PSOCK_SEND,      *)
(* PSOCK_GENERATOR_SEND and PSOCK_READTO in a protothread that runs when   *)
(* the stack calls.                                                        *)
(*                                                                         *)
(* call is the event the application is being called for.  A statement of  *)
(* the protothread that does not block is a step of its own; one that      *)
(* blocks returns to the stack with the application's answer.  Nothing     *)
(* else happens during a call.  PT_END and PT_EXIT leave a protothread at  *)
(* its beginning: the next call starts it again.                           *)
(***************************************************************************)
EXTENDS UipApp

CONSTANT
    PsockBufsize    \* the size of the input buffer

ASSUME PsockAssumption == PsockBufsize \in Nat \ {0}

VARIABLES
    psock,   \* the protosocket
    call,    \* the event being handled, or NoCall
    got      \* history: the data of this connection the peer has acknowledged

psockVars == <<psock, call, got>>

NoCall == [kind |-> "none", acks |-> FALSE, data |-> <<>>]

\* What readptr points to once the call that received it is over: the buffer
\* has been used for other packets.
Junk == "junk"

\* busy: psockpt is inside a function; rest: what is still to be sent; buf: the
\* input buffer; unread: the received data not read yet.
NewPsock == [state |-> "NONE", busy |-> FALSE, rest |-> <<>>, buf |-> <<>>, unread |-> <<>>]

-----------------------------------------------------------------------------
(* Calls and returns                                                       *)

Begin(e) ==
    /\ call = NoCall
    /\ Happens(e)
    /\ call' = e
    /\ got' = CASE e.kind = "connected" -> <<>>
                [] e.acks -> got \o link.sent
                [] OTHER -> got
    /\ UNCHANGED <<link, wire>>

\* The protothread blocks, with protosocket p and answer a.
Returns(p, a) ==
    /\ psock' = [p EXCEPT !.unread = [i \in DOMAIN p.unread |-> Junk]]
    /\ call' = NoCall
    /\ Answered(call, a)
    /\ UNCHANGED got

\* It goes on with its next statement.
GoesOn(p) ==
    /\ psock' = p
    /\ UNCHANGED <<call, got, link, wire>>

-----------------------------------------------------------------------------
(* PSOCK_SEND(data) by protosocket p in the call for event e               *)

\* Mutant: a chunk that has to be sent again is taken for acknowledged.
SendRestAdvances(p, data, e) ==
    IF ~p.busy THEN data
    ELSE IF e.acks \/ e.kind = "rexmit" THEN Drop(p.rest, AppMss) ELSE p.rest

SendRest(p, data, e) ==
    IF ~p.busy THEN data ELSE IF e.acks THEN Drop(p.rest, AppMss) ELSE p.rest

\* data_is_sent_and_acked(): a chunk is sent first, again, or after the last.
SendsNow(p, data, e) == ~p.busy \/ e.acks \/ e.kind = "rexmit"

SendChunk(p, data, e) ==
    IF SendsNow(p, data, e) THEN Cut(SendRest(p, data, e), AppMss) ELSE <<>>

SendEnds(p, data, e) == SendRest(p, data, e) = <<>>

SendBlocked(p, data, e) ==
    [p EXCEPT !.state = "DATA_SENT", !.busy = TRUE, !.rest = SendRest(p, data, e)]

Ended(p) == [p EXCEPT !.state = "NONE", !.busy = FALSE, !.rest = <<>>]

PsockSend(data) == GoesOn(Ended(psock)) /\ SendEnds(psock, data, call)

PsockSendBlocks(data, otherwise) ==
    /\ ~SendEnds(psock, data, call)
    /\ LET chunk == SendChunk(psock, data, call)
       IN  Returns(SendBlocked(psock, data, call),
                   IF chunk = <<>> THEN otherwise ELSE Answer(chunk))

-----------------------------------------------------------------------------
(* PSOCK_GENERATOR_SEND, whose generator makes piece: one segment at most.  *)
(* An empty piece is sent, too, and never acknowledged.                    *)

PsockGenerated == psock.busy /\ call.acks /\ GoesOn(Ended(psock))

PsockGenerates(piece, otherwise) ==
    /\ ~(psock.busy /\ call.acks)
    /\ LET sends == (~psock.busy \/ call.kind = "rexmit") /\ piece # <<>>
       IN  Returns([psock EXCEPT !.state = "DATA_SENT", !.busy = TRUE],
                   IF sends THEN Answer(piece) ELSE otherwise)

-----------------------------------------------------------------------------
(* PSOCK_READTO(mark)                                                      *)

\* buf_bufto(): data up to the mark goes to the buffer as far as there is room.
Scan(p, data, mark) ==
    LET at == {i \in DOMAIN data : data[i] = mark /\ \A j \in 1 .. i - 1 : data[j] # mark}
        n == IF at = {} THEN Len(data) ELSE CHOOSE i \in at : TRUE
    IN  [p |-> [p EXCEPT !.buf = Cut(@ \o SubSeq(data, 1, n), PsockBufsize),
                         !.unread = Drop(data, n)],
         found |-> at # {}]

\* psock_newdata(): the data of this call, unless it has been read already.
TakesNewdata(p, e) == Newdata(e) /\ p.state # "READ"

ReadTo(p, e, mark) ==
    LET start == IF p.busy THEN p ELSE [p EXCEPT !.buf = <<>>]
        old == IF p.unread = <<>> THEN [p |-> start, found |-> FALSE]
               ELSE Scan(start, p.unread, mark)
    IN  IF old.found \/ ~TakesNewdata(old.p, e) THEN old
        ELSE Scan([old.p EXCEPT !.state = "READ"], e.data, mark)

ReadEnds(p, e, mark) == ReadTo(p, e, mark).found

\* The line that was read is in the buffer of ReadResult(mark).
ReadResult(mark) == [ReadTo(psock, call, mark).p EXCEPT !.busy = FALSE]

PsockReadBlocks(mark, otherwise) ==
    /\ ~ReadEnds(psock, call, mark)
    /\ LET p == ReadTo(psock, call, mark).p
       IN  Returns([p EXCEPT !.busy = TRUE,
                             !.state = IF @ = "READ" THEN "BLOCKED_NEWDATA" ELSE @], otherwise)

PsockInit == LinkInit /\ psock = NewPsock /\ call = NoCall /\ got = <<>>

=============================================================================
