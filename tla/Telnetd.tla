------------------------------- MODULE Telnetd -------------------------------
(***************************************************************************)
(* The telnet server, telnetd.c, with its shell, shell.c, and the memory   *)
(* blocks its lines of output live in, memb.c.                             *)
(*                                                                         *)
(* Output is queued in lines[], each line in a block of memory, until the  *)
(* peer has acknowledged it; a segment carries as many lines as fit.  All  *)
(* of it is one static variable: the server has one session at a time,     *)
(* and here the next client comes when the last session is over.           *)
(*                                                                         *)
(* An action is one call of telnetd_appcall(), with the answer.  Input is  *)
(* a sequence of characters; the one that ends a line says which command   *)
(* the line holds.  A line of output is one token.                         *)
(***************************************************************************)
EXTENDS UipApp, SequencesExt

CONSTANTS
    TELNETD_NUMLINES,  \* lines[], and blocks of memory: 16
    TELNETD_LINELEN,   \* the command buffer: 40
    MaxInput           \* bound: characters in a segment

ASSUME TelnetdAssumption ==
    /\ TELNETD_NUMLINES \in Nat \ {0}
    /\ TELNETD_LINELEN \in Nat \ {0, 1}
    /\ MaxInput \in Nat

VARIABLES
    tel,     \* telnetd_state without lines[]
    heap     \* lines[] and linemem: [lines, count, mem]

telVars == <<tel, heap, link, wire>>

Blocks == 1 .. TELNETD_NUMLINES
Texts == {"shell", "prompt", "option"}

Verbs == {"WILL", "DO"}    \* WONT is answered as WILL, DONT as DO
EndsOfLine == {"help", "exit", "other"}
Chars == {"x", "cr", "IAC"} \cup Verbs \cup EndsOfLine

-----------------------------------------------------------------------------
(* memb.c                                                                  *)

Free(h, b) == h.count[b] = 0

\* Mutant: the reference count is not looked at.
MembAllocAny(h) == {1}

\* memb_alloc(): the first free block, if any.
MembAlloc(h) == {b \in Blocks : Free(h, b) /\ \A c \in 1 .. b - 1 : ~Free(h, c)}

MembFree(h, b) == [h EXCEPT !.count[b] = IF @ > 0 THEN @ - 1 ELSE 0]

-----------------------------------------------------------------------------
(* Output                                                                  *)

\* A line of text in block b: queued if there is room, else freed again.
SendLine(h, b, text) ==
    LET g == [h EXCEPT !.count[b] = @ + 1, !.mem[b] = text]
    IN  IF Len(h.lines) < TELNETD_NUMLINES THEN [g EXCEPT !.lines = Append(@, b)]
        ELSE MembFree(g, b)

\* shell_output(), shell_prompt(), sendopt(): nothing without a block.
Output(h, text) ==
    IF MembAlloc(h) = {} THEN h
    ELSE SendLine(h, CHOOSE b \in MembAlloc(h) : TRUE, text)

Outputs(h, texts) == FoldLeft(Output, h, texts)

\* acked(): the n lines sent are freed.
Acked(h, n) ==
    [FoldLeft(MembFree, h, SubSeq(h.lines, 1, n)) EXCEPT
        !.lines = SubSeq(@, n + 1, Len(@))]

\* closed() frees every line but leaves the pointers.
Closed(h) == FoldLeft(MembFree, h, h.lines)

\* senddata(): the lines at the front that fit, with room to spare.
NumSent(h) == IF Len(h.lines) < AppMss THEN Len(h.lines) ELSE AppMss - 1

Content(h, n) == [i \in 1 .. n |-> h.mem[h.lines[i]]]

-----------------------------------------------------------------------------
(* Input                                                                   *)

ShellStart == <<"shell", "shell", "prompt">>

\* shell_input(): what the command prints, and the next prompt.
ShellInput(command) ==
    CASE command = "help" -> <<"shell", "shell", "shell", "shell", "shell", "prompt">>
      [] command = "exit" -> <<"prompt">>
      [] OTHER -> <<"shell", "prompt">>

BufferFull(t) == t.bufptr = TELNETD_LINELEN - 1

\* get_char(): i is [tel, heap].  An empty line is a command nobody knows; a
\* line that fills the buffer is one, too.
GetChar(i, c) ==
    IF c = "cr" THEN i
    ELSE IF c \in EndsOfLine \/ BufferFull(i.tel) THEN
        LET command == IF c \in EndsOfLine /\ i.tel.bufptr > 0 THEN c ELSE "other"
        IN  [tel |-> [i.tel EXCEPT !.bufptr = 0,
                                   !.state = IF command = "exit" THEN "CLOSE" ELSE @],
             heap |-> Outputs(i.heap, ShellInput(command))]
    ELSE [i EXCEPT !.tel.bufptr = @ + 1]

\* One character through the option parser.  After "exit" nothing is read.
NewChar(i, c) ==
    CASE i.tel.state = "CLOSE" -> i
      [] i.tel.state = "NORMAL" /\ c = "IAC" -> [i EXCEPT !.tel.state = "IAC"]
      [] i.tel.state = "NORMAL" /\ c # "IAC" -> GetChar(i, c)
      [] i.tel.state = "IAC" /\ c = "IAC" -> [GetChar(i, c) EXCEPT !.tel.state = "NORMAL"]
      [] i.tel.state = "IAC" /\ c \in Verbs -> [i EXCEPT !.tel.state = c]
      [] i.tel.state = "IAC" /\ c \notin Verbs \cup {"IAC"} -> [i EXCEPT !.tel.state = "NORMAL"]
      [] i.tel.state \in Verbs ->
             [i EXCEPT !.heap = Output(@, "option"), !.tel.state = "NORMAL"]

ReadChars(i, data) == FoldLeft(NewChar, i, data)

-----------------------------------------------------------------------------
(* telnetd_appcall()                                                       *)

\* The queue and the parser when the call has dealt with event e: connected,
\* closed, acked and newdata, one after the other.
Started(i) ==
    [tel |-> [i.tel EXCEPT !.state = "NORMAL", !.bufptr = 0],
     heap |-> Outputs([i.heap EXCEPT !.lines = <<>>], ShellStart)]

AfterEvent(e) ==
    LET i == [tel |-> tel, heap |-> heap]
        c == IF EndsIt(e) THEN [i EXCEPT !.heap = Closed(@)] ELSE i
        a == IF e.acks THEN [tel |-> [c.tel EXCEPT !.numsent = 0],
                             heap |-> Acked(c.heap, c.tel.numsent)] ELSE c
    IN  ReadChars(IF e.kind = "connected" THEN Started(i) ELSE a, e.data)

\* senddata() is not called for an end without data or acknowledgement.
SendData(e, i) ==
    /\ heap' = i.heap
    /\ IF EndsIt(e) /\ ~e.acks /\ ~Newdata(e)
       THEN tel' = i.tel /\ Answered(e, Silent)
       ELSE /\ tel' = [i.tel EXCEPT !.numsent = NumSent(i.heap)]
            /\ Answered(e, Answer(Content(i.heap, NumSent(i.heap))))

\* The shell was left in an earlier call: uip_close(), whatever the event is.
Quit(e) ==
    /\ tel' = [tel EXCEPT !.state = "NORMAL"]
    /\ Answered(e, Close)
    /\ UNCHANGED heap

TelnetdAppcall(e) ==
    IF tel.state = "CLOSE" /\ e.kind # "connected" THEN Quit(e) ELSE SendData(e, AfterEvent(e))

Inputs == UNION {[1 .. n -> Chars] : n \in 1 .. MaxInput}

TelnetdInit ==
    /\ LinkInit
    /\ tel = [state |-> "NORMAL", bufptr |-> 0, numsent |-> 0]
    /\ heap = [lines |-> <<>>, count |-> [b \in Blocks |-> 0], mem |-> [b \in Blocks |-> "shell"]]

TelnetdNext == \E e \in Events(Inputs) : Happens(e) /\ TelnetdAppcall(e)

TelnetdSpec == TelnetdInit /\ [][TelnetdNext]_telVars

-----------------------------------------------------------------------------
(* Correctness                                                             *)

TelnetdTypeOK ==
    /\ tel \in [state : {"NORMAL", "IAC", "CLOSE"} \cup Verbs,
                bufptr : 0 .. TELNETD_LINELEN - 1, numsent : 0 .. AppMss - 1]
    /\ heap.count \in [Blocks -> 0 .. 1]
    /\ heap.mem \in [Blocks -> Texts]
    /\ heap.lines \in Seq(Blocks)
    /\ Len(heap.lines) <= TELNETD_NUMLINES
    /\ link.state \in LinkStates
    /\ link.len \in 0 .. AppMss

\* As long as a session is open every line of the queue has a block of its own,
\* which is allocated: no line is written over while it waits, whatever earlier
\* sessions left behind when they ended.
LinesAreOwned ==
    link.state = "open" =>
        /\ \A i \in DOMAIN heap.lines : heap.count[heap.lines[i]] = 1
        /\ IsInjective(heap.lines)

=============================================================================
