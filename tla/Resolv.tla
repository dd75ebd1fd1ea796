------------------------------- MODULE Resolv -------------------------------
(***************************************************************************)
(* The DNS resolver, resolv.cpp: a small table of names, asked about over  *)
(* one UDP connection to the name server.                                  *)
(*                                                                         *)
(* resolv_appcall() runs inside uip_process(), once per UDP timer tick     *)
(* (check_entries) and once per packet from the server (newdata).          *)
(* check_entries() walks the table and may call the application on the     *)
(* way; at is where it is, and nothing else happens before it has          *)
(* finished.  The application's callback, resolv_found(), may queue the    *)
(* next name, which changes the table under the walk.                      *)
(*                                                                         *)
(* Abstractions.  An address is the name it belongs to.  An answer is to a *)
(* question sent at some time before: it may be late, repeated, or never   *)
(* come.  The fields of an entry that are written before they are read     *)
(* again are cleared.  init_resolv() comes before everything else and      *)
(* leaves no entry STATE_UNUSED, so that resolv_query() never finds one.   *)
(***************************************************************************)
EXTENDS Integers

CONSTANTS
    RESOLV_ENTRIES,  \* entries of the table
    MAX_RETRIES,     \* unanswered questions after which a name has failed
    SeqMod,          \* seqno is a byte: 256
    Names,           \* names the application asks for
    LocalPorts,      \* local ports uip_udp_new() may pick
    MaxQueries       \* bound: queries in a behaviour

ASSUME EntriesAssumption ==
    /\ RESOLV_ENTRIES \in Nat \ {0}
    /\ MAX_RETRIES \in 2 .. 255
    /\ SeqMod \in Nat \ {0}
    /\ LocalPorts \subseteq Nat \ {0}
    /\ MaxQueries \in Nat

VARIABLES
    names,      \* names[]
    seqno,      \* the seqno of the next query
    conn,       \* the local port of resolv_conn, or NoConn
    questions,  \* questions sent so far, which the server may answer any time
    at,         \* the entry check_entries() looks at next, 0 when it does not run
    queries     \* queries so far

vars == <<names, seqno, conn, questions, at, queries>>

Entries == 1 .. RESOLV_ENTRIES
NoConn == 0
NoName == "no name"
NULL == "null"

(***************************************************************************)
(* told is history: what the application has heard of the query the entry  *)
(* holds.  "confused" is what it would be after a second call for it.      *)
(***************************************************************************)
Tellings == {"unused", "waiting", "found", "failed", "confused"}

Namemap ==
    [state : {"NEW", "ASKING", "DONE", "ERROR"}, name : Names \cup {NoName},
     ipaddr : Names \cup {NULL}, tmr : 0 .. 255, retries : 0 .. MAX_RETRIES - 1,
     seqno : 0 .. SeqMod - 1, told : Tellings]

Question == [id : Entries, name : Names, port : LocalPorts]
Answers == {"address", "no address", "error"}

Pending(e) == e.state \in {"NEW", "ASKING"}

-----------------------------------------------------------------------------
(* The application's side                                                  *)

\* How old resolv_query() takes entry i to be: the difference of two bytes,
\* computed in an int.
Age(t, q, i) == q - t[i].seqno

\* The entry a new name takes: the first of the oldest, or simply the first
\* when none has a positive age.
Victim(t, q, i) ==
    IF \A j \in Entries : Age(t, q, j) <= 0 THEN i = 1
    ELSE /\ Age(t, q, i) > 0
         /\ \A j \in Entries : \/ Age(t, q, j) < Age(t, q, i)
                              \/ (Age(t, q, j) = Age(t, q, i) /\ i <= j)

Queried(e, n, q) ==
    [e EXCEPT !.state = "NEW", !.name = n, !.seqno = q, !.tmr = 0, !.retries = 0,
              !.told = "waiting"]

\* resolv_query() on the table t.
QueryInto(t, n) ==
    /\ queries < MaxQueries
    /\ queries' = queries + 1
    /\ seqno' = (seqno + 1) % SeqMod
    /\ \E i \in Entries :
          Victim(t, seqno, i) /\ names' = [t EXCEPT ![i] = Queried(@, n, seqno)]

Tell(e, event) == [e EXCEPT !.told = IF @ = "waiting" THEN event ELSE "confused"]

\* resolv_found() was called and left the table t; it may query a name.
Found(t) ==
    \/ names' = t /\ UNCHANGED <<seqno, queries>>
    \/ \E n \in Names : QueryInto(t, n)

Query(n) ==
    /\ at = 0
    /\ QueryInto(names, n)
    /\ UNCHANGED <<conn, questions, at>>

\* resolv_conf(): a new UDP connection.  The old one, if any, makes room for
\* it; otherwise there may be none left.
Conf ==
    /\ at = 0
    /\ conn' \in IF conn = NoConn THEN LocalPorts \cup {NoConn} ELSE LocalPorts
    /\ UNCHANGED <<names, seqno, questions, at, queries>>

-----------------------------------------------------------------------------
(* check_entries(), the poll of the UDP connection                         *)

Poll ==
    /\ at = 0
    /\ conn # NoConn
    /\ at' = 1
    /\ UNCHANGED <<names, seqno, conn, questions, queries>>

Advanced == IF at = RESOLV_ENTRIES THEN 0 ELSE at + 1

\* One step of the timer, a byte.
Ticked(e) == [e EXCEPT !.tmr = (@ - 1) % 256]
TimesOut(e) == e.state = "ASKING" /\ Ticked(e).tmr = 0

\* Mutant: one question more than MAX_RETRIES.
RetriesUsedUpLate(e) == e.retries + 1 > MAX_RETRIES

RetriesUsedUp(e) == e.retries + 1 = MAX_RETRIES

\* Nothing to do for the entry, or not yet.
CheckSkip ==
    /\ ~Pending(names[at])
    /\ at' = Advanced
    /\ UNCHANGED <<names, seqno, questions, queries>>

CheckWait ==
    /\ names[at].state = "ASKING"
    /\ ~TimesOut(names[at])
    /\ names' = [names EXCEPT ![at] = Ticked(@)]
    /\ at' = Advanced
    /\ UNCHANGED <<seqno, questions, queries>>

\* The name has failed; the walk goes on with the table the callback left.
CheckFail ==
    /\ TimesOut(names[at])
    /\ RetriesUsedUp(names[at])
    /\ Found([names EXCEPT ![at] = Tell([@ EXCEPT !.state = "ERROR"], "failed")])
    /\ at' = Advanced
    /\ UNCHANGED questions

\* Mutant: the retries are not counted.
AskedUncounted(e) ==
    IF e.state = "NEW" THEN [e EXCEPT !.state = "ASKING", !.tmr = 1, !.retries = 0]
    ELSE [e EXCEPT !.tmr = 1]

Asked(e) ==
    IF e.state = "NEW" THEN [e EXCEPT !.state = "ASKING", !.tmr = 1, !.retries = 0]
    ELSE [e EXCEPT !.retries = @ + 1, !.tmr = e.retries + 1]

\* A question, the first or a repeated one, ends the walk: one packet per poll.
CheckAsk ==
    /\ \/ names[at].state = "NEW"
       \/ TimesOut(names[at]) /\ ~RetriesUsedUp(names[at])
    /\ names' = [names EXCEPT ![at] = Asked(@)]
    /\ questions' = questions \cup {[id |-> at, name |-> names[at].name, port |-> conn]}
    /\ at' = 0
    /\ UNCHANGED <<seqno, queries>>

Check ==
    /\ at # 0
    /\ CheckSkip \/ CheckWait \/ CheckFail \/ CheckAsk
    /\ UNCHANGED conn

-----------------------------------------------------------------------------
(* newdata(): an answer to question q arrives                              *)

\* Mutant: any entry takes an answer.
TakesAlways(q) == q.port = conn

\* The packet reaches the connection, and the entry it names waits for one.
Takes(q) == q.port = conn /\ names[q.id].state = "ASKING"

Newdata(q, answer) ==
    /\ at = 0
    /\ Takes(q)
    /\ LET i == q.id
       IN  \/ /\ answer = "error"
              /\ Found([names EXCEPT ![i] = Tell([@ EXCEPT !.state = "ERROR"], "failed")])
           \/ /\ answer = "address"
              /\ Found([names EXCEPT ![i] =
                            Tell([@ EXCEPT !.state = "DONE", !.ipaddr = q.name], "found")])
           \/ /\ answer = "no address"
              /\ names' = [names EXCEPT ![i].state = "DONE"]
              /\ UNCHANGED <<seqno, queries>>
    /\ UNCHANGED <<conn, questions, at>>

-----------------------------------------------------------------------------
Init ==
    /\ names = [i \in Entries |->
                   [state |-> "DONE", name |-> NoName, ipaddr |-> NULL, tmr |-> 0,
                    retries |-> 0, seqno |-> 0, told |-> "unused"]]
    /\ seqno = 0
    /\ conn = NoConn
    /\ questions = {}
    /\ at = 0
    /\ queries = 0

Next ==
    \/ \E n \in Names : Query(n)
    \/ Conf
    \/ Poll
    \/ Check
    \/ \E q \in questions, answer \in Answers : Newdata(q, answer)

Spec == Init /\ [][Next]_vars

\* The main loop polls every UDP connection at every timer tick; the server
\* and the application promise nothing.
FairSpec == Spec /\ WF_vars(Poll) /\ WF_vars(Check)

-----------------------------------------------------------------------------
(* Correctness                                                             *)

\* No timer leaves its byte and no name is asked for more than MAX_RETRIES times.
TypeOK ==
    /\ names \in [Entries -> Namemap]
    /\ seqno \in 0 .. SeqMod - 1
    /\ conn \in LocalPorts \cup {NoConn}
    /\ questions \subseteq Question
    /\ at \in 0 .. RESOLV_ENTRIES
    /\ queries \in 0 .. MaxQueries

\* The application hears of a query at most once, and not before the query is
\* over: late and repeated answers, and names queried inside the callback of
\* another, never lead to a second call.
ToldOnce ==
    \A i \in Entries :
        /\ names[i].told # "confused"
        /\ Pending(names[i]) => names[i].told = "waiting"

\* Every query in the table comes to an end if the server can be asked at all
\* and the application stops adding queries, although a poll asks for one
\* name only and a name that is asked again holds the others up.
QueriesEnd ==
    \A i \in Entries : (Pending(names[i]) /\ conn # NoConn) ~> ~Pending(names[i])

\* "Queues a name so that a question for the name will be sent out"
\* (resolv_query): the name waits in its entry until its question is sent, at
\* least as long as there is another entry nobody waits for.
QueuedIsAsked ==
    [][\A i \in Entries :
          names[i].state = "NEW" /\ (\E j \in Entries : ~Pending(names[j]))
              => \/ names'[i] = names[i]
                 \/ names'[i].state = "ASKING"]_vars

=============================================================================
