---------------------------- MODULE Resolv_proofs ----------------------------
(***************************************************************************)
(* Proofs about the resolver's table, for any number of entries, names and *)
(* retries.  The callback may change the table in the middle of the walk,  *)
(* so the lemmas speak of a table t, not of the variable names alone.      *)
(***************************************************************************)
EXTENDS Resolv, TLAPS

\* An entry on its own: typed, and a query that goes on is for a name and has
\* not been heard of.
GoodEntry(e) ==
    /\ e \in Namemap
    /\ e.told # "confused"
    /\ Pending(e) => e.told = "waiting" /\ e.name \in Names

\* The inductive invariant.
IInv ==
    /\ TypeOK
    /\ \A i \in Entries : GoodEntry(names[i])
    /\ at # 0 => conn # NoConn

\* The fields of an entry, by name, so that no proof unfolds an interval to
\* see that a field it does not touch has its type.
States == {"NEW", "ASKING", "DONE", "ERROR"}
Addresses == Names \cup {NULL}
Bytes == 0 .. 255
Retries == 0 .. MAX_RETRIES - 1
Seqnos == 0 .. SeqMod - 1

LEMMA Fields ==
  /\ Namemap = [state : States, name : Names \cup {NoName}, ipaddr : Addresses, tmr : Bytes,
                retries : Retries, seqno : Seqnos, told : Tellings]
  /\ \A st \in {"NEW", "ASKING", "DONE", "ERROR"} : st \in States
  /\ \A n \in Names : n \in Names \cup {NoName} /\ n \in Addresses
  /\ \A e \in Namemap : /\ e.state \in States /\ e.tmr \in Bytes /\ e.retries \in Retries
                        /\ e.told \in Tellings
  /\ 0 \in Bytes /\ 1 \in Bytes /\ 0 \in Retries
<1>1. 0 \in Bytes /\ 1 \in Bytes /\ 0 \in Retries
  BY EntriesAssumption DEF Bytes, Retries
<1> QED
  BY <1>1 DEF Namemap, States, Addresses, Bytes, Retries, Seqnos

\* One entry of a table in order changes, and is in order afterwards.
LEMMA OneEntry ==
  ASSUME NEW t \in [Entries -> Namemap], \A i \in Entries : GoodEntry(t[i]),
         NEW i \in Entries, NEW e, GoodEntry(e)
  PROVE  /\ [t EXCEPT ![i] = e] \in [Entries -> Namemap]
         /\ \A j \in Entries : GoodEntry([t EXCEPT ![i] = e][j])
<1>1. e \in Namemap
  BY DEF GoodEntry
<1> QED
  BY <1>1

\* The end of a query is told once: of an entry that is pending, whose state,
\* and perhaps address, the step has changed already.
LEMMA TellIsGood ==
  ASSUME NEW e \in Namemap, e.told = "waiting", e.state \in {"DONE", "ERROR"},
         NEW event \in {"found", "failed"}
  PROVE  GoodEntry(Tell(e, event))
<1>1. Tell(e, event) = [e EXCEPT !.told = event]
  BY DEF Tell, Namemap
<1>2. [e EXCEPT !.told = event] \in Namemap
  BY DEF Namemap, Tellings
<1> QED
  BY <1>1, <1>2 DEF GoodEntry, Pending, Namemap

LEMMA QueriedIsGood ==
  ASSUME NEW e \in Namemap, NEW n \in Names, NEW q \in 0 .. SeqMod - 1
  PROVE  GoodEntry(Queried(e, n, q))
<1>1. q \in Seqnos /\ "waiting" \in Tellings
  BY DEF Seqnos, Tellings
<1>2. Queried(e, n, q) \in Namemap
  BY <1>1, Fields, Zenon DEF Queried
<1>3. Queried(e, n, q).told = "waiting" /\ Queried(e, n, q).name = n
  BY DEF Queried, Namemap
<1> QED
  BY <1>2, <1>3 DEF GoodEntry

GoodTable == names' \in [Entries -> Namemap] /\ \A i \in Entries : GoodEntry(names'[i])
GoodCounters == seqno' \in 0 .. SeqMod - 1 /\ queries' \in 0 .. MaxQueries

LEMMA QueryIntoKeeps ==
  ASSUME IInv, NEW t \in [Entries -> Namemap], \A i \in Entries : GoodEntry(t[i]),
         NEW n \in Names, QueryInto(t, n)
  PROVE  GoodTable /\ GoodCounters
<1>1. PICK i \in Entries : names' = [t EXCEPT ![i] = Queried(t[i], n, seqno)]
  <2>1. PICK i \in Entries : names' = [t EXCEPT ![i] = Queried(@, n, seqno)]
    BY DEF QueryInto
  <2> QED
    BY <2>1
<1>2. GoodEntry(Queried(t[i], n, seqno))
  BY QueriedIsGood DEF IInv, TypeOK
<1>3. GoodTable
  BY <1>1, <1>2, OneEntry DEF GoodTable
<1>4. GoodCounters
  BY EntriesAssumption DEF QueryInto, GoodCounters, IInv, TypeOK
<1> QED
  BY <1>3, <1>4

LEMMA FoundKeeps ==
  ASSUME IInv, NEW t \in [Entries -> Namemap], \A i \in Entries : GoodEntry(t[i]), Found(t)
  PROVE  GoodTable /\ GoodCounters
<1>1. CASE names' = t /\ UNCHANGED <<seqno, queries>>
  BY <1>1 DEF GoodTable, GoodCounters, IInv, TypeOK
<1>2. CASE \E n \in Names : QueryInto(t, n)
  BY <1>2, QueryIntoKeeps
<1> QED
  BY <1>1, <1>2 DEF Found

\* A step that leaves the table and the counters alone.
LEMMA QuietKeeps ==
  ASSUME IInv, UNCHANGED <<names, seqno, queries>>
  PROVE  GoodTable /\ GoodCounters
  BY DEF IInv, TypeOK, GoodTable, GoodCounters

-----------------------------------------------------------------------------
(* The walk                                                                *)

LEMMA CheckKeeps ==
  ASSUME IInv, Check
  PROVE  /\ GoodTable /\ GoodCounters
         /\ at' \in 0 .. RESOLV_ENTRIES
         /\ conn' = conn
<1> DEFINE e == names[at]
<1>1. /\ at \in Entries /\ e \in Namemap /\ GoodEntry(e)
      /\ names \in [Entries -> Namemap] /\ \A i \in Entries : GoodEntry(names[i])
  BY EntriesAssumption DEF Check, IInv, TypeOK, Entries
<1>2. /\ e.tmr \in 0 .. 255 /\ e.retries \in 0 .. MAX_RETRIES - 1
  BY <1>1 DEF Namemap
<1>3. at' \in 0 .. RESOLV_ENTRIES /\ conn' = conn
  BY <1>1, EntriesAssumption
     DEF Check, CheckSkip, CheckWait, CheckFail, CheckAsk, Advanced, Entries
<1>4. CASE CheckSkip
  BY <1>3, <1>4, QuietKeeps DEF CheckSkip
<1>5. CASE CheckWait
  <2> DEFINE x == (e.tmr - 1) % 256
             d == [e EXCEPT !.tmr = x]
  <2>1. x \in Bytes
    BY <1>2 DEF Bytes
  <2>2. names' = [names EXCEPT ![at] = d] /\ UNCHANGED <<seqno, queries>>
    BY <1>5, <1>1 DEF CheckWait, Ticked
  <2> HIDE DEF x, e
  <2>3. d \in Namemap
    BY <1>1, <2>1, Fields, Zenon
  <2>4. d.told = e.told /\ d.state = e.state /\ d.name = e.name
    BY <1>1 DEF Namemap
  <2>5. GoodEntry(d)
    BY <1>1, <2>3, <2>4 DEF GoodEntry, Pending
  <2> HIDE DEF d
  <2> QED
    BY <1>1, <1>3, <2>2, <2>5, OneEntry DEF GoodTable, GoodCounters, IInv, TypeOK
<1>6. CASE CheckFail
  <2> DEFINE f == [e EXCEPT !.state = "ERROR"]
             t == [names EXCEPT ![at] = Tell(f, "failed")]
  <2>1. Found(t)
    BY <1>6, <1>1 DEF CheckFail
  <2>2. f \in Namemap /\ f.told = "waiting" /\ f.state = "ERROR"
    BY <1>1, <1>6 DEF CheckFail, TimesOut, GoodEntry, Pending, Namemap
  <2>3. GoodEntry(Tell(f, "failed"))
    BY <2>2, TellIsGood
  <2>4. t \in [Entries -> Namemap] /\ \A i \in Entries : GoodEntry(t[i])
    BY <1>1, <2>3, OneEntry
  <2> HIDE DEF t
  <2> QED
    BY <2>1, <2>4, <1>3, FoundKeeps
<1>7. CASE CheckAsk
  <2>1. names' = [names EXCEPT ![at] = Asked(e)] /\ UNCHANGED <<seqno, queries>>
    BY <1>7, <1>1 DEF CheckAsk
  <2>2. GoodEntry(Asked(e))
    <3>1. CASE e.state = "NEW"
      <4>1. Asked(e) = [e EXCEPT !.state = "ASKING", !.tmr = 1, !.retries = 0]
        BY <3>1 DEF Asked
      <4>3. Asked(e) \in Namemap
        BY <1>1, <4>1, Fields, Zenon
      <4>4. Asked(e).told = e.told /\ Asked(e).name = e.name
        BY <1>1, <4>1 DEF Namemap
      <4> QED
        BY <1>1, <3>1, <4>3, <4>4 DEF GoodEntry, Pending
    <3>2. CASE e.state # "NEW"
      <4>1. Asked(e) = [e EXCEPT !.retries = e.retries + 1, !.tmr = e.retries + 1]
        BY <1>1, <3>2 DEF Asked, Namemap
      <4>2. e.retries + 1 \in Retries /\ e.retries + 1 \in Bytes
        BY <1>2, <1>7, <3>2, EntriesAssumption DEF CheckAsk, RetriesUsedUp, Retries, Bytes
      <4>3. Asked(e) \in Namemap
        BY <1>1, <4>1, <4>2, Fields, Zenon
      <4>4. Asked(e).told = e.told /\ Asked(e).state = e.state /\ Asked(e).name = e.name
        BY <1>1, <4>1 DEF Namemap
      <4> QED
        BY <1>1, <4>3, <4>4 DEF GoodEntry, Pending
    <3> QED
      BY <3>1, <3>2
  <2> HIDE DEF e
  <2> QED
    BY <1>1, <2>1, <2>2, <1>3, OneEntry DEF GoodTable, GoodCounters, IInv, TypeOK
<1> QED
  BY <1>3, <1>4, <1>5, <1>6, <1>7 DEF Check

\* The questions a walk adds are about names somebody waits for.
LEMMA QuestionsTyped ==
  ASSUME IInv, Check
  PROVE  questions' \subseteq Question
<1>1. questions \subseteq Question /\ at \in Entries /\ conn \in LocalPorts
  BY EntriesAssumption DEF Check, IInv, TypeOK, Entries
<1>2. CASE UNCHANGED questions
  BY <1>1, <1>2
<1>3. CASE CheckAsk
  <2>1. names[at].name \in Names
    BY <1>1, <1>3 DEF CheckAsk, TimesOut, Pending, IInv, GoodEntry
  <2> QED
    BY <1>1, <1>3, <2>1 DEF CheckAsk, Question
<1> QED
  BY <1>2, <1>3 DEF Check, CheckSkip, CheckWait, CheckFail

-----------------------------------------------------------------------------
(* Answers                                                                 *)

LEMMA NewdataKeeps ==
  ASSUME IInv, NEW q \in questions, NEW answer \in Answers, Newdata(q, answer)
  PROVE  GoodTable /\ GoodCounters
<1> DEFINE e == names[q.id]
           f == [e EXCEPT !.state = "ERROR"]
           g == [e EXCEPT !.state = "DONE", !.ipaddr = q.name]
           h == [e EXCEPT !.state = "DONE"]
<1>1. /\ q.id \in Entries /\ q.name \in Names
      /\ names \in [Entries -> Namemap] /\ \A i \in Entries : GoodEntry(names[i])
  BY DEF IInv, TypeOK, Question
<1>2. e \in Namemap /\ e.told = "waiting"
  BY <1>1 DEF Newdata, Takes, GoodEntry, Pending
<1>3. /\ f \in Namemap /\ f.told = "waiting" /\ f.state = "ERROR"
      /\ g \in Namemap /\ g.told = "waiting" /\ g.state = "DONE"
      /\ h \in Namemap /\ h.told = "waiting" /\ h.state = "DONE"
  <2>1. f \in Namemap /\ g \in Namemap /\ h \in Namemap
    BY <1>1, <1>2, Fields, Zenon
  <2>2. /\ f.told = "waiting" /\ f.state = "ERROR" /\ g.told = "waiting" /\ g.state = "DONE"
        /\ h.told = "waiting" /\ h.state = "DONE"
    BY <1>2 DEF Namemap
  <2> QED
    BY <2>1, <2>2
<1>4. GoodEntry(Tell(f, "failed")) /\ GoodEntry(Tell(g, "found")) /\ GoodEntry(h)
  BY <1>3, TellIsGood DEF GoodEntry, Pending
<1>5. \/ Found([names EXCEPT ![q.id] = Tell(f, "failed")])
      \/ Found([names EXCEPT ![q.id] = Tell(g, "found")])
      \/ names' = [names EXCEPT ![q.id] = h] /\ UNCHANGED <<seqno, queries>>
  BY <1>1 DEF Newdata
<1> HIDE DEF f, g, h
<1>6. ASSUME NEW d, GoodEntry(d), Found([names EXCEPT ![q.id] = d])
      PROVE  GoodTable /\ GoodCounters
  BY <1>1, <1>6, OneEntry, FoundKeeps
<1>7. CASE names' = [names EXCEPT ![q.id] = h] /\ UNCHANGED <<seqno, queries>>
  BY <1>1, <1>4, <1>7, OneEntry DEF GoodTable, GoodCounters, IInv, TypeOK
<1> QED
  BY <1>4, <1>5, <1>6, <1>7

-----------------------------------------------------------------------------
(* The specification                                                       *)

LEMMA InitGood == Init => IInv
<1> SUFFICES ASSUME Init PROVE IInv
  OBVIOUS
<1>1. \A i \in Entries : names[i] \in Namemap /\ GoodEntry(names[i])
  BY EntriesAssumption DEF Init, Namemap, GoodEntry, Pending, Tellings
<1>2. names \in [Entries -> Namemap]
  BY <1>1 DEF Init
<1> QED
  BY <1>1, <1>2, EntriesAssumption DEF Init, IInv, TypeOK

LEMMA StepGood == IInv /\ [Next]_vars => IInv'
<1> SUFFICES ASSUME IInv, [Next]_vars PROVE IInv'
  OBVIOUS
<1> USE DEF GoodTable, GoodCounters
<1>1. CASE UNCHANGED vars
  BY <1>1 DEF vars, IInv, TypeOK
<1>2. ASSUME NEW n \in Names, Query(n)
      PROVE  IInv'
  <2>1. GoodTable /\ GoodCounters
    BY <1>2, QueryIntoKeeps DEF Query, IInv, TypeOK
  <2> QED
    BY <1>2, <2>1 DEF Query, IInv, TypeOK
<1>3. CASE Conf
  <2>1. GoodTable /\ GoodCounters
    BY <1>3, QuietKeeps DEF Conf
  <2> QED
    BY <1>3, <2>1 DEF Conf, IInv, TypeOK
<1>4. CASE Poll
  <2>1. GoodTable /\ GoodCounters
    BY <1>4, QuietKeeps DEF Poll
  <2> QED
    BY <1>4, <2>1, EntriesAssumption DEF Poll, IInv, TypeOK
<1>5. CASE Check
  <2>1. /\ GoodTable /\ GoodCounters
        /\ at' \in 0 .. RESOLV_ENTRIES /\ conn' = conn
        /\ questions' \subseteq Question
    BY <1>5, CheckKeeps, QuestionsTyped
  <2> QED
    BY <1>5, <2>1 DEF Check, IInv, TypeOK
<1>6. ASSUME NEW q \in questions, NEW answer \in Answers, Newdata(q, answer)
      PROVE  IInv'
  <2>1. GoodTable /\ GoodCounters
    BY <1>6, NewdataKeeps
  <2> QED
    BY <1>6, <2>1 DEF Newdata, IInv, TypeOK
<1> QED
  BY <1>1, <1>2, <1>3, <1>4, <1>5, <1>6 DEF Next

LEMMA IInvHolds == Spec => []IInv
<1> QED
  BY InitGood, StepGood, PTL DEF Spec

\* No timer leaves its byte, the retries stay below MAX_RETRIES and every
\* question is for a name, for any size of the table.
THEOREM TypeCorrect == Spec => []TypeOK
<1>1. IInv => TypeOK
  BY DEF IInv
<1> QED
  BY <1>1, IInvHolds, PTL

\* The application hears of a query at most once, whatever answers come late
\* or twice and whatever it queries inside the callback.
THEOREM QueriesAreToldOnce == Spec => []ToldOnce
<1>1. IInv => ToldOnce
  BY DEF IInv, GoodEntry, ToldOnce
<1> QED
  BY <1>1, IInvHolds, PTL

=============================================================================
