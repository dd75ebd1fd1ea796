---------------------------- MODULE Httpd_proofs ----------------------------
(***************************************************************************)
(* What is proved of the pages of the web server, for any files, scripts,  *)
(* requests and sizes: its client gets the page it asked for.  With that   *)
(* all applications have their types.                                      *)
(***************************************************************************)
EXTENDS Apps_proofs

-----------------------------------------------------------------------------
(* The web server: the client gets the page it asked for.                  *)

\* What clients send; the words the server looks for are named for the provers,
\* which do not know them for strings.
InTokens == (STRING \cup {"GET", "sp", "/", "nl"}) \ {Junk}

\* said is what the client has sent: what it has sent of its request, and ends of
\* lines.
Heard(request, sent, said) ==
    /\ said \in Seq(InTokens)
    /\ sent = IF Len(said) <= Len(request) THEN Len(said) ELSE Len(request)
    /\ \A i \in 1 .. Len(said) : said[i] = IF i <= Len(request) THEN request[i] ELSE "nl"

\* A protosocket that reads.
Listens(p) ==
    /\ p = [f \in SockFields |-> p[f]]
    /\ p.busy \in BOOLEAN
    /\ p.buf \in Seq(InTokens) /\ Len(p.buf) <= PsockBufsize
    /\ p.unread \in Seq(InTokens)
    /\ p.unread # <<>> => p.state = "READ"

\* What it will read in the call for event e.
ToRead(p, e) ==
    IF p.unread # <<>> THEN p.unread
    ELSE IF TakesNewdata(p, e) THEN e.data ELSE <<>>

\* What it has not read is gone after the call.
ReadsInCall(p, e) == e = NoCall => p.unread = <<>> /\ p.state # "READ"

Without(mark, text) == \A i \in 1 .. Len(text) : text[i] # mark

\* The words of the request line that are behind.
WordsRead(h) == IF h.reading = "method" THEN <<>> ELSE <<"GET", "sp">>

\* The server reads the request: text is what it has read of a word.
ReadsRequest(h, p, e, sofar, request, sent) ==
    /\ ~h.output /\ h.reading \in {"method", "path"} /\ h.pc = "open"
    /\ sofar = <<>> /\ ~p.busy
    /\ ReadsInCall(h.sin, e)
    /\ \E text \in Seq(InTokens) :
          /\ Heard(request, sent, Then(Then(WordsRead(h), text), ToRead(h.sin, e)))
          /\ Without("sp", text)
          /\ IF h.sin.busy THEN h.sin.buf = Cut(text, PsockBufsize) ELSE text = <<>>

\* What is left of the page: of the statement, and after it.
IsText(h) == h.pc \in {"status", "type", "part"}

LeftNow(h, p, e) ==
    CASE IsText(h) -> SendRest(p, Text(h), e)
      [] h.pc \in {"file", "include"} ->
             IF p.busy /\ e.acks THEN Drop(h.file, AppMss) ELSE h.file
      [] h.pc = "report" -> IF p.busy /\ e.acks THEN Tail(h.report) ELSE h.report
      [] OTHER -> <<>>

\* The page is sent as a script.
Scripted(h) == h.status = "200" /\ IsScript(h.name)
WholeFile(h) == IF Scripted(h) THEN ShownAll(h.file) ELSE h.file

LeftThen(h) ==
    CASE h.pc = "status" -> Then(<<TypeOf(h.name)>>, WholeFile(h))
      [] h.pc = "type" -> WholeFile(h)
      [] h.pc = "part" -> ShownAll(Drop(h.file, h.len))
      [] h.pc \in {"include", "report"} -> ShownAll(h.script)
      [] OTHER -> <<>>

Left(h, p, e) == Then(LeftNow(h, p, e), LeftThen(h))

\* It sends the page: what the client has got, with what is left, is all of it.
SendsPage(h, p, e, sofar, request) ==
    /\ h.output /\ IsRequest(request)
    /\ h.pc = "open" => sofar = <<>> /\ ~p.busy /\ h.name = Named(request)
    /\ h.pc # "open" => Then(sofar, Left(h, p, e)) = Response(request)
    /\ h.pc = "report" /\ h.report = <<>> => ~p.busy

InSession(h, p, e, sofar, request, sent) ==
    \/ ReadsRequest(h, p, e, sofar, request, sent)
    \/ SendsPage(h, p, e, sofar, request)

\* The server gives up the connection that polls it for too long.
IsPatient == link.state = "open" /\ call = NoCall /\ link.len = 0 => http.timer < HttpdPolls

\* The name of the page is that of a file, and a page not found the one that says so.
NamesFile(h) ==
    h.pc # "open" => Opens(h.name) /\ (h.status = "404" => h.name = NotFound)

\* What the connection of the server is about, while there is one.
PageInv ==
    /\ HttpInv
    /\ Listens(http.sin) /\ got \in Seq(HttpTokens)
    /\ asked.request \in Seq(InTokens) /\ asked.sent \in Nat
    /\ http.timer \in 0 .. HttpdPolls /\ IsPatient
    /\ http.len <= AppMss
    /\ NamesFile(http)
    /\ PageIsRight
    /\ Live => InSession(http, psock, call, got, asked.request, asked.sent)

\* Facts about sequences, with the concatenation hidden.
IsThen(S, a, b, c) ==
    /\ c \in Seq(S) /\ Len(c) = Len(a) + Len(b)
    /\ \A i \in 1 .. Len(a) : c[i] = a[i]
    /\ \A i \in 1 .. Len(b) : c[Len(a) + i] = b[i]

LEMMA ThenIs ==
    ASSUME NEW S, NEW a \in Seq(S), NEW b \in Seq(S)
    PROVE  IsThen(S, a, b, Then(a, b))
<1> DEFINE c == a \o b
<1>1. /\ c \in Seq(S) /\ Len(c) = Len(a) + Len(b)
      /\ \A i \in 1 .. Len(a) + Len(b) : c[i] = IF i <= Len(a) THEN a[i] ELSE b[i - Len(a)]
  OBVIOUS
<1>2. Len(a) \in Nat /\ Len(b) \in Nat
  OBVIOUS
<1> HIDE DEF c
<1>3. ASSUME NEW i \in 1 .. Len(a)
      PROVE  c[i] = a[i]
  BY <1>1, <1>2
<1>4. ASSUME NEW i \in 1 .. Len(b)
      PROVE  c[Len(a) + i] = b[i]
  <2>1. Len(a) + i \in 1 .. Len(a) + Len(b) /\ ~(Len(a) + i <= Len(a)) /\ (Len(a) + i) - Len(a) = i
    BY <1>2
  <2> QED
    BY <1>1, <2>1
<1> QED
  BY <1>1, <1>3, <1>4 DEF c, Then, IsThen

LEMMA ThenNothing ==
    ASSUME NEW S, NEW a \in Seq(S)
    PROVE  Then(a, <<>>) = a /\ Then(<<>>, a) = a
BY ConcatEmptySeq DEF Then

LEMMA CutThenDrop ==
    ASSUME NEW S, NEW s \in Seq(S), NEW n \in Nat
    PROVE  /\ Cut(s, n) \in Seq(S) /\ Drop(s, n) \in Seq(S)
           /\ Then(Cut(s, n), Drop(s, n)) = s
<1>0. Cut(s, n) \in Seq(S) /\ Drop(s, n) \in Seq(S) /\ Len(s) \in Nat
  <2>1. Cut(s, n) \in Seq(S)
    BY CutIsFront
  <2>2. Drop(s, n) \in Seq(S)
    BY DropIsRest
  <2> QED
    BY <2>1, <2>2, LenProperties
<1>1. CASE Len(s) <= n
  <2>1. Cut(s, n) = s /\ Drop(s, n) = <<>>
    BY <1>1 DEF Cut, Drop
  <2> QED
    BY <1>0, <2>1, ThenNothing
<1>2. CASE ~(Len(s) <= n)
  <2>1. Cut(s, n) = SubSeq(s, 1, n) /\ Drop(s, n) = SubSeq(s, n + 1, Len(s))
    BY <1>2 DEF Cut, Drop
  <2>2. n <= Len(s) /\ Len(s) <= Len(s)
    BY <1>0, <1>2
  <2>3. SubSeq(s, 1, n) \o SubSeq(s, n + 1, Len(s)) = SubSeq(s, 1, Len(s))
    BY <1>0, <2>2, FrontsAdd
  <2>4. SubSeq(s, 1, Len(s)) = s
    BY SubSeqFull
  <2> QED
    BY <1>0, <2>1, <2>3, <2>4 DEF Then
<1> QED
  BY <1>1, <1>2

\* Two sequences are the same if they are the same everywhere.
IsCut(S, s, n, c) ==
    /\ c \in Seq(S) /\ Len(c) \in Nat /\ Len(c) <= n /\ Len(c) <= Len(s)
    /\ Len(s) <= n => c = s
    /\ n <= Len(s) => Len(c) = n
    /\ \A i \in 1 .. Len(c) : c[i] = s[i]

LEMMA CutIs ==
    ASSUME NEW S, NEW s \in Seq(S), NEW n \in Nat
    PROVE  IsCut(S, s, n, Cut(s, n))
<1>1. Len(s) \in Nat
  OBVIOUS
<1>2. /\ Cut(s, n) \in Seq(S)
      /\ Len(Cut(s, n)) = IF Len(s) <= n THEN Len(s) ELSE n
      /\ \A i \in 1 .. Len(Cut(s, n)) : Cut(s, n)[i] = s[i]
  BY CutIsFront
<1>3. Len(s) <= n => Cut(s, n) = s
  BY DEF Cut
<1> DEFINE t == Cut(s, n)
<1> HIDE DEF t
<1>4. Len(t) \in Nat /\ Len(t) <= n /\ Len(t) <= Len(s) /\ (n <= Len(s) => Len(t) = n)
  BY <1>1, <1>2 DEF t
<1> QED
  BY <1>2, <1>3, <1>4 DEF t, IsCut

\* A buffer of n tokens that is filled in two goes.
LEMMA CutGoesOn ==
    ASSUME NEW S, NEW s \in Seq(S), NEW t \in Seq(S), NEW n \in Nat
    PROVE  Cut(Cut(s, n) \o t, n) = Cut(Then(s, t), n)
<1> DEFINE c == Cut(s, n)
           a == Then(c, t)
           b == Then(s, t)
           u == Cut(a, n)
           v == Cut(b, n)
<1>1. Len(s) \in Nat /\ Len(t) \in Nat
  OBVIOUS
<1>2. CASE Len(s) <= n
  BY <1>2 DEF Cut, Then
<1>3. CASE ~(Len(s) <= n)
  <2>0. n <= Len(s)
    BY <1>1, <1>3
  <2>1. c \in Seq(S) /\ Len(c) = n /\ \A i \in 1 .. Len(c) : c[i] = s[i]
    <3>1. IsCut(S, s, n, c)
      BY <2>0, CutIs
    <3> QED
      BY <2>0, <3>1 DEF IsCut
  <2>2. n <= Len(s) /\ \A i \in 1 .. n : c[i] = s[i]
    BY <1>1, <1>3, <2>1
  <2> HIDE DEF c
  <2>3. a \in Seq(S) /\ Len(a) = n + Len(t) /\ \A i \in 1 .. n : a[i] = c[i]
    <3>1. IsThen(S, c, t, a)
      BY <2>1, ThenIs
    <3> QED
      BY <2>1, <3>1 DEF IsThen
  <2>4. b \in Seq(S) /\ Len(b) = Len(s) + Len(t) /\ \A i \in 1 .. Len(s) : b[i] = s[i]
    <3>1. IsThen(S, s, t, b)
      BY ThenIs
    <3> QED
      BY <3>1 DEF IsThen
  <2> HIDE DEF a, b
  <2>5. n <= Len(a) /\ n <= Len(b) /\ \A i \in 1 .. n : b[i] = s[i]
    BY <1>1, <2>2, <2>3, <2>4
  <2>6. u \in Seq(S) /\ Len(u) = n /\ \A i \in 1 .. Len(u) : u[i] = a[i]
    <3>1. IsCut(S, a, n, u)
      BY <2>3, <2>5, CutIs
    <3> QED
      BY <2>3, <2>5, <3>1 DEF IsCut
  <2>7. v \in Seq(S) /\ Len(v) = n /\ \A i \in 1 .. Len(v) : v[i] = b[i]
    <3>1. IsCut(S, b, n, v)
      BY <2>4, <2>5, CutIs
    <3> QED
      BY <2>4, <2>5, <3>1 DEF IsCut
  <2> HIDE DEF u, v
  <2>8. \A i \in 1 .. Len(u) : u[i] = v[i]
    BY <2>2, <2>3, <2>5, <2>6, <2>7
  <2>9. u = v
    BY <2>6, <2>7, <2>8, SeqEqual
  <2> QED
    BY <2>9 DEF u, v, a, b, c, Then
<1> QED
  BY <1>2, <1>3

\* What comes first is a prefix.
LEMMA FirstIsPrefix ==
    ASSUME NEW S, NEW a \in Seq(S), NEW b \in Seq(S)
    PROVE  IsPrefix(a, Then(a, b))
<1> DEFINE c == Then(a, b)
<1>1. c \in Seq(S) /\ Len(c) = Len(a) + Len(b) /\ \A i \in 1 .. Len(a) : c[i] = a[i]
  <2>1. IsThen(S, a, b, c)
    BY ThenIs
  <2> QED
    BY <2>1 DEF IsThen
<1> HIDE DEF c
<1>2. Len(a) \in Nat /\ Len(a) <= Len(c)
  BY <1>1
<1> DEFINE d == SubSeq(c, 1, Len(a))
<1>3. d \in Seq(S) /\ Len(d) = Len(a) /\ \A i \in 1 .. Len(a) : d[i] = c[i]
  BY <1>1, <1>2, FrontHas
<1> HIDE DEF d
<1>4. d = a
  BY <1>1, <1>3, SeqEqual
<1>5. SubSeq(a, 1, Len(a)) = a
  BY SubSeqFull
<1> QED
  BY <1>2, <1>4, <1>5 DEF IsPrefix, c, d

-----------------------------------------------------------------------------
(* What a page shows, line by line.                                        *)

Showing == INSTANCE FoldTheorems WITH Op <- LAMBDA c, text, line : text \o Shown(line)

LEMMA ShownFolds ==
    ASSUME NEW lines
    PROVE  ShownAll(lines) = Showing!Folded(0, <<>>, lines)
BY DEF ShownAll, Showing!Folded, Showing!FoldLeft, FoldLeft, Showing!MapThenFoldSet,
       MapThenFoldSet, Showing!Max, Max

LEMMA ShownIsTokens ==
    ASSUME NEW line \in HttpTokens
    PROVE  Shown(line) \in Seq(HttpTokens)
<1>1. <<line>> \in Seq(HttpTokens)
  OBVIOUS
<1> QED
  BY <1>1, FilesAreTokens, IncludedIsTokens DEF Shown

\* The text after each line.
ShowsLines(f, lines) ==
    /\ f[0] = <<>> /\ f[Len(lines)] = ShownAll(lines)
    /\ \A k \in 0 .. Len(lines) : f[k] \in Seq(HttpTokens)
    /\ \A k \in 1 .. Len(lines) : f[k] = Then(f[k - 1], Shown(lines[k]))

LEMMA LinesAreShown ==
    ASSUME NEW lines \in Seq(HttpTokens)
    PROVE  (\E f : ShowsLines(f, lines)) /\ ShownAll(lines) \in Seq(HttpTokens)
<1> DEFINE S == Seq(HttpTokens)
<1>1. <<>> \in S
  OBVIOUS
<1>2. \A x \in S, line \in HttpTokens : x \o Shown(line) \in S
  BY ShownIsTokens
<1> HIDE DEF S
<1>3. PICK f : /\ Showing!IsHistory(0, f, <<>>, lines)
               /\ \A k \in 0 .. Len(lines) : f[k] \in S
  BY <1>1, <1>2, Showing!FoldLeftStepsStay, Zenon
<1>4. ShowsLines(f, lines)
  BY <1>3, ShownFolds, Zenon DEF Showing!IsHistory, ShowsLines, Then, S
<1>5. Len(lines) \in 0 .. Len(lines)
  OBVIOUS
<1>6. ShownAll(lines) \in Seq(HttpTokens)
  BY <1>4, <1>5 DEF ShowsLines
<1> QED
  BY <1>4, <1>6

\* The lines of two texts one after the other.
LEMMA ShownJoins ==
    ASSUME NEW a \in Seq(HttpTokens), NEW b \in Seq(HttpTokens)
    PROVE  ShownAll(Then(a, b)) = Then(ShownAll(a), ShownAll(b))
<1> DEFINE c == Then(a, b)
           m == Len(a)
           n == Len(b)
           S == Seq(HttpTokens)
<1>1. /\ c \in Seq(HttpTokens) /\ Len(c) = m + n
      /\ \A i \in 1 .. m : c[i] = a[i]
      /\ \A i \in 1 .. n : c[m + i] = b[i]
  <2>1. IsThen(HttpTokens, a, b, c)
    BY ThenIs
  <2> QED
    BY <2>1 DEF IsThen
<1>2. m \in Nat /\ n \in Nat
  OBVIOUS
<1> HIDE DEF c, m, n
<1>3. PICK f : ShowsLines(f, c)
  BY <1>1, LinesAreShown
<1>4. PICK g : ShowsLines(g, a)
  BY LinesAreShown
<1>5. PICK h : ShowsLines(h, b)
  BY LinesAreShown
<1> DEFINE T == {k \in Nat : k <= m => f[k] = g[k]}
           U == {k \in Nat : k <= n => f[m + k] = Then(g[m], h[k])}
<1>6. \A k \in Nat : k \in T
  <2>1. 0 \in T
    BY <1>3, <1>4 DEF ShowsLines
  <2>2. ASSUME NEW k \in Nat, k \in T
        PROVE  k + 1 \in T
    <3> SUFFICES ASSUME k + 1 <= m
                 PROVE  f[k + 1] = g[k + 1]
      OBVIOUS
    <3>1. k <= m /\ k + 1 \in 1 .. m /\ k + 1 \in 1 .. m + n /\ (k + 1) - 1 = k
      BY <1>2
    <3>2. f[k + 1] = Then(f[k], Shown(c[k + 1])) /\ g[k + 1] = Then(g[k], Shown(a[k + 1]))
      BY <1>1, <1>3, <1>4, <3>1 DEF ShowsLines, m
    <3> QED
      BY <1>1, <2>2, <3>1, <3>2
  <2> HIDE DEF T
  <2> QED
    BY <2>1, <2>2, Showing!SetInduction
<1>7. f[m] = g[m] /\ g[m] = ShownAll(a) /\ h[0] = <<>> /\ h[n] = ShownAll(b) /\ g[m] \in S
  <2>1. f[m] = g[m]
    BY <1>2, <1>6
  <2>2. g[m] = ShownAll(a) /\ h[0] = <<>> /\ h[n] = ShownAll(b)
    BY <1>4, <1>5 DEF ShowsLines, m, n
  <2> QED
    BY <2>1, <2>2, LinesAreShown
<1>8. ASSUME NEW k \in 1 .. n
      PROVE  h[k - 1] \in S /\ Shown(b[k]) \in S
  <2>1. k - 1 \in 0 .. n /\ b[k] \in HttpTokens
    BY <1>2 DEF n
  <2> QED
    BY <1>5, <2>1, ShownIsTokens DEF ShowsLines, n
<1>9. \A k \in Nat : k \in U
  <2>1. 0 \in U
    <3>1. Then(g[m], <<>>) = g[m]
      BY <1>7, ThenNothing
    <3> QED
      BY <1>2, <1>7, <3>1
  <2>2. ASSUME NEW k \in Nat, k \in U
        PROVE  k + 1 \in U
    <3> SUFFICES ASSUME k + 1 <= n
                 PROVE  f[m + (k + 1)] = Then(g[m], h[k + 1])
      OBVIOUS
    <3>1. /\ k <= n /\ k + 1 \in 1 .. n /\ m + (k + 1) \in 1 .. m + n
          /\ (m + (k + 1)) - 1 = m + k /\ (k + 1) - 1 = k
      BY <1>2
    <3> DEFINE line == Shown(b[k + 1])
    <3>2. f[m + (k + 1)] = Then(f[m + k], Shown(c[m + (k + 1)]))
      BY <1>1, <1>3, <3>1 DEF ShowsLines
    <3>3. c[m + (k + 1)] = b[k + 1]
      BY <1>1, <3>1
    <3>4. h[k + 1] = Then(h[k], line)
      BY <1>5, <3>1 DEF ShowsLines, n
    <3>5. h[k] \in S /\ line \in S
      BY <1>8, <3>1
    <3> HIDE DEF line
    <3>6. f[m + (k + 1)] = Then(Then(g[m], h[k]), line)
      BY <2>2, <3>1, <3>2, <3>3 DEF line
    <3>7. Then(Then(g[m], h[k]), line) = Then(g[m], Then(h[k], line))
      BY <1>7, <3>5, ThenIsFlat
    <3> QED
      BY <3>4, <3>6, <3>7
  <2> HIDE DEF U
  <2> QED
    BY <2>1, <2>2, Showing!SetInduction
<1>10. f[m + n] = Then(g[m], h[n])
  BY <1>2, <1>9
<1>11. f[m + n] = ShownAll(c)
  BY <1>1, <1>3 DEF ShowsLines
<1> QED
  BY <1>7, <1>10, <1>11 DEF c

\* A line that is no line of a script shows itself.
IsPlain(line) == line \notin DOMAIN HttpdInclude /\ line \notin DOMAIN HttpdReport

LEMMA PlainIsShown ==
    ASSUME NEW lines \in Seq(HttpTokens), \A i \in 1 .. Len(lines) : IsPlain(lines[i])
    PROVE  ShownAll(lines) = lines
<1> DEFINE n == Len(lines)
<1>1. n \in Nat
  OBVIOUS
<1>2. PICK f : ShowsLines(f, lines)
  BY LinesAreShown
<1> DEFINE T == {k \in Nat : k <= n => f[k] = SubSeq(lines, 1, k)}
<1>3. SubSeq(lines, 1, 0) = <<>> /\ SubSeq(lines, 1, n) = lines
  <2>1. SubSeq(lines, 1, 0) \in Seq(HttpTokens) /\ Len(SubSeq(lines, 1, 0)) = 0
    BY <1>1, FrontHas
  <2> QED
    BY <2>1, EmptySeq, SubSeqFull
<1>4. 0 \in T
  BY <1>2, <1>3 DEF ShowsLines
<1>5. ASSUME NEW k \in Nat, k \in T
      PROVE  k + 1 \in T
  <2> SUFFICES ASSUME k + 1 <= n
               PROVE  f[k + 1] = SubSeq(lines, 1, k + 1)
    OBVIOUS
  <2>1. k <= n /\ k + 1 \in 1 .. n /\ (k + 1) - 1 = k
    BY <1>1
  <2>2. f[k + 1] = Then(f[k], Shown(lines[k + 1]))
    BY <1>2, <2>1 DEF ShowsLines
  <2>3. Shown(lines[k + 1]) = <<lines[k + 1]>>
    BY <2>1 DEF Shown, IsPlain
  <2>4. SubSeq(lines, 1, k + 1) = SubSeq(lines, 1, (k + 1) - 1) \o <<lines[k + 1]>>
    <3>1. 1 \in 1 .. Len(lines) /\ k + 1 \in 1 .. Len(lines)
      BY <1>1, <2>1
    <3> QED
      BY <3>1, SubSeqRecursiveSecond
  <2> QED
    BY <1>5, <2>1, <2>2, <2>3, <2>4 DEF Then
<1> HIDE DEF T
<1>6. n \in T
  BY <1>1, <1>4, <1>5, Showing!SetInduction
<1>7. f[n] = ShownAll(lines)
  BY <1>2 DEF ShowsLines
<1> QED
  BY <1>1, <1>3, <1>6, <1>7 DEF T

LEMMA OneIsShown ==
    ASSUME NEW line \in HttpTokens
    PROVE  ShownAll(<<line>>) = Shown(line)
<1> DEFINE lines == <<line>>
<1>1. lines \in Seq(HttpTokens) /\ Len(lines) = 1 /\ lines[1] = line
  OBVIOUS
<1> HIDE DEF lines
<1>2. PICK f : ShowsLines(f, lines)
  BY <1>1, LinesAreShown
<1>3. f[1] = Then(f[0], Shown(line)) /\ f[0] = <<>> /\ f[1] = ShownAll(lines)
  <2>1. 1 \in 1 .. Len(lines) /\ 1 - 1 = 0
    BY <1>1
  <2> QED
    BY <1>1, <1>2, <2>1 DEF ShowsLines
<1>4. Then(<<>>, Shown(line)) = Shown(line)
  BY ShownIsTokens, ThenNothing
<1> QED
  BY <1>3, <1>4 DEF lines

LEMMA HeadThenTail ==
    ASSUME NEW S, NEW s \in Seq(S), s # <<>>
    PROVE  s[1] \in S /\ Tail(s) \in Seq(S) /\ s = Then(<<s[1]>>, Tail(s))
<1>1. s[1] \in S /\ Tail(s) \in Seq(S) /\ s = <<s[1]>> \o Tail(s)
  OBVIOUS
<1> QED
  BY <1>1 DEF Then

LEMMA HeadIsShown ==
    ASSUME NEW file \in Seq(HttpTokens), file # <<>>
    PROVE  ShownAll(file) = Then(Shown(file[1]), ShownAll(Tail(file)))
<1>1. file[1] \in HttpTokens /\ Tail(file) \in Seq(HttpTokens) /\ file = Then(<<file[1]>>, Tail(file))
  BY HeadThenTail
<1> DEFINE line == file[1]
           rest == Tail(file)
<1>2. <<line>> \in Seq(HttpTokens)
  BY <1>1
<1> HIDE DEF line, rest
<1>3. ShownAll(Then(<<line>>, rest)) = Then(ShownAll(<<line>>), ShownAll(rest))
  BY <1>1, <1>2, ShownJoins DEF line, rest
<1>4. ShownAll(<<line>>) = Shown(line)
  BY <1>1, OneIsShown DEF line
<1> QED
  BY <1>1, <1>3, <1>4 DEF line, rest

\* A part of a script that is sent as it is.
LEMMA PartIsShown ==
    ASSUME NEW file \in Seq(HttpTokens), file # <<>>, IsPlain(file[1])
    PROVE  /\ PartLen(file) \in Nat /\ PartLen(file) <= AppMss
           /\ Then(Cut(file, PartLen(file)), ShownAll(Drop(file, PartLen(file)))) = ShownAll(file)
<1> DEFINE percents == {i \in 2 .. Len(file) :
                           file[i] = "%" \/ file[i] \in DOMAIN HttpdInclude \cup DOMAIN HttpdReport}
           T == {Len(file), AppMss} \cup {i - 1 : i \in percents}
           n == PartLen(file)
<1>1. percents \subseteq 2 .. Len(file) /\ Len(file) \in Nat
  OBVIOUS
<1>2. ASSUME NEW i \in 2 .. Len(file), i \notin percents
      PROVE  IsPlain(file[i])
  BY <1>2 DEF IsPlain
<1> HIDE DEF percents
<1>3. T \subseteq Nat /\ T # {} /\ Len(file) \in T /\ AppMss \in T
  BY <1>1, AppAssumption
<1>4. \A i \in percents : i - 1 \in T
  OBVIOUS
<1>5. n = Min(T)
  BY DEF PartLen, percents
<1> HIDE DEF T
<1>6. n \in T /\ \A k \in T : n <= k
  BY <1>3, <1>5, Printed!LeastIsThere DEF Min
<1> HIDE DEF n
<1>7. n \in Nat /\ n <= Len(file) /\ n <= AppMss
  BY <1>3, <1>6
<1>8. ASSUME NEW i \in 1 .. n
      PROVE  IsPlain(file[i])
  <2>1. CASE i = 1
    BY <2>1
  <2>2. CASE i # 1
    <3>1. i \in 2 .. Len(file)
      BY <1>1, <1>7, <2>2
    <3>2. i \notin percents
      BY <1>4, <1>6, <1>7
    <3> QED
      BY <1>2, <3>1, <3>2
  <2> QED
    BY <2>1, <2>2
<1> DEFINE front == Cut(file, n)
           back == Drop(file, n)
<1>9. /\ front \in Seq(HttpTokens) /\ Len(front) = n /\ \A i \in 1 .. Len(front) : front[i] = file[i]
  <2>1. IsCut(HttpTokens, file, n, front)
    BY <1>7, CutIs
  <2> QED
    BY <1>7, <2>1 DEF IsCut
<1>10. back \in Seq(HttpTokens) /\ Then(front, back) = file
  BY <1>7, CutThenDrop
<1> HIDE DEF front, back
<1>11. ShownAll(front) = front
  BY <1>8, <1>9, PlainIsShown
<1>12. Then(front, ShownAll(back)) = ShownAll(file)
  BY <1>9, <1>10, <1>11, ShownJoins
<1> QED
  BY <1>7, <1>12 DEF front, back, n

-----------------------------------------------------------------------------
(* The request, as the protosocket reads it.                               *)

\* A line that has just ended.
EndsWith(mark, line) ==
    \E text \in Seq(InTokens) : line = Then(text, <<mark>>) /\ Without(mark, text)

\* What was to be read has been read as far as the mark, or all of it.
ReadsUp(mark, found, front, back) ==
    IF found THEN EndsWith(mark, front) ELSE back = <<>> /\ Without(mark, front)

\* One reading of data by p, which leaves q.
ScansTo(p, q, data, mark, found) ==
    \E front \in Seq(InTokens), back \in Seq(InTokens) :
        /\ data = Then(front, back) /\ ReadsUp(mark, found, front, back)
        /\ q = [p EXCEPT !.buf = Cut(p.buf \o front, PsockBufsize), !.unread = back]

LEMMA ScanHas ==
    ASSUME NEW p, NEW data \in Seq(InTokens), NEW mark \in InTokens
    PROVE  ScansTo(p, Scan(p, data, mark).p, data, mark, Scan(p, data, mark).found)
<1> DEFINE at == {i \in DOMAIN data : data[i] = mark /\ \A j \in 1 .. i - 1 : data[j] # mark}
           n == IF at = {} THEN Len(data) ELSE CHOOSE i \in at : TRUE
           front == SubSeq(data, 1, n)
           back == Drop(data, n)
           buf == Cut(p.buf \o front, PsockBufsize)
<1>1. Scan(p, data, mark).found = (at # {})
  BY DEF Scan
<1>2. Scan(p, data, mark).p = [p EXCEPT !.buf = buf, !.unread = back]
  BY DEF Scan
<1>3. Len(data) \in Nat /\ DOMAIN data = 1 .. Len(data)
  OBVIOUS
<1>4. n \in Nat /\ n <= Len(data)
  BY <1>3
<1>5. at # {} => n \in 1 .. Len(data) /\ data[n] = mark /\ \A j \in 1 .. n - 1 : data[j] # mark
  BY <1>3
<1>6. at = {} => n = Len(data) /\ \A i \in 1 .. Len(data) : data[i] # mark
  <2> SUFFICES ASSUME at = {}
               PROVE  \A i \in 1 .. Len(data) : data[i] # mark
    OBVIOUS
  <2> DEFINE T == {k \in Nat : \A i \in 1 .. Len(data) : i <= k => data[i] # mark}
  <2>1. 0 \in T
    BY <1>3
  <2>2. ASSUME NEW k \in Nat, k \in T
        PROVE  k + 1 \in T
    <3> SUFFICES ASSUME k + 1 \in 1 .. Len(data), data[k + 1] = mark
                 PROVE  FALSE
      BY <2>2
    <3>1. \A j \in 1 .. (k + 1) - 1 : data[j] # mark
      BY <1>3, <2>2
    <3> QED
      BY <1>3, <3>1
  <2> HIDE DEF T
  <2>3. Len(data) \in T
    BY <1>3, <2>1, <2>2, Showing!SetInduction
  <2> QED
    BY <1>3, <2>3 DEF T
<1> DEFINE some == at # {}
<1>13. at # {} <=> some
  OBVIOUS
<1> HIDE DEF n, at
<1>7. /\ front \in Seq(InTokens) /\ Len(front) = n
      /\ \A i \in 1 .. n : front[i] = data[i]
  BY <1>4, FrontHas
<1>8. back \in Seq(InTokens) /\ back = SubSeq(data, n + 1, Len(data))
  BY <1>4, DropIsRest, DropHas
<1>9. data = Then(front, back)
  <2>1. SubSeq(data, 1, n) \o SubSeq(data, n + 1, Len(data)) = SubSeq(data, 1, Len(data))
    <3>1. n \in Nat /\ Len(data) \in Nat /\ n <= Len(data) /\ Len(data) <= Len(data)
      BY <1>3, <1>4
    <3> QED
      BY <3>1, FrontsAdd
  <2> QED
    BY <1>8, <2>1, SubSeqFull DEF Then
<1>10. ReadsUp(mark, some, front, back)
  <2>1. CASE some
    <3> DEFINE text == SubSeq(data, 1, n - 1)
    <3>1. n \in 1 .. Len(data) /\ n - 1 \in Nat /\ n - 1 <= Len(data) /\ 1 \in 1 .. Len(data)
      BY <1>3, <1>5, <1>13, <2>1
    <3>2. /\ text \in Seq(InTokens) /\ Len(text) = n - 1
          /\ \A i \in 1 .. n - 1 : text[i] = data[i]
      BY <3>1, FrontHas
    <3>3. front = text \o <<data[n]>>
      BY <3>1, SubSeqRecursiveSecond
    <3>4. Without(mark, text)
      BY <1>5, <1>13, <2>1, <3>2 DEF Without
    <3> QED
      BY <1>5, <1>13, <2>1, <3>2, <3>3, <3>4 DEF ReadsUp, EndsWith, Then
  <2>2. CASE ~some
    <3>1. back = <<>>
      BY <1>3, <1>6, <1>13, <2>2 DEF Drop
    <3>2. Without(mark, front)
      BY <1>6, <1>7, <1>13, <2>2 DEF Without
    <3> QED
      BY <2>2, <3>1, <3>2 DEF ReadsUp
  <2> QED
    BY <2>1, <2>2
<1>11. Scan(p, data, mark).found = some
  BY <1>1, <1>13
<1> HIDE DEF front, back, some
<1>12. Scan(p, data, mark).p = [p EXCEPT !.buf = Cut(p.buf \o front, PsockBufsize), !.unread = back]
  BY <1>2
<1> QED
  BY <1>7, <1>8, <1>9, <1>10, <1>11, <1>12 DEF ScansTo

\* What a protosocket has in its buffer when it begins to read, or goes on.
BufferOf(p) == IF p.busy THEN p.buf ELSE <<>>

\* Protosocket p reads up to the mark, and leaves q.
ReadsOn(p, q, e, mark, found) ==
    /\ Listens(q) /\ q.busy = p.busy
    /\ ~found => q.unread = <<>>
    /\ \E front \in Seq(InTokens) :
          /\ ToRead(p, e) = Then(front, ToRead(q, e))
          /\ ToRead(q, e) \in Seq(InTokens)
          /\ ReadsUp(mark, found, front, ToRead(q, e))
          /\ q.buf = Cut(BufferOf(p) \o front, PsockBufsize)

\* One reading of data by a protosocket that has the data of the call.
IsScan(p, q, data, e, mark, found) ==
    /\ Listens(q) /\ q.busy = p.busy /\ q.state = "READ"
    /\ ~found => q.unread = <<>>
    /\ ToRead(q, e) = q.unread /\ q.unread \in Seq(InTokens)
    /\ \E front \in Seq(InTokens) :
          /\ data = Then(front, ToRead(q, e))
          /\ ReadsUp(mark, found, front, ToRead(q, e))
          /\ q.buf = Cut(p.buf \o front, PsockBufsize)

LEMMA ScanReadsOn ==
    ASSUME NEW p, Listens(p), NEW data \in Seq(InTokens), NEW e, NEW mark \in InTokens,
           p.state = "READ"
    PROVE  IsScan(p, Scan(p, data, mark).p, data, e, mark, Scan(p, data, mark).found)
<1> DEFINE q == Scan(p, data, mark).p
           found == Scan(p, data, mark).found
<1>1. ScansTo(p, q, data, mark, found)
  BY ScanHas
<1> HIDE DEF q, found
<1>2. PICK front \in Seq(InTokens), back \in Seq(InTokens) :
        /\ data = Then(front, back) /\ ReadsUp(mark, found, front, back)
        /\ q = [p EXCEPT !.buf = Cut(p.buf \o front, PsockBufsize), !.unread = back]
  BY <1>1, Zenon DEF ScansTo
<1> DEFINE buf == Cut(p.buf \o front, PsockBufsize)
<1>3. buf \in Seq(InTokens) /\ Len(buf) <= PsockBufsize
  <2>1. p.buf \o front \in Seq(InTokens) /\ PsockBufsize \in Nat
    BY PsockAssumption DEF Listens
  <2> QED
    <3>1. IsCut(InTokens, p.buf \o front, PsockBufsize, buf)
      BY <2>1, CutIs
    <3> QED
      BY <2>1, <3>1 DEF IsCut
<1>4. q = [p EXCEPT !.buf = buf, !.unread = back]
  BY <1>2
<1> HIDE DEF buf
<1>5. /\ Listens(q) /\ q.busy = p.busy /\ q.state = "READ"
      /\ q.unread = back /\ q.buf = buf
  BY <1>2, <1>3, <1>4 DEF Listens, SockFields
<1>6. ToRead(q, e) = back
  BY <1>5 DEF ToRead, TakesNewdata
<1>7. ~found => back = <<>>
  BY <1>2 DEF ReadsUp
<1>8. q.buf = Cut(p.buf \o front, PsockBufsize)
  BY <1>5 DEF buf
<1>9. data = Then(front, ToRead(q, e)) /\ ReadsUp(mark, found, front, ToRead(q, e))
  BY <1>2, <1>6
<1> QED
  BY <1>5, <1>6, <1>7, <1>8, <1>9 DEF q, found, IsScan

LEMMA ReadToReadsOn ==
    ASSUME NEW p, Listens(p),
           NEW e, e.data \in Seq(InTokens), NEW mark \in InTokens
    PROVE  ReadsOn(p, ReadTo(p, e, mark).p, e, mark, ReadEnds(p, e, mark))
<1> DEFINE start == IF p.busy THEN p ELSE [p EXCEPT !.buf = <<>>]
           old == IF p.unread = <<>> THEN [p |-> start, found |-> FALSE]
                  ELSE Scan(start, p.unread, mark)
           taken == [start EXCEPT !.state = "READ"]
           q == ReadTo(p, e, mark).p
           found == ReadEnds(p, e, mark)
<1>1. /\ ReadTo(p, e, mark) = IF old.found \/ ~TakesNewdata(old.p, e) THEN old
                              ELSE Scan([old.p EXCEPT !.state = "READ"], e.data, mark)
      /\ found = ReadTo(p, e, mark).found
  BY DEF ReadTo, ReadEnds
<1>2. <<>> \in Seq(InTokens) /\ Len(<<>>) = 0 /\ PsockBufsize \in Nat
  BY PsockAssumption
<1>3. /\ Listens(start) /\ start.busy = p.busy /\ start.state = p.state
      /\ start.unread = p.unread /\ start.buf = BufferOf(p)
  BY <1>2 DEF Listens, SockFields, BufferOf
<1>4. /\ Listens(taken) /\ taken.busy = p.busy /\ taken.state = "READ"
      /\ taken.buf = BufferOf(p)
  <2> HIDE DEF start
  <2> QED
    BY <1>3 DEF Listens, SockFields
<1>5. TakesNewdata(start, e) = TakesNewdata(p, e)
  BY <1>3 DEF TakesNewdata
<1> HIDE DEF start, taken
<1>6. CASE p.unread = <<>> /\ ~TakesNewdata(p, e)
  <2>1. q = start /\ found = FALSE
    BY <1>1, <1>5, <1>6
  <2>2. ToRead(p, e) = <<>> /\ ToRead(start, e) = <<>>
    BY <1>3, <1>5, <1>6 DEF ToRead
  <2>3. Then(<<>>, <<>>) = <<>>
    BY <1>2, ThenNothing
  <2>4. Without(mark, <<>>)
    BY DEF Without
  <2>5. start.buf = Cut(BufferOf(p) \o <<>>, PsockBufsize)
    <3>1. BufferOf(p) \in Seq(InTokens) /\ Len(BufferOf(p)) <= PsockBufsize
      BY <1>3 DEF Listens
    <3>2. BufferOf(p) \o <<>> = BufferOf(p)
      BY <3>1, ConcatEmptySeq
    <3> QED
      BY <1>3, <3>1, <3>2 DEF Cut
  <2>6. ReadsUp(mark, FALSE, <<>>, <<>>)
    BY <2>4 DEF ReadsUp
  <2> HIDE DEF q, found
  <2> QED
    BY <1>2, <1>3, <1>6, <2>1, <2>2, <2>3, <2>5, <2>6 DEF ReadsOn, q, found
<1>7. CASE p.unread = <<>> /\ TakesNewdata(p, e)
  <2>1. q = Scan(taken, e.data, mark).p /\ found = Scan(taken, e.data, mark).found
    BY <1>1, <1>5, <1>7 DEF taken
  <2>2. ToRead(p, e) = e.data
    BY <1>7 DEF ToRead
  <2> HIDE DEF q, found
  <2>3. /\ Listens(q) /\ q.busy = taken.busy /\ q.state = "READ"
        /\ ~found => q.unread = <<>>
        /\ ToRead(q, e) = q.unread /\ q.unread \in Seq(InTokens)
        /\ \E front \in Seq(InTokens) :
              /\ e.data = Then(front, ToRead(q, e))
              /\ ReadsUp(mark, found, front, ToRead(q, e))
              /\ q.buf = Cut(taken.buf \o front, PsockBufsize)
    <3>1. IsScan(taken, q, e.data, e, mark, found)
      BY <1>4, <2>1, ScanReadsOn, Zenon
    <3> QED
      BY <3>1, Zenon DEF IsScan
  <2>4. ReadsOn(p, q, e, mark, found)
    BY <1>4, <2>2, <2>3 DEF ReadsOn
  <2> QED
    BY <2>4 DEF q, found
<1>8. CASE p.unread # <<>>
  <2>1. old = Scan(start, p.unread, mark) /\ start.state = "READ"
    BY <1>3, <1>8 DEF Listens
  <2>2. ToRead(p, e) = p.unread /\ p.unread \in Seq(InTokens)
    BY <1>8 DEF ToRead, Listens
  <2>3. /\ Listens(old.p) /\ old.p.busy = start.busy /\ old.p.state = "READ"
        /\ ~old.found => old.p.unread = <<>>
        /\ ToRead(old.p, e) = old.p.unread /\ old.p.unread \in Seq(InTokens)
        /\ \E front \in Seq(InTokens) :
              /\ p.unread = Then(front, ToRead(old.p, e))
              /\ ReadsUp(mark, old.found, front, ToRead(old.p, e))
              /\ old.p.buf = Cut(start.buf \o front, PsockBufsize)
    <3>1. IsScan(start, old.p, p.unread, e, mark, old.found)
      BY <1>3, <2>1, <2>2, ScanReadsOn, Zenon
    <3> HIDE DEF old
    <3> QED
      BY <3>1, Zenon DEF IsScan
  <2>4. ~TakesNewdata(old.p, e)
    BY <2>3 DEF TakesNewdata
  <2>5. q = old.p /\ found = old.found
    BY <1>1, <2>4
  <2> HIDE DEF q, found, old
  <2>6. ReadsOn(p, q, e, mark, found)
    BY <1>3, <2>2, <2>3, <2>5 DEF ReadsOn
  <2> QED
    BY <2>6 DEF q, found
<1> QED
  BY <1>6, <1>7, <1>8

-----------------------------------------------------------------------------
(* What the words of the request say.                                      *)

LEMMA InputIsTokens ==
    /\ "sp" \in InTokens /\ "nl" \in InTokens /\ "GET" \in InTokens /\ "/" \in InTokens
    /\ \A request \in HttpdRequests : request \in Seq(InTokens)
    /\ \A data \in HttpInputs : data \in Seq(InTokens)
    /\ <<>> \in Seq(InTokens) /\ <<"GET", "sp">> \in Seq(InTokens)
<1>1. "sp" \in InTokens /\ "nl" \in InTokens /\ "GET" \in InTokens /\ "/" \in InTokens
  BY DEF InTokens, Junk
<1>2. ASSUME NEW request \in HttpdRequests
      PROVE  request \in Seq(InTokens)
  <2>1. request \in Seq(STRING \ {Junk})
    BY HttpdAssumption
  <2>2. \A i \in DOMAIN request : request[i] \in InTokens
    BY <2>1 DEF InTokens
  <2> QED
    BY <2>1, <2>2, OwnElements
<1>3. ASSUME NEW data \in HttpInputs
      PROVE  data \in Seq(InTokens)
  <2>1. PICK request \in HttpdRequests :
          data \in {Cut(Drop(request, n), m) : n \in 0 .. Len(request), m \in {1, 2, 10}}
    BY DEF HttpInputs, HttpdInputs
  <2>2. PICK n \in 0 .. Len(request), m \in {1, 2, 10} : data = Cut(Drop(request, n), m)
    BY <2>1
  <2>3. request \in Seq(InTokens)
    BY <1>2
  <2>4. n \in Nat /\ m \in Nat
    BY <2>3
  <2> QED
    BY <2>2, <2>3, <2>4, CutThenDrop
<1> QED
  BY <1>1, <1>2, <1>3

\* What comes next is heard, too.
LEMMA HeardGoesOn ==
    ASSUME NEW r \in Seq(InTokens), NEW n \in Nat, NEW said, Heard(r, n, said),
           NEW data \in Seq(InTokens), data # <<>>,
           data = IF Drop(r, n) = <<>> THEN <<"nl">> ELSE Cut(Drop(r, n), Len(data))
    PROVE  Heard(r, IF Drop(r, n) = <<>> THEN n ELSE n + Len(data), Then(said, data))
<1> DEFINE all == Then(said, data)
           rest == Drop(r, n)
           m == Len(data)
           l == Len(said)
<1>1. /\ said \in Seq(InTokens) /\ n = IF l <= Len(r) THEN l ELSE Len(r)
      /\ \A i \in 1 .. l : said[i] = IF i <= Len(r) THEN r[i] ELSE "nl"
  BY DEF Heard
<1>2. /\ all \in Seq(InTokens) /\ Len(all) = l + m
      /\ \A i \in 1 .. l : all[i] = said[i]
      /\ \A i \in 1 .. m : all[l + i] = data[i]
  <2>1. IsThen(InTokens, said, data, all)
    BY <1>1, ThenIs
  <2> QED
    BY <1>1, <2>1 DEF IsThen
<1>3. l \in Nat /\ m \in Nat /\ Len(r) \in Nat /\ n <= Len(r) /\ m > 0
  <2>1. l \in Nat /\ m \in Nat /\ Len(r) \in Nat
    BY <1>1
  <2>2. m # 0
    BY EmptySeq
  <2> QED
    BY <1>1, <2>1, <2>2
<1>4. rest = SubSeq(r, n + 1, Len(r))
  BY <1>3, DropHas
<1>5. rest \in Seq(InTokens) /\ Len(rest) = Len(r) - n /\ \A i \in 1 .. Len(r) - n : rest[i] = r[n + i]
  BY <1>3, <1>4, PartHas
<1> HIDE DEF all, rest, m, l
<1>6. CASE rest = <<>>
  <2>1. n = Len(r)
    BY <1>3, <1>5, <1>6
  <2>2. m = 1 /\ data[1] = "nl"
    BY <1>6 DEF rest, m
  <2>3. l >= Len(r)
    BY <1>1, <1>3, <2>1
  <2>4. ASSUME NEW i \in 1 .. l + m
        PROVE  all[i] = IF i <= Len(r) THEN r[i] ELSE "nl"
    <3>1. CASE i <= l
      BY <1>1, <1>2, <1>3, <3>1
    <3>2. CASE ~(i <= l)
      <4>1. i = l + 1 /\ 1 \in 1 .. m /\ ~(i <= Len(r))
        BY <1>3, <2>2, <2>3, <3>2
      <4> QED
        BY <1>2, <2>2, <4>1
    <3> QED
      BY <3>1, <3>2
  <2>5. n = IF l + m <= Len(r) THEN l + m ELSE Len(r)
    BY <1>3, <2>1, <2>2, <2>3
  <2>6. Heard(r, n, all)
    BY <1>2, <2>4, <2>5 DEF Heard
  <2> QED
    BY <1>6, <2>6 DEF all, rest
<1>7. CASE rest # <<>>
  <2>1. n < Len(r)
    <3>1. Len(rest) # 0
      BY <1>5, <1>7, EmptySeq
    <3> QED
      BY <1>3, <1>5, <3>1
  <2>2. n = l
    BY <1>1, <1>3, <2>1
  <2>3. data = Cut(rest, m)
    BY <1>7 DEF rest, m
  <2>4. m <= Len(rest) /\ \A i \in 1 .. m : data[i] = rest[i]
    <3> DEFINE c == Cut(rest, m)
    <3>1. Len(c) <= Len(rest) /\ \A i \in 1 .. Len(c) : c[i] = rest[i]
      <4>1. IsCut(InTokens, rest, m, c)
        BY <1>3, <1>5, CutIs
      <4> QED
        BY <1>3, <1>5, <4>1 DEF IsCut
    <3> HIDE DEF c
    <3>2. data = c
      BY <2>3 DEF c
    <3> QED
      BY <3>1, <3>2 DEF m
  <2>5. l + m <= Len(r)
    BY <1>3, <1>5, <2>2, <2>4
  <2>6. ASSUME NEW i \in 1 .. l + m
        PROVE  all[i] = IF i <= Len(r) THEN r[i] ELSE "nl"
    <3>1. CASE i <= l
      BY <1>1, <1>2, <1>3, <3>1
    <3>2. CASE ~(i <= l)
      <4>1. i - l \in 1 .. m /\ l + (i - l) = i /\ i <= Len(r) /\ i - l \in 1 .. Len(r) - n
        BY <1>3, <1>5, <2>2, <2>4, <2>5, <3>2
      <4>2. all[i] = data[i - l]
        BY <1>2, <4>1
      <4>3. rest[i - l] = r[n + (i - l)]
        BY <1>5, <4>1
      <4> QED
        BY <2>2, <2>4, <4>1, <4>2, <4>3
    <3> QED
      BY <3>1, <3>2
  <2>7. n + m = IF l + m <= Len(r) THEN l + m ELSE Len(r)
    BY <2>2, <2>5
  <2>8. Heard(r, n + m, all)
    BY <1>2, <2>6, <2>7 DEF Heard
  <2> QED
    BY <1>7, <2>8 DEF all, rest, m
<1> QED
  BY <1>6, <1>7

\* name is the word that line says after the words before it.
HasWord(words, line, said, name) ==
    /\ Len(line) = Len(name) + 1 /\ Len(name) \in Nat
    /\ \A i \in 1 .. Len(name) : line[i] = name[i] /\ name[i] # "sp"
    /\ line[Len(name) + 1] = "sp"
    /\ Len(said) >= Len(words) + (Len(name) + 1)
    /\ \A i \in 1 .. Len(words) : said[i] = words[i]
    /\ \A i \in 1 .. Len(name) : said[Len(words) + i] = name[i]
    /\ said[Len(words) + (Len(name) + 1)] = "sp"

\* A line that ends with a space, at the place where it is in what was said.
LEMMA LineHas ==
    ASSUME NEW words \in Seq(InTokens), NEW line \in Seq(InTokens), NEW back \in Seq(InTokens),
           EndsWith("sp", line)
    PROVE  \E name \in Seq(InTokens) : HasWord(words, line, Then(Then(words, line), back), name)
<1> DEFINE front == Then(words, line)
           said == Then(front, back)
           end == <<"sp">>
<1>1. PICK name \in Seq(InTokens) : line = Then(name, end) /\ Without("sp", name)
  BY DEF EndsWith
<1>2. end \in Seq(InTokens) /\ Len(end) = 1 /\ end[1] = "sp"
  BY InputIsTokens
<1> HIDE DEF end
<1> DEFINE m == Len(name)
           w == Len(words)
<1>3. m \in Nat /\ w \in Nat /\ Len(back) \in Nat
  BY <1>1
<1>4. /\ Len(line) = m + 1 /\ \A i \in 1 .. m : line[i] = name[i]
      /\ line[m + 1] = "sp"
  <2>1. /\ Len(line) = m + Len(end) /\ \A i \in 1 .. m : line[i] = name[i]
        /\ \A i \in 1 .. Len(end) : line[m + i] = end[i]
    <3>1. IsThen(InTokens, name, end, line)
      BY <1>1, <1>2, ThenIs
    <3> QED
      BY <1>1, <1>2, <3>1 DEF IsThen
  <2> QED
    BY <1>2, <2>1
<1>5. /\ front \in Seq(InTokens) /\ Len(front) = w + Len(line)
      /\ \A i \in 1 .. w : front[i] = words[i]
      /\ \A i \in 1 .. Len(line) : front[w + i] = line[i]
  <2>1. IsThen(InTokens, words, line, front)
    BY ThenIs
  <2> QED
    BY <2>1 DEF IsThen
<1> HIDE DEF front
<1>6. /\ Len(said) = Len(front) + Len(back) /\ \A i \in 1 .. Len(front) : said[i] = front[i]
  <2>1. IsThen(InTokens, front, back, said)
    BY <1>5, ThenIs
  <2> QED
    BY <1>5, <2>1 DEF IsThen
<1> HIDE DEF said, m, w
<1>7. Len(said) >= w + (m + 1)
  BY <1>3, <1>4, <1>5, <1>6
<1>8. \A i \in 1 .. w : said[i] = words[i]
  <2>1. \A i \in 1 .. w : i \in 1 .. Len(front)
    BY <1>3, <1>4, <1>5
  <2> QED
    BY <1>5, <1>6, <2>1
<1>9. \A i \in 1 .. m + 1 : said[w + i] = line[i]
  <2>1. \A i \in 1 .. m + 1 : w + i \in 1 .. Len(front) /\ i \in 1 .. Len(line)
    BY <1>3, <1>4, <1>5
  <2> QED
    BY <1>5, <1>6, <2>1
<1>10. \A i \in 1 .. m : said[w + i] = name[i]
  <2>1. \A i \in 1 .. m : i \in 1 .. m + 1
    BY <1>3
  <2> QED
    BY <1>4, <1>9, <2>1
<1>11. said[w + (m + 1)] = "sp"
  <2>1. m + 1 \in 1 .. m + 1
    BY <1>3
  <2> QED
    BY <1>4, <1>9, <2>1
<1>12. \A i \in 1 .. m : line[i] = name[i] /\ name[i] # "sp"
  BY <1>1, <1>4 DEF Without, m
<1>13. HasWord(words, line, said, name)
  BY <1>3, <1>4, <1>7, <1>8, <1>10, <1>11, <1>12 DEF HasWord, m, w
<1> QED
  BY <1>13 DEF said, front

\* The first word of a request is the whole of what is compared with it.
LEMMA MethodIs ==
    ASSUME NEW r \in Seq(InTokens), NEW n, NEW line \in Seq(InTokens), NEW back \in Seq(InTokens),
           EndsWith("sp", line), Heard(r, n, Then(Then(<<>>, line), back))
    PROVE  /\ Cut(line, PsockBufsize) = <<"GET", "sp">> => line = <<"GET", "sp">>
           /\ IsRequest(r) => Cut(line, PsockBufsize) = <<"GET", "sp">>
<1> DEFINE none == <<>>
           said == Then(Then(none, line), back)
           get == <<"GET", "sp">>
           buf == Cut(line, PsockBufsize)
<1>1. none \in Seq(InTokens) /\ Len(none) = 0
  OBVIOUS
<1>2. get \in Seq(InTokens) /\ Len(get) = 2 /\ get[1] = "GET" /\ get[2] = "sp"
  BY InputIsTokens
<1> HIDE DEF none, get
<1>3. PICK name \in Seq(InTokens) : HasWord(none, line, said, name)
  BY <1>1, LineHas, Zenon
<1>4. \A i \in 1 .. Len(said) : said[i] = IF i <= Len(r) THEN r[i] ELSE "nl"
  BY DEF Heard, none
<1> HIDE DEF said
<1>5. PsockBufsize \in Nat /\ PsockBufsize > 1
  BY PsockAssumption, HttpdAssumption
<1>6. /\ buf \in Seq(InTokens) /\ (Len(line) <= PsockBufsize => buf = line)
      /\ (PsockBufsize <= Len(line) => Len(buf) = PsockBufsize)
      /\ \A i \in 1 .. Len(buf) : buf[i] = line[i]
  <2>1. IsCut(InTokens, line, PsockBufsize, buf)
    BY <1>5, CutIs
  <2> QED
    BY <1>5, <2>1 DEF IsCut
<1> HIDE DEF buf
<1> DEFINE m == Len(name)
<1> HIDE DEF m
<1>7. /\ Len(line) = m + 1 /\ m \in Nat
      /\ \A i \in 1 .. m : line[i] = name[i] /\ name[i] # "sp" /\ said[i] = name[i]
      /\ line[m + 1] = "sp" /\ Len(said) >= m + 1 /\ said[m + 1] = "sp" /\ Len(said) \in Nat
  <2>1. \A i \in 1 .. Len(name) : Len(none) + i = i
    BY <1>1
  <2>2. Len(none) + (Len(name) + 1) = Len(name) + 1
    BY <1>1, <1>3 DEF HasWord
  <2>3. Len(said) \in Nat
    BY LenProperties DEF Heard, said, none
  <2> QED
    BY <1>3, <2>1, <2>2, <2>3 DEF m, HasWord
<1>8. ASSUME buf = get
      PROVE  line = get
  <2>1. CASE Len(line) <= PsockBufsize
    BY <1>6, <1>8, <2>1
  <2>2. CASE ~(Len(line) <= PsockBufsize)
    <3>1. Len(buf) = PsockBufsize
      BY <1>5, <1>6, <1>7, <2>2
    <3>2. 2 \in 1 .. m /\ 2 \in 1 .. Len(buf)
      BY <1>2, <1>5, <1>7, <1>8, <2>2, <3>1
    <3>3. buf[2] # "sp"
      BY <1>6, <1>7, <3>2
    <3> QED
      BY <1>2, <1>8, <3>3
  <2> QED
    BY <2>1, <2>2
<1>9. ASSUME IsRequest(r)
      PROVE  buf = get
  <2>1. Len(r) > 3 /\ r[1] = "GET" /\ r[2] = "sp" /\ Len(r) \in Nat
    BY <1>9 DEF IsRequest
  <2>2. said[1] = "GET"
    <3>1. 1 \in 1 .. Len(said) /\ 1 <= Len(r)
      BY <1>7, <2>1
    <3> QED
      BY <1>4, <2>1, <3>1
  <2>3. m # 0
    BY <1>7, <2>2
  <2>4. said[2] = "sp"
    BY <1>4, <1>7, <2>1, <2>3
  <2>5. m = 1
    <3> SUFFICES ASSUME m # 1
                 PROVE  FALSE
      OBVIOUS
    <3>1. 2 \in 1 .. m
      BY <1>7, <2>3
    <3> QED
      BY <1>7, <2>4, <3>1
  <2>6. Len(line) = 2 /\ line[2] = "sp" /\ line[1] = "GET"
    <3>1. 1 \in 1 .. m
      BY <2>5
    <3> QED
      BY <1>7, <2>2, <2>5, <3>1
  <2>7. line = get
    <3>1. \A i \in 1 .. 2 : line[i] = get[i]
      BY <1>2, <2>6
    <3> QED
      BY <1>2, <2>6, <3>1, SeqEqual
  <2>8. Len(line) <= PsockBufsize
    BY <1>5, <2>6
  <2> QED
    BY <1>6, <2>7, <2>8
<1> QED
  BY <1>8, <1>9 DEF buf, get

\* The second word of a request is the name of a page.
LEMMA PathIs ==
    ASSUME NEW r \in Seq(InTokens), NEW n, NEW line \in Seq(InTokens), NEW back \in Seq(InTokens),
           EndsWith("sp", line), Heard(r, n, Then(Then(<<"GET", "sp">>, line), back))
    PROVE  LET buf == Cut(line, PsockBufsize)
           IN  IF buf[1] = "/" THEN IsRequest(r) /\ NameIn(buf) = Named(r) ELSE ~IsRequest(r)
<1> DEFINE get == <<"GET", "sp">>
           said == Then(Then(get, line), back)
           buf == Cut(line, PsockBufsize)
<1>2. get \in Seq(InTokens) /\ Len(get) = 2 /\ get[1] = "GET" /\ get[2] = "sp"
  BY InputIsTokens
<1> HIDE DEF get
<1>3. PICK name \in Seq(InTokens) : HasWord(get, line, said, name)
  BY <1>2, LineHas, Zenon
<1>4. (\A i \in 1 .. Len(said) : said[i] = IF i <= Len(r) THEN r[i] ELSE "nl") /\ Len(said) \in Nat
  BY LenProperties DEF Heard, get
<1> HIDE DEF said
<1> DEFINE B == PsockBufsize
           m == Len(name)
<1>5. B \in Nat /\ B > 1
  BY PsockAssumption, HttpdAssumption
<1>6. /\ buf \in Seq(InTokens) /\ (Len(line) <= B => buf = line)
      /\ (B <= Len(line) => Len(buf) = B)
      /\ \A i \in 1 .. Len(buf) : buf[i] = line[i]
  <2>1. IsCut(InTokens, line, B, buf)
    BY <1>5, CutIs
  <2> QED
    BY <1>5, <2>1 DEF IsCut
<1>7. /\ Len(line) = m + 1 /\ m \in Nat
      /\ \A i \in 1 .. m : line[i] = name[i] /\ name[i] # "sp" /\ said[2 + i] = name[i]
      /\ line[m + 1] = "sp" /\ Len(said) >= m + 3 /\ said[m + 3] = "sp"
      /\ said[1] = "GET" /\ said[2] = "sp"
  <2>1. 2 + (Len(name) + 1) = m + 3
    BY <1>3 DEF HasWord
  <2> QED
    BY <1>2, <1>3, <2>1 DEF HasWord
<1> HIDE DEF B, buf, m
<1>8. Len(buf) \in Nat /\ Len(buf) >= 1 /\ buf[1] = line[1]
  <2>1. Len(buf) \in Nat
    BY <1>6
  <2>2. Len(buf) >= 1
    BY <1>5, <1>6, <1>7
  <2> QED
    BY <1>6, <2>1, <2>2
<1>9. ASSUME buf[1] # "/"
      PROVE  ~IsRequest(r)
  <2> SUFFICES ASSUME IsRequest(r)
               PROVE  FALSE
    OBVIOUS
  <2>1. r[3] = "/" /\ Len(r) > 3 /\ Len(r) \in Nat
    BY DEF IsRequest
  <2>2. said[3] = "/"
    <3>1. 3 \in 1 .. Len(said) /\ 3 <= Len(r)
      BY <1>4, <1>7, <2>1
    <3> QED
      BY <1>4, <2>1, <3>1
  <2>3. m # 0
    BY <1>7, <2>2
  <2>4. said[3] = name[1] /\ line[1] = name[1]
    <3>1. 1 \in 1 .. m /\ 2 + 1 = 3
      BY <1>7, <2>3
    <3> QED
      BY <1>7, <3>1
  <2> QED
    BY <1>8, <1>9, <2>2, <2>4
<1>10. ASSUME buf[1] = "/"
       PROVE  IsRequest(r) /\ NameIn(buf) = Named(r)
  <2>1. m \in Nat \ {0}
    <3>1. line[1] = "/"
      BY <1>8, <1>10
    <3> QED
      BY <1>7, <3>1
  <2>2. Len(r) \in Nat /\ m + 3 <= Len(r)
    <3>1. Len(r) \in Nat
      OBVIOUS
    <3>2. m + 3 \in 1 .. Len(said)
      BY <1>4, <1>7
    <3>3. said[m + 3] = IF m + 3 <= Len(r) THEN r[m + 3] ELSE "nl"
      BY <1>4, <3>2
    <3> QED
      BY <1>7, <3>1, <3>3
  <2>3. \A i \in 1 .. m + 3 : r[i] = said[i]
    <3>1. \A i \in 1 .. m + 3 : i \in 1 .. Len(said) /\ i <= Len(r)
      BY <1>4, <1>7, <2>2
    <3> QED
      BY <1>4, <3>1
  <2>4. \A i \in 1 .. m : r[2 + i] = name[i]
    <3>1. \A i \in 1 .. m : 2 + i \in 1 .. m + 3
      BY <2>1
    <3> QED
      BY <1>7, <2>3, <3>1
  <2>5. r[1] = "GET" /\ r[2] = "sp" /\ r[m + 3] = "sp"
    <3>1. 1 \in 1 .. m + 3 /\ 2 \in 1 .. m + 3 /\ m + 3 \in 1 .. m + 3
      BY <2>1
    <3> QED
      BY <1>7, <2>3, <3>1
  <2>6. r[3] = "/" /\ name[1] = "/"
    <3>1. 1 \in 1 .. m /\ 2 + 1 = 3
      BY <2>1
    <3> QED
      BY <1>7, <1>8, <1>10, <2>4, <3>1
  <2> DEFINE T == Spaces(r)
  <2>7. m + 3 \in T /\ T \subseteq Nat /\ \A i \in T : m + 3 <= i
    <3>1. m + 3 \in 4 .. Len(r)
      BY <2>1, <2>2
    <3>2. T \subseteq Nat
      BY DEF Spaces
    <3>3. ASSUME NEW i \in T
          PROVE  m + 3 <= i
      <4>1. i \in 4 .. Len(r) /\ r[i] = "sp"
        BY DEF Spaces
      <4> SUFFICES ASSUME ~(m + 3 <= i)
                   PROVE  FALSE
        OBVIOUS
      <4>2. i - 2 \in 1 .. m /\ 2 + (i - 2) = i
        BY <2>1, <4>1
      <4>3. r[i] = name[i - 2]
        BY <2>4, <4>2
      <4> QED
        BY <1>7, <4>1, <4>2, <4>3
    <3> QED
      BY <2>5, <3>1, <3>2, <3>3 DEF Spaces
  <2> HIDE DEF T
  <2>8. Min(T) = m + 3
    <3>1. Min(T) \in T /\ \A k \in T : Min(T) <= k
      BY <2>7, Printed!LeastIsThere DEF Min
    <3>2. Min(T) \in Nat /\ Min(T) <= m + 3 /\ m + 3 <= Min(T)
      BY <2>7, <3>1
    <3> QED
      BY <2>1, <3>2
  <2>9. IsRequest(r)
    BY <2>1, <2>2, <2>5, <2>6, <2>7 DEF IsRequest, T
  <2>10. SubSeq(r, 3, Min(T) - 1) = name
    <3> DEFINE s == SubSeq(r, 2 + 1, m + 2)
    <3>1. 2 \in Nat /\ m + 2 \in Nat /\ 2 <= m + 2 /\ m + 2 <= Len(r) /\ (m + 2) - 2 = m
      BY <2>1, <2>2
    <3>2. s \in Seq(InTokens) /\ Len(s) = (m + 2) - 2 /\ \A i \in 1 .. (m + 2) - 2 : s[i] = r[2 + i]
      BY <3>1, PartHas
    <3> HIDE DEF s
    <3>3. Len(s) = Len(name) /\ \A i \in 1 .. Len(s) : s[i] = name[i]
      BY <2>4, <3>1, <3>2 DEF m
    <3>4. s = name
      BY <3>2, <3>3, SeqEqual
    <3>5. Min(T) - 1 = m + 2 /\ 2 + 1 = 3
      BY <2>1, <2>8
    <3> QED
      BY <3>4, <3>5 DEF s
  <2>11. Named(r) = IF name = <<"/">> THEN Index ELSE Cut(name, B - 1)
    BY <2>10 DEF Named, T, B
  <2>12. Len(buf) >= 2 /\ buf[2] = line[2]
    <3>1. Len(buf) >= 2
      BY <1>5, <1>6, <1>7, <1>8, <2>1
    <3>2. 2 \in 1 .. Len(buf)
      BY <1>8, <3>1
    <3> QED
      BY <1>6, <3>1, <3>2
  <2>13. CASE m = 1
    <3>1. buf[2] = "sp"
      BY <1>7, <2>12, <2>13
    <3> DEFINE slash == <<"/">>
    <3>2. slash \in Seq(InTokens) /\ Len(slash) = 1 /\ slash[1] = "/"
      BY InputIsTokens
    <3> HIDE DEF slash
    <3>3. Len(name) = Len(slash) /\ \A i \in 1 .. Len(name) : name[i] = slash[i]
      BY <2>6, <2>13, <3>2 DEF m
    <3>4. name = slash
      BY <3>2, <3>3, SeqEqual
    <3> QED
      BY <2>9, <2>11, <3>1, <3>4 DEF slash, NameIn
  <2>14. CASE m # 1
    <3>1. buf[2] # "sp"
      <4>1. 2 \in 1 .. m
        BY <2>1, <2>14
      <4> QED
        BY <1>7, <2>12, <4>1
    <3>2. name # <<"/">>
      <4>1. Len(<<"/">>) = 1
        OBVIOUS
      <4> QED
        BY <2>14, <4>1 DEF m
    <3>3. Cut(buf, Len(buf) - 1) = Cut(name, B - 1)
      <4> DEFINE k == Len(buf) - 1
                 c == Cut(buf, k)
                 d == Cut(name, B - 1)
      <4>1. k \in Nat /\ B - 1 \in Nat /\ k <= Len(buf)
        BY <1>5, <1>8
      <4>2. /\ c \in Seq(InTokens) /\ (k <= Len(buf) => Len(c) = k)
            /\ \A i \in 1 .. Len(c) : c[i] = buf[i]
        <5>1. IsCut(InTokens, buf, k, c)
          BY <1>6, <4>1, CutIs
        <5> QED
          BY <1>6, <4>1, <5>1 DEF IsCut
      <4>3. /\ d \in Seq(InTokens) /\ (Len(name) <= B - 1 => d = name)
            /\ (B - 1 <= Len(name) => Len(d) = B - 1)
            /\ \A i \in 1 .. Len(d) : d[i] = name[i]
        <5>1. IsCut(InTokens, name, B - 1, d)
          BY <4>1, CutIs
        <5> QED
          BY <4>1, <5>1 DEF IsCut
      <4>4. Len(c) = k /\ k <= m
        <5>1. Len(c) = k
          BY <4>1, <4>2
        <5>2. Len(buf) <= m + 1
          <6>1. CASE Len(line) <= B
            BY <1>6, <1>7, <6>1
          <6>2. CASE ~(Len(line) <= B)
            BY <1>5, <1>6, <1>7, <6>2
          <6> QED
            BY <6>1, <6>2
        <5> QED
          BY <1>7, <1>8, <5>1, <5>2
      <4> HIDE DEF c, d
      <4>5. Len(d) = k
        <5>1. CASE Len(line) <= B
          <6>1. k = m /\ Len(name) <= B - 1 /\ Len(name) = m
            BY <1>5, <1>6, <1>7, <5>1 DEF m
          <6> QED
            BY <4>3, <6>1
        <5>2. CASE ~(Len(line) <= B)
          <6>1. k = B - 1 /\ B - 1 <= Len(name)
            BY <1>5, <1>6, <1>7, <5>2 DEF m
          <6> QED
            BY <4>3, <6>1
        <5> QED
          BY <5>1, <5>2
      <4>6. ASSUME NEW i \in 1 .. Len(c)
            PROVE  c[i] = d[i]
        <5>1. i \in 1 .. Len(buf) /\ i \in 1 .. m /\ i \in 1 .. Len(d)
          BY <1>7, <1>8, <4>1, <4>4, <4>5
        <5> QED
          BY <1>6, <1>7, <4>2, <4>3, <5>1
      <4>7. c = d
        BY <4>2, <4>3, <4>4, <4>5, <4>6, SeqEqual
      <4> QED
        BY <4>7 DEF c, d
    <3> QED
      BY <2>9, <2>11, <3>1, <3>2, <3>3 DEF NameIn
  <2> QED
    BY <2>13, <2>14
<1> QED
  BY <1>9, <1>10 DEF buf

-----------------------------------------------------------------------------
(* What is left of the page, as the page is sent.                          *)

LEMMA WordsAreTokens ==
    /\ \A word \in HttpWords : <<word>> \in Seq(HttpTokens)
    /\ <<>> \in Seq(HttpTokens)
    /\ \A name : <<TypeOf(name)>> \in Seq(HttpTokens)
<1>1. \A word \in HttpWords : <<word>> \in Seq(HttpTokens)
  BY DEF HttpTokens
<1>2. \A name : TypeOf(name) \in HttpWords
  BY TypeIsWord
<1>3. <<>> \in Seq(HttpTokens)
  OBVIOUS
<1> QED
  BY <1>1, <1>2, <1>3

LEMMA WholeFileIsTokens ==
    ASSUME NEW h, IsHttp(h)
    PROVE  WholeFile(h) \in Seq(HttpTokens)
<1>1. h.file \in Seq(HttpTokens)
  BY DEF IsHttp
<1>2. ShownAll(h.file) \in Seq(HttpTokens)
  BY <1>1, LinesAreShown
<1> QED
  BY <1>1, <1>2 DEF WholeFile

LEMMA LeftIsTokens ==
    ASSUME NEW h, IsHttp(h), NEW p, IsSock(HttpTokens, p), NEW e
    PROVE  /\ LeftNow(h, p, e) \in Seq(HttpTokens)
           /\ LeftThen(h) \in Seq(HttpTokens)
           /\ Left(h, p, e) \in Seq(HttpTokens)
<1>1. h.file \in Seq(HttpTokens) /\ h.script \in Seq(HttpTokens) /\ h.report \in Seq(HttpTokens)
      /\ h.len \in Nat /\ AppMss \in Nat
  BY AppAssumption DEF IsHttp
<1>2. LeftNow(h, p, e) \in Seq(HttpTokens)
  <2>1. CASE IsText(h)
    <3>1. Text(h) \in Seq(HttpTokens)
      BY <2>1, TextIsTokens DEF IsText
    <3>2. SendRest(p, Text(h), e) \in Seq(HttpTokens)
      BY <3>1, SendsBlock
    <3> QED
      BY <2>1, <3>2 DEF LeftNow, IsText
  <2>2. CASE h.pc \in {"file", "include"}
    <3>1. Drop(h.file, AppMss) \in Seq(HttpTokens)
      BY <1>1, DropIsRest
    <3> QED
      BY <1>1, <2>2, <3>1 DEF LeftNow, IsText
  <2>3. CASE h.pc = "report"
    <3>1. CASE h.report = <<>>
      BY <1>1, <2>3, <3>1, WordsAreTokens DEF LeftNow, IsText
    <3>2. CASE h.report # <<>>
      <4>1. Tail(h.report) \in Seq(HttpTokens)
        BY <1>1, <3>2, HeadThenTail
      <4> QED
        BY <1>1, <2>3, <4>1 DEF LeftNow, IsText
    <3> QED
      BY <3>1, <3>2
  <2>4. CASE h.pc \in {"open", "close"}
    BY <2>4, WordsAreTokens DEF LeftNow, IsText
  <2> QED
    BY <2>1, <2>2, <2>3, <2>4 DEF IsHttp, HttpStatements, IsText
<1>3. LeftThen(h) \in Seq(HttpTokens)
  <2>1. CASE h.pc = "status"
    <3>1. Then(<<TypeOf(h.name)>>, WholeFile(h)) \in Seq(HttpTokens)
      BY WordsAreTokens, WholeFileIsTokens, ConcatProperties DEF Then
    <3> QED
      BY <2>1, <3>1 DEF LeftThen
  <2>2. CASE h.pc = "type"
    BY <2>2, WholeFileIsTokens DEF LeftThen
  <2>3. CASE h.pc = "part"
    <3>1. ShownAll(Drop(h.file, h.len)) \in Seq(HttpTokens)
      BY <1>1, DropIsRest, LinesAreShown
    <3> QED
      BY <2>3, <3>1 DEF LeftThen
  <2>4. CASE h.pc \in {"include", "report"}
    <3>1. ShownAll(h.script) \in Seq(HttpTokens)
      BY <1>1, LinesAreShown
    <3> QED
      BY <2>4, <3>1 DEF LeftThen
  <2>5. CASE h.pc \in {"open", "file", "close"}
    BY <2>5, WordsAreTokens DEF LeftThen
  <2> QED
    BY <2>1, <2>2, <2>3, <2>4, <2>5 DEF IsHttp, HttpStatements
<1> QED
  BY <1>2, <1>3, ConcatProperties DEF Left, Then

\* What is left of the page does not depend on the request.
SamePage(h, k) ==
    /\ k.pc = h.pc /\ k.name = h.name /\ k.status = h.status /\ k.file = h.file
    /\ k.script = h.script /\ k.len = h.len /\ k.report = h.report

LEMMA LeftOfSame ==
    ASSUME NEW h, NEW k, SamePage(h, k), NEW p, NEW e
    PROVE  Left(k, p, e) = Left(h, p, e)
<1>1. Text(k) = Text(h) /\ (IsText(k) <=> IsText(h)) /\ WholeFile(k) = WholeFile(h)
  BY DEF SamePage, Text, IsText, WholeFile, Scripted
<1>2. LeftNow(k, p, e) = LeftNow(h, p, e)
  BY <1>1 DEF SamePage, LeftNow
<1>3. LeftThen(k) = LeftThen(h)
  BY <1>1 DEF SamePage, LeftThen
<1> QED
  BY <1>2, <1>3 DEF Left

\* What a protosocket that is not busy has to send at a statement.
LEMMA LeftAtOnce ==
    ASSUME NEW h, NEW p, ~p.busy, NEW e
    PROVE  LeftNow(h, p, e) = CASE IsText(h) -> Text(h)
                                [] h.pc \in {"file", "include"} -> h.file
                                [] h.pc = "report" -> h.report
                                [] OTHER -> <<>>
BY DEF LeftNow, SendRest, IsText

\* A statement after which the page goes on.
GoesOnWith(h, k, p, e, left) ==
    /\ k.name = h.name /\ k.status = h.status /\ k.output = h.output /\ k.sin = h.sin
    /\ k.timer = h.timer /\ k.len <= AppMss /\ k.pc # "open"
    /\ Left(k, p, e) = left

LEMMA NothingIsShown == ShownAll(<<>>) = <<>>
<1> DEFINE none == <<>>
<1>1. none \in Seq(HttpTokens) /\ Len(none) = 0
  OBVIOUS
<1> HIDE DEF none
<1>2. \A i \in 1 .. Len(none) : IsPlain(none[i])
  BY <1>1
<1>3. ShownAll(none) = none
  BY <1>1, <1>2, PlainIsShown
<1> QED
  BY <1>3 DEF none

\* A script shows what is left of it, line by line.
LEMMA ScriptGoesOn ==
    ASSUME NEW h, IsHttp(h), h.len <= AppMss, NEW file \in Seq(HttpTokens),
           NEW p, IsSock(HttpTokens, p), ~p.busy, NEW e
    PROVE  GoesOnWith(h, Script(h, file), p, e, ShownAll(file))
<1> DEFINE k == Script(h, file)
           included == TextOf(HttpdInclude[file[1]])
           reported == HttpdReport[file[1]]
           part == PartLen(file)
           rest == Tail(file)
<1>1. CASE file = <<>>
  <2>1. k = [h EXCEPT !.pc = "close", !.file = <<>>]
    BY <1>1 DEF Script
  <2> HIDE DEF k
  <2>2. /\ k.pc = "close" /\ k.name = h.name /\ k.status = h.status /\ k.output = h.output
        /\ k.sin = h.sin /\ k.timer = h.timer /\ k.len = h.len
    BY <2>1 DEF IsHttp, HttpFields
  <2>3. LeftNow(k, p, e) = <<>> /\ LeftThen(k) = <<>>
    BY <2>2, LeftAtOnce DEF LeftThen, IsText
  <2>4. Then(<<>>, <<>>) = <<>>
    BY WordsAreTokens, ThenNothing
  <2> QED
    BY <1>1, <2>2, <2>3, <2>4, NothingIsShown DEF GoesOnWith, Left, k
<1>2. CASE file # <<>>
  <2>0. ShownAll(file) = Then(Shown(file[1]), ShownAll(rest))
    BY <1>2, HeadIsShown
  <2>1. CASE file[1] \in DOMAIN HttpdInclude
    <3>1. k = [h EXCEPT !.pc = "include", !.script = rest, !.file = included]
      BY <1>2, <2>1 DEF Script
    <3>2. Shown(file[1]) = included
      BY <2>1 DEF Shown
    <3> HIDE DEF k, included, rest
    <3>3. /\ k.pc = "include" /\ k.name = h.name /\ k.status = h.status /\ k.output = h.output
          /\ k.sin = h.sin /\ k.timer = h.timer /\ k.len = h.len /\ k.script = rest /\ k.file = included
      BY <3>1 DEF IsHttp, HttpFields
    <3>4. LeftNow(k, p, e) = included /\ LeftThen(k) = ShownAll(rest)
      BY <3>3, LeftAtOnce DEF LeftThen, IsText
    <3> QED
      BY <2>0, <3>2, <3>3, <3>4 DEF GoesOnWith, Left, k
  <2>2. CASE file[1] \notin DOMAIN HttpdInclude /\ file[1] \in DOMAIN HttpdReport
    <3>1. k = [h EXCEPT !.pc = "report", !.script = rest, !.report = reported]
      BY <1>2, <2>2 DEF Script
    <3>2. Shown(file[1]) = reported
      BY <2>2 DEF Shown
    <3> HIDE DEF k, reported, rest
    <3>3. /\ k.pc = "report" /\ k.name = h.name /\ k.status = h.status /\ k.output = h.output
          /\ k.sin = h.sin /\ k.timer = h.timer /\ k.len = h.len /\ k.script = rest /\ k.report = reported
      BY <3>1 DEF IsHttp, HttpFields
    <3>4. LeftNow(k, p, e) = reported /\ LeftThen(k) = ShownAll(rest)
      BY <3>3, LeftAtOnce DEF LeftThen, IsText
    <3> QED
      BY <2>0, <3>2, <3>3, <3>4 DEF GoesOnWith, Left, k
  <2>3. CASE IsPlain(file[1])
    <3>1. k = [h EXCEPT !.pc = "part", !.file = file, !.len = part]
      BY <1>2, <2>3 DEF Script, IsPlain
    <3>2. part \in Nat /\ part <= AppMss
          /\ Then(Cut(file, part), ShownAll(Drop(file, part))) = ShownAll(file)
      BY <1>2, <2>3, PartIsShown
    <3> HIDE DEF k, part
    <3>3. /\ k.pc = "part" /\ k.name = h.name /\ k.status = h.status /\ k.output = h.output
          /\ k.sin = h.sin /\ k.timer = h.timer /\ k.len = part /\ k.file = file
      BY <3>1 DEF IsHttp, HttpFields
    <3>4. Text(k) = Cut(file, part)
      BY <3>3 DEF Text
    <3>5. LeftNow(k, p, e) = Cut(file, part) /\ LeftThen(k) = ShownAll(Drop(file, part))
      BY <3>3, <3>4, LeftAtOnce DEF LeftThen, IsText
    <3> QED
      BY <3>2, <3>3, <3>5 DEF GoesOnWith, Left, k
  <2> QED
    BY <2>1, <2>2, <2>3 DEF IsPlain
<1> QED
  BY <1>1, <1>2

\* The text of a statement has been sent.
LEMMA StatementGoesOn ==
    ASSUME NEW h, IsHttp(h), h.len <= AppMss, IsText(h),
           NEW p, IsSock(HttpTokens, p), ~p.busy, NEW e
    PROVE  GoesOnWith(h, AfterText(h), p, e, LeftThen(h))
<1> DEFINE typed == [h EXCEPT !.pc = "type"]
           filed == [h EXCEPT !.pc = "file"]
           k == AfterText(h)
<1>1. h.file \in Seq(HttpTokens) /\ h.len \in Nat
  BY DEF IsHttp
<1>2. CASE h.pc = "status"
  <2>1. k = typed
    BY <1>2 DEF AfterText
  <2> HIDE DEF k
  <2>2. /\ k.pc = "type" /\ k.name = h.name /\ k.status = h.status /\ k.output = h.output
        /\ k.sin = h.sin /\ k.timer = h.timer /\ k.len = h.len /\ k.file = h.file
    BY <2>1 DEF IsHttp, HttpFields
  <2>3. Text(k) = <<TypeOf(h.name)>> /\ WholeFile(k) = WholeFile(h)
    BY <2>2 DEF Text, WholeFile, Scripted
  <2>4. LeftNow(k, p, e) = <<TypeOf(h.name)>>
    BY <2>2, <2>3, LeftAtOnce DEF IsText
  <2>5. LeftThen(k) = WholeFile(h)
    BY <2>2, <2>3 DEF LeftThen
  <2>6. LeftThen(h) = Then(<<TypeOf(h.name)>>, WholeFile(h))
    BY <1>2 DEF LeftThen
  <2> QED
    BY <2>2, <2>4, <2>5, <2>6 DEF GoesOnWith, Left, k
<1>3. CASE h.pc = "type" /\ Scripted(h)
  <2>1. k = Script(h, h.file)
    BY <1>3 DEF AfterText, Scripted
  <2>2. LeftThen(h) = ShownAll(h.file)
    BY <1>3 DEF LeftThen, WholeFile
  <2>3. GoesOnWith(h, Script(h, h.file), p, e, ShownAll(h.file))
    BY <1>1, ScriptGoesOn
  <2> QED
    BY <2>1, <2>2, <2>3
<1>4. CASE h.pc = "type" /\ ~Scripted(h)
  <2>1. k = filed
    BY <1>4 DEF AfterText, Scripted
  <2> HIDE DEF k
  <2>2. /\ k.pc = "file" /\ k.name = h.name /\ k.status = h.status /\ k.output = h.output
        /\ k.sin = h.sin /\ k.timer = h.timer /\ k.len = h.len /\ k.file = h.file
    BY <2>1 DEF IsHttp, HttpFields
  <2>3. LeftNow(k, p, e) = h.file /\ LeftThen(k) = <<>>
    BY <2>2, LeftAtOnce DEF IsText, LeftThen
  <2>4. LeftThen(h) = h.file
    BY <1>4 DEF LeftThen, WholeFile
  <2>5. Then(h.file, <<>>) = h.file
    BY <1>1, ThenNothing
  <2> QED
    BY <2>2, <2>3, <2>4, <2>5 DEF GoesOnWith, Left, k
<1>5. CASE h.pc = "part"
  <2> DEFINE rest == Drop(h.file, h.len)
  <2>1. k = Script(h, rest)
    BY <1>5 DEF AfterText
  <2>2. LeftThen(h) = ShownAll(rest)
    BY <1>5 DEF LeftThen
  <2>3. rest \in Seq(HttpTokens)
    BY <1>1, DropIsRest
  <2>4. GoesOnWith(h, Script(h, rest), p, e, ShownAll(rest))
    BY <2>3, ScriptGoesOn
  <2> QED
    BY <2>1, <2>2, <2>4
<1> QED
  <2>1. h.pc \in {"status", "type", "part"}
    BY DEF IsText
  <2> QED
    BY <1>2, <1>3, <1>4, <1>5, <2>1

\* A segment of a file has been sent.
LEMMA FileGoesOn ==
    ASSUME NEW h, IsHttp(h), h.len <= AppMss, h.pc \in {"file", "include"},
           NEW p, IsSock(HttpTokens, p), ~p.busy, NEW e
    PROVE  GoesOnWith(h, SentFile(h), p, e, Then(Drop(h.file, AppMss), LeftThen(h)))
<1> DEFINE rest == Drop(h.file, AppMss)
           k == SentFile(h)
<1>1. /\ h.file \in Seq(HttpTokens) /\ h.script \in Seq(HttpTokens) /\ AppMss \in Nat
  BY AppAssumption DEF IsHttp
<1>2. rest \in Seq(HttpTokens)
  BY <1>1, DropIsRest
<1>3. CASE rest # <<>>
  <2>1. k = [h EXCEPT !.file = rest]
    BY <1>3 DEF SentFile
  <2> HIDE DEF k, rest
  <2>2. /\ k.pc = h.pc /\ k.name = h.name /\ k.status = h.status /\ k.output = h.output
        /\ k.sin = h.sin /\ k.timer = h.timer /\ k.len = h.len /\ k.file = rest /\ k.script = h.script
    BY <2>1 DEF IsHttp, HttpFields
  <2>3. LeftNow(k, p, e) = rest
    BY <2>2, LeftAtOnce DEF IsText
  <2>4. LeftThen(k) = LeftThen(h)
    BY <2>2 DEF LeftThen
  <2> QED
    BY <2>2, <2>3, <2>4 DEF GoesOnWith, Left, k, rest
<1>4. CASE rest = <<>> /\ h.pc = "file"
  <2>1. k = [h EXCEPT !.file = <<>>, !.pc = "close"]
    BY <1>4 DEF SentFile
  <2> HIDE DEF k
  <2>2. /\ k.pc = "close" /\ k.name = h.name /\ k.status = h.status /\ k.output = h.output
        /\ k.sin = h.sin /\ k.timer = h.timer /\ k.len = h.len
    BY <2>1 DEF IsHttp, HttpFields
  <2>3. LeftNow(k, p, e) = <<>> /\ LeftThen(k) = <<>>
    BY <2>2, LeftAtOnce DEF IsText, LeftThen
  <2>4. LeftThen(h) = <<>>
    BY <1>4 DEF LeftThen
  <2> QED
    BY <1>4, <2>2, <2>3, <2>4 DEF GoesOnWith, Left, k
<1>5. CASE rest = <<>> /\ h.pc = "include"
  <2>1. k = Script(h, h.script)
    BY <1>5 DEF SentFile
  <2>2. LeftThen(h) = ShownAll(h.script)
    BY <1>5 DEF LeftThen
  <2>3. GoesOnWith(h, Script(h, h.script), p, e, ShownAll(h.script))
    BY <1>1, ScriptGoesOn
  <2>4. ShownAll(h.script) \in Seq(HttpTokens)
    BY <1>1, LinesAreShown
  <2>5. Then(<<>>, ShownAll(h.script)) = ShownAll(h.script)
    BY <2>4, ThenNothing
  <2> QED
    BY <1>5, <2>1, <2>2, <2>3, <2>5
<1> QED
  BY <1>3, <1>4, <1>5

\* A line of a report has been sent, or all of them.
LEMMA ReportGoesOn ==
    ASSUME NEW h, IsHttp(h), h.len <= AppMss, h.pc = "report", h.report # <<>>,
           NEW p, IsSock(HttpTokens, p), ~p.busy, NEW e
    PROVE  GoesOnWith(h, [h EXCEPT !.report = Tail(@)], p, e, Then(Tail(h.report), LeftThen(h)))
<1> DEFINE rest == Tail(h.report)
           k == [h EXCEPT !.report = rest]
<1> HIDE DEF rest
<1>1. /\ k.pc = "report" /\ k.name = h.name /\ k.status = h.status /\ k.output = h.output
      /\ k.sin = h.sin /\ k.timer = h.timer /\ k.len = h.len /\ k.report = rest /\ k.script = h.script
  BY DEF IsHttp, HttpFields
<1> HIDE DEF k
<1>2. LeftNow(k, p, e) = rest
  BY <1>1, LeftAtOnce DEF IsText
<1>3. LeftThen(k) = LeftThen(h)
  BY <1>1 DEF LeftThen
<1>4. GoesOnWith(h, k, p, e, Then(rest, LeftThen(h)))
  BY <1>1, <1>2, <1>3 DEF GoesOnWith, Left
<1> QED
  BY <1>4 DEF k, rest

LEMMA ReportEnds ==
    ASSUME NEW h, IsHttp(h), h.len <= AppMss, h.pc = "report", h.report = <<>>,
           NEW p, IsSock(HttpTokens, p), ~p.busy, NEW e
    PROVE  GoesOnWith(h, Script(h, h.script), p, e, Left(h, p, e))
<1>1. h.script \in Seq(HttpTokens)
  BY DEF IsHttp
<1>2. GoesOnWith(h, Script(h, h.script), p, e, ShownAll(h.script))
  BY <1>1, ScriptGoesOn
<1>3. LeftNow(h, p, e) = <<>> /\ LeftThen(h) = ShownAll(h.script)
  BY LeftAtOnce DEF IsText, LeftThen
<1>4. ShownAll(h.script) \in Seq(HttpTokens)
  BY <1>1, LinesAreShown
<1>5. Left(h, p, e) = ShownAll(h.script)
  BY <1>3, <1>4, ThenNothing DEF Left
<1> QED
  BY <1>2, <1>5

\* The page is opened: its status, its type and its file are all of it.
JoinsPair(a, b, s) == <<a, b>> \o s = Then(<<a>>, Then(<<b>>, s))

LEMMA PairJoins ==
    ASSUME NEW S, NEW a \in S, NEW b \in S, NEW s \in Seq(S)
    PROVE  JoinsPair(a, b, s)
<1> DEFINE x == <<a>>
           y == <<b>>
<1>0. <<a>> \in Seq(S) /\ <<b>> \in Seq(S)
  OBVIOUS
<1>1. <<a>> \in Seq(S) /\ <<b>> \in Seq(S) /\ <<a>> \o <<b>> = <<a, b>>
  <2> DEFINE c == Then(x, y)
             d == <<a, b>>
  <2>1. Len(x) = 1 /\ Len(y) = 1 /\ x[1] = a /\ y[1] = b
    OBVIOUS
  <2>2. d \in Seq(S) /\ Len(d) = 2 /\ d[1] = a /\ d[2] = b
    OBVIOUS
  <2> HIDE DEF x, y, d
  <2>3. IsThen(S, x, y, c)
    BY <1>0, ThenIs DEF x, y
  <2> HIDE DEF c
  <2>4. c \in Seq(S) /\ Len(c) = 2 /\ c[1] = a /\ c[2] = b
    <3>1. 1 \in 1 .. Len(x) /\ 1 \in 1 .. Len(y) /\ Len(x) + 1 = 2
      BY <2>1
    <3> QED
      BY <2>1, <2>3, <3>1 DEF IsThen
  <2>5. \A i \in 1 .. Len(c) : c[i] = d[i]
    BY <2>2, <2>4
  <2>6. c = d
    BY <2>2, <2>4, <2>5, SeqEqual
  <2> QED
    BY <1>0, <2>6 DEF c, d, x, y, Then
<1> HIDE DEF x, y
<1>2. x \in Seq(S) /\ y \in Seq(S)
  BY <1>0 DEF x, y
<1>3. Then(Then(x, y), s) = Then(x, Then(y, s))
  BY <1>2, ThenIsFlat
<1>4. Then(x, y) = <<a, b>>
  BY <1>1 DEF x, y, Then
<1>5. Then(<<a, b>>, s) = Then(x, Then(y, s))
  BY <1>3, <1>4
<1> QED
  BY <1>5 DEF Then, x, y, JoinsPair

\* The files that httpd_fs_open() finds for a name are those it stands for.
LEMMA PrefixIs ==
    ASSUME NEW S, NEW s \in Seq(S), NEW t \in Seq(S)
    PROVE  IsPrefix(s, t) <=> Len(s) <= Len(t) /\ \A j \in 1 .. Len(s) : s[j] = t[j]
<1>1. Len(s) \in Nat /\ Len(t) \in Nat /\ SubSeq(s, 1, Len(s)) = s
  BY SubSeqFull
<1>2. ASSUME Len(s) <= Len(t)
      PROVE  SubSeq(t, 1, Len(s)) = s <=> \A j \in 1 .. Len(s) : s[j] = t[j]
  <2> DEFINE front == SubSeq(t, 1, Len(s))
  <2>1. front \in Seq(S) /\ Len(front) = Len(s) /\ \A j \in 1 .. Len(front) : front[j] = t[j]
    BY <1>1, <1>2, FrontHas
  <2> HIDE DEF front
  <2>2. ASSUME \A j \in 1 .. Len(s) : s[j] = t[j]
        PROVE  front = s
    BY <2>1, <2>2, SeqEqual
  <2>3. front = s => \A j \in 1 .. Len(s) : s[j] = t[j]
    BY <2>1
  <2> QED
    BY <2>2, <2>3 DEF front
<1> QED
  BY <1>1, <1>2 DEF IsPrefix

LEMMA StandsForIsEqual ==
    ASSUME NEW S, NEW name \in Seq(S), NEW stored \in Seq(S)
    PROVE  StandsFor(name, stored) <=> httpd_fs_strcmp(name, stored)
<1>1. Len(name) \in Nat /\ Len(stored) \in Nat /\ DOMAIN name = 1 .. Len(name)
  BY LenProperties
<1>2. IsPrefix(stored, name) <=> Alike(name, stored, Len(stored) + 1)
  <2>1. IsPrefix(stored, name) <=> Len(stored) <= Len(name)
                                   /\ \A j \in 1 .. Len(stored) : stored[j] = name[j]
    BY PrefixIs
  <2>2. Len(stored) <= Len(name) <=> \A j \in 1 .. Len(stored) : j <= Len(name)
    BY <1>1
  <2>3. Len(stored) + 1 - 1 = Len(stored)
    BY <1>1
  <2> QED
    BY <2>1, <2>2, <2>3 DEF Alike
<1>3. ASSUME NEW i \in 1 .. Len(name)
      PROVE  IsPrefix(SubSeq(name, 1, i - 1), stored)
             <=> i \in 1 .. Len(stored) + 1 /\ Alike(name, stored, i)
  <2> DEFINE front == SubSeq(name, 1, i - 1)
  <2>1. front \in Seq(S) /\ Len(front) = i - 1 /\ \A j \in 1 .. i - 1 : front[j] = name[j]
    <3>1. i - 1 \in Nat /\ i - 1 <= Len(name)
      BY <1>1
    <3> QED
      BY <3>1, FrontHas
  <2> HIDE DEF front
  <2>2. IsPrefix(front, stored) <=> i - 1 <= Len(stored)
                                    /\ \A j \in 1 .. i - 1 : front[j] = stored[j]
    BY <2>1, PrefixIs
  <2>3. i - 1 <= Len(stored) <=> i \in 1 .. Len(stored) + 1
    BY <1>1
  <2>4. \A j \in 1 .. i - 1 : j <= Len(name)
    BY <1>1
  <2> QED
    BY <2>1, <2>2, <2>3, <2>4 DEF Alike, front
<1>4. Len(stored) + 1 \in 1 .. Len(stored) + 1
  BY <1>1
<1>5. \A i \in 1 .. Len(stored) + 1 : i <= Len(name) => i \in 1 .. Len(name)
  BY <1>1
<1>6. \A i \in 1 .. Len(name) : i <= Len(name)
  BY <1>1
<1> QED
  BY <1>1, <1>2, <1>3, <1>4, <1>5, <1>6, Zenon DEF StandsFor, httpd_fs_strcmp

LEMMA CandidatesMatch ==
    ASSUME NEW S, NEW name \in Seq(S)
    PROVE  Candidates(name) = Matches(name)
<1> DEFINE T == S \cup STRING
<1>1. \A i \in DOMAIN name : name[i] \in T
  OBVIOUS
<1>2. name \in Seq(T)
  <2> HIDE DEF T
  <2> QED
    BY <1>1, OwnElements
<1>3. ASSUME NEW n \in DOMAIN HttpdFiles
      PROVE  StandsFor(name, HttpdFiles[n].name) <=> httpd_fs_strcmp(name, HttpdFiles[n].name)
  <2> DEFINE stored == HttpdFiles[n].name
  <2>1. stored \in Seq(STRING)
    BY FilesHave
  <2> HIDE DEF stored
  <2>2. \A i \in DOMAIN stored : stored[i] \in T
    BY <2>1
  <2> HIDE DEF T
  <2>3. stored \in Seq(T)
    BY <2>1, <2>2, OwnElements
  <2> QED
    BY <1>2, <2>3, StandsForIsEqual DEF stored
<1> QED
  BY <1>3 DEF Candidates, Matches

LEMMA NotFoundMatches == Candidates(NotFound) = Matches(NotFound)
<1>1. NotFound \in Seq({"/", "404", ".html"})
  BY DEF NotFound
<1> QED
  BY <1>1, CandidatesMatch

LEMMA NamedMatches ==
    ASSUME NEW request \in Seq(InTokens), IsRequest(request)
    PROVE  Candidates(Named(request)) = Matches(Named(request))
<1> DEFINE end == Min(Spaces(request))
           name == SubSeq(request, 3, end - 1)
           size == PsockBufsize - 1
<1>1. end \in 4 .. Len(request) /\ Len(request) \in Nat
  <2>1. Spaces(request) \subseteq 4 .. Len(request) /\ Spaces(request) # {}
    BY DEF Spaces, IsRequest
  <2>2. Len(request) \in Nat
    OBVIOUS
  <2>3. Spaces(request) \subseteq Nat
    BY <2>1, <2>2
  <2>4. Min(Spaces(request)) \in Spaces(request)
    BY <2>1, <2>3, MinIsOne
  <2> QED
    BY <2>1, <2>2, <2>4
<1> HIDE DEF end
<1>2. name \in Seq(InTokens)
  BY <1>1
<1>3. Named(request) = IF name = <<"/">> THEN Index ELSE Cut(name, size)
  BY DEF Named, end
<1>4. size \in Nat
  BY PsockAssumption, HttpdAssumption
<1> HIDE DEF name, size
<1>5. Cut(name, size) \in Seq(InTokens)
  BY <1>2, <1>4, CutIs DEF IsCut
<1>6. Index \in Seq({"/", "index", ".html"})
  BY DEF Index
<1> QED
  BY <1>3, <1>5, <1>6, CandidatesMatch

\* The page with a name, or the one that says that there is none.
Opening(h) ==
    LET found == Opens(h.name)
        name == IF found THEN h.name ELSE NotFound
    IN  [h EXCEPT !.name = name, !.file = TextOf(name), !.pc = "status",
                  !.status = IF found THEN "200" ELSE "404"]

LEMMA OpeningGoesOn ==
    ASSUME NEW h, IsHttp(h), h.len <= AppMss, NEW p, IsSock(HttpTokens, p), ~p.busy, NEW e,
           NEW request \in Seq(InTokens), IsRequest(request), h.name = Named(request)
    PROVE  LET k == Opening(h)
           IN  /\ NamesFile(k) /\ k.output = h.output /\ k.sin = h.sin
               /\ k.timer = h.timer /\ k.len <= AppMss /\ k.pc = "status"
               /\ Left(k, p, e) = Response(request)
<1> DEFINE found == Opens(h.name)
           name == IF found THEN h.name ELSE NotFound
           file == TextOf(name)
           status == IF found THEN "200" ELSE "404"
           type == TypeOf(name)
           k == Opening(h)
<1>1. k = [h EXCEPT !.name = name, !.file = file, !.pc = "status", !.status = status]
  BY DEF Opening
<1>2. Opens(name) /\ (status = "404" => name = NotFound)
  BY NotFoundOpens
<1>3. file \in Seq(HttpTokens)
  BY <1>2, OpensFirst
<1>4. status \in HttpTokens /\ type \in HttpTokens
  BY WordsHave, TypeIsWord DEF HttpTokens
<1>5. IF status = "200" /\ IsScript(name)
      THEN Response(request) = <<status, type>> \o ShownAll(file)
      ELSE Response(request) = <<status, type>> \o file
  <2>1. Candidates(h.name) = Matches(h.name)
    BY NamedMatches
  <2>2. CASE found
    BY <2>1, <2>2 DEF Response, Page, Opens, TextOf
  <2>3. CASE ~found
    BY <2>1, <2>3, NotFoundMatches DEF Response, Page, Opens, TextOf
  <2> QED
    BY <2>2, <2>3
<1> HIDE DEF k, file, status, name, found
<1>6. /\ k.name = name /\ k.output = h.output /\ k.sin = h.sin /\ k.status = status
      /\ k.timer = h.timer /\ k.len = h.len /\ k.pc = "status" /\ k.file = file
  BY <1>1 DEF IsHttp, HttpFields
<1> DEFINE whole == WholeFile(k)
<1>7. whole = IF status = "200" /\ IsScript(name) THEN ShownAll(file) ELSE file
  BY <1>6 DEF WholeFile, Scripted
<1>8. whole \in Seq(HttpTokens)
  BY <1>3, <1>7, LinesAreShown
<1>9. LeftNow(k, p, e) = <<status>>
  <2>1. Text(k) = <<status>>
    BY <1>6 DEF Text
  <2> QED
    BY <1>6, <2>1, LeftAtOnce DEF IsText
<1>10. LeftThen(k) = Then(<<type>>, whole)
  BY <1>6 DEF LeftThen
<1> HIDE DEF whole, type
<1>11. Left(k, p, e) = <<status, type>> \o whole
  <2>1. JoinsPair(status, type, whole)
    BY <1>4, <1>8, PairJoins
  <2> QED
    BY <1>9, <1>10, <2>1 DEF Left, JoinsPair
<1>12. Response(request) = <<status, type>> \o whole
  BY <1>5, <1>7
<1>13. NamesFile(k)
  BY <1>2, <1>6 DEF NamesFile
<1> QED
  BY <1>6, <1>11, <1>12, <1>13 DEF k

\* A protosocket that goes on sending after the call.
LEMMA LeftStays ==
    ASSUME NEW h, NEW p, NEW e, NEW q,
           IF IsText(h) THEN q.busy /\ q.rest = SendRest(p, Text(h), e)
           ELSE h.pc \notin {"open", "close"} => ~(p.busy /\ e.acks)
    PROVE  Left(h, q, NoCall) = Left(h, p, e)
<1>1. ~NoCall.acks
  BY DEF NoCall
<1>2. CASE IsText(h)
  <2>1. SendRest(q, Text(h), NoCall) = SendRest(p, Text(h), e)
    <3> DEFINE rest == SendRest(p, Text(h), e)
    <3> HIDE DEF rest
    <3>1. q.busy /\ q.rest = rest
      BY <1>2 DEF rest
    <3>2. SendRest(q, Text(h), NoCall) = q.rest
      BY <1>1, <3>1 DEF SendRest
    <3> QED
      BY <3>1, <3>2 DEF rest
  <2>2. LeftNow(h, q, NoCall) = LeftNow(h, p, e)
    BY <1>2, <2>1 DEF LeftNow, IsText
  <2> QED
    BY <2>2 DEF Left
<1>3. CASE ~IsText(h)
  <2>1. LeftNow(h, q, NoCall) = LeftNow(h, p, e)
    BY <1>1, <1>3 DEF LeftNow, IsText
  <2> QED
    BY <2>1 DEF Left
<1> QED
  BY <1>2, <1>3

\* The piece that is outstanding.
Outstanding(h, p) ==
    CASE IsText(h) -> Cut(p.rest, AppMss)
      [] h.pc \in {"file", "include"} -> Cut(h.file, AppMss)
      [] OTHER -> <<h.report[1]>>

\* What was outstanding is left no more when it is acknowledged.
LEMMA LeftIsAcked ==
    ASSUME NEW h, IsHttp(h), NEW p, IsSock(HttpTokens, p), p.busy, NEW e, e.acks,
           h.pc \notin {"open", "close"}, h.pc = "report" => h.report # <<>>,
           NEW sofar \in Seq(HttpTokens)
    PROVE  /\ Outstanding(h, p) \in Seq(HttpTokens)
           /\ Then(Then(sofar, Outstanding(h, p)), Left(h, p, e)) = Then(sofar, Left(h, p, NoCall))
<1> DEFINE sent == Outstanding(h, p)
           now == LeftNow(h, p, e)
           rest == LeftThen(h)
<1>1. ~NoCall.acks
  BY DEF NoCall
<1>2. h.file \in Seq(HttpTokens) /\ h.report \in Seq(HttpTokens) /\ p.rest \in Seq(HttpTokens)
      /\ AppMss \in Nat
  BY AppAssumption DEF IsHttp, IsSock
<1>3. sent \in Seq(HttpTokens) /\ Then(sent, now) = LeftNow(h, p, NoCall)
  <2>1. CASE IsText(h)
    <3>1. now = Drop(p.rest, AppMss) /\ LeftNow(h, p, NoCall) = p.rest
      BY <1>1, <2>1 DEF LeftNow, SendRest, IsText
    <3>2. sent = Cut(p.rest, AppMss)
      BY <2>1 DEF Outstanding, IsText
    <3> QED
      BY <1>2, <3>1, <3>2, CutThenDrop
  <2>2. CASE h.pc \in {"file", "include"}
    <3>1. now = Drop(h.file, AppMss) /\ LeftNow(h, p, NoCall) = h.file
      BY <1>1, <2>2 DEF LeftNow, IsText
    <3>2. sent = Cut(h.file, AppMss)
      BY <2>2 DEF Outstanding, IsText
    <3>3. Cut(h.file, AppMss) \in Seq(HttpTokens) /\ Then(Cut(h.file, AppMss), Drop(h.file, AppMss)) = h.file
      BY <1>2, CutThenDrop
    <3> QED
      BY <3>1, <3>2, <3>3
  <2>3. CASE h.pc = "report"
    <3>1. now = Tail(h.report) /\ LeftNow(h, p, NoCall) = h.report
      BY <1>1, <2>3 DEF LeftNow, IsText
    <3>2. sent = <<h.report[1]>>
      BY <2>3 DEF Outstanding, IsText
    <3>3. h.report[1] \in HttpTokens /\ h.report = Then(<<h.report[1]>>, Tail(h.report))
      BY <1>2, <2>3, HeadThenTail
    <3> DEFINE line == h.report[1]
    <3>4. line \in HttpTokens => <<line>> \in Seq(HttpTokens)
      OBVIOUS
    <3> QED
      BY <3>1, <3>2, <3>3, <3>4
  <2> QED
    BY <2>1, <2>2, <2>3 DEF IsHttp, HttpStatements, IsText
<1>4. now \in Seq(HttpTokens) /\ rest \in Seq(HttpTokens)
  BY LeftIsTokens
<1>5. Left(h, p, e) = Then(now, rest) /\ Left(h, p, NoCall) = Then(Then(sent, now), rest)
  BY <1>3 DEF Left
<1> HIDE DEF sent, now, rest
<1>6. Then(now, rest) \in Seq(HttpTokens)
  BY <1>4, ConcatProperties DEF Then
<1>7. Then(Then(sofar, sent), Then(now, rest)) = Then(sofar, Then(sent, Then(now, rest)))
  BY <1>3, <1>6, ThenIsFlat
<1>8. Then(sent, Then(now, rest)) = Then(Then(sent, now), rest)
  BY <1>3, <1>4, ThenIsFlat
<1> QED
  BY <1>3, <1>5, <1>7, <1>8 DEF sent

-----------------------------------------------------------------------------
(* The request, word by word.                                              *)

LEMMA WithoutBoth ==
    ASSUME NEW mark, NEW a \in Seq(InTokens), NEW b \in Seq(InTokens),
           Without(mark, a), Without(mark, b)
    PROVE  Without(mark, Then(a, b))
<1> DEFINE c == Then(a, b)
<1>1. IsThen(InTokens, a, b, c)
  BY ThenIs
<1> HIDE DEF c
<1>2. Len(a) \in Nat /\ Len(b) \in Nat
  OBVIOUS
<1>3. ASSUME NEW i \in 1 .. Len(c)
      PROVE  c[i] # mark
  <2>1. Len(c) = Len(a) + Len(b)
    BY <1>1 DEF IsThen
  <2>2. CASE i <= Len(a)
    <3>1. i \in 1 .. Len(a)
      BY <1>2, <2>1, <2>2
    <3> QED
      BY <1>1, <3>1 DEF IsThen, Without
  <2>3. CASE ~(i <= Len(a))
    <3>1. i - Len(a) \in 1 .. Len(b) /\ Len(a) + (i - Len(a)) = i
      BY <1>2, <2>1, <2>3
    <3>2. c[Len(a) + (i - Len(a))] = b[i - Len(a)]
      BY <1>1, <3>1 DEF IsThen
    <3> QED
      BY <3>1, <3>2 DEF Without
  <2> QED
    BY <2>2, <2>3
<1> QED
  BY <1>3 DEF c, Without

LEMMA EndsAfter ==
    ASSUME NEW mark \in InTokens, NEW a \in Seq(InTokens), NEW b \in Seq(InTokens),
           Without(mark, a), EndsWith(mark, b)
    PROVE  EndsWith(mark, Then(a, b))
<1> DEFINE end == <<mark>>
<1>1. PICK text \in Seq(InTokens) : b = Then(text, end) /\ Without(mark, text)
  BY DEF EndsWith
<1>2. end \in Seq(InTokens)
  OBVIOUS
<1> HIDE DEF end
<1>3. Then(a, b) = Then(Then(a, text), end) /\ Then(a, text) \in Seq(InTokens)
  BY <1>1, <1>2, ThenIsFlat
<1>4. Without(mark, Then(a, text))
  BY <1>1, WithoutBoth
<1> QED
  BY <1>3, <1>4 DEF EndsWith, end

\* A word of the request has been read into q, or what of it there is.
WordRead(h, q, e, found, request, sent) ==
    \E line \in Seq(InTokens) :
        /\ Heard(request, sent, Then(Then(WordsRead(h), line), ToRead(q, e)))
        /\ ToRead(q, e) \in Seq(InTokens)
        /\ q.buf = Cut(line, PsockBufsize)
        /\ ReadsUp("sp", found, line, ToRead(q, e))

LEMMA WordsAreInput ==
    ASSUME NEW h
    PROVE  WordsRead(h) \in Seq(InTokens)
BY InputIsTokens DEF WordsRead

LEMMA WordIsRead ==
    ASSUME NEW h, NEW p, NEW e, e.data \in Seq(InTokens), NEW sofar, NEW r, NEW n,
           ReadsRequest(h, p, e, sofar, r, n), Listens(h.sin)
    PROVE  LET q == ReadTo(h.sin, e, "sp").p
               found == ReadEnds(h.sin, e, "sp")
           IN  /\ Listens(q) /\ (~found => q.unread = <<>>)
               /\ WordRead(h, q, e, found, r, n)
<1> DEFINE s == h.sin
           q == ReadTo(s, e, "sp").p
           found == ReadEnds(s, e, "sp")
           words == WordsRead(h)
<1>1. PICK text \in Seq(InTokens) :
          /\ Heard(r, n, Then(Then(words, text), ToRead(s, e)))
          /\ Without("sp", text)
          /\ IF s.busy THEN s.buf = Cut(text, PsockBufsize) ELSE text = <<>>
  BY DEF ReadsRequest
<1>2. ReadsOn(s, q, e, "sp", found)
  BY InputIsTokens, ReadToReadsOn
<1> HIDE DEF q, found
<1>3. PICK front \in Seq(InTokens) :
          /\ ToRead(s, e) = Then(front, ToRead(q, e))
          /\ ToRead(q, e) \in Seq(InTokens)
          /\ ReadsUp("sp", found, front, ToRead(q, e))
          /\ q.buf = Cut(BufferOf(s) \o front, PsockBufsize)
  BY <1>2 DEF ReadsOn
<1> DEFINE back == ToRead(q, e)
           line == Then(text, front)
<1>4. words \in Seq(InTokens) /\ line \in Seq(InTokens)
  BY WordsAreInput, ThenIsFlat
<1>5. Then(Then(words, text), ToRead(s, e)) = Then(Then(words, line), back)
  <2> HIDE DEF words, back, s
  <2>1. /\ Then(words, text) \in Seq(InTokens)
        /\ Then(Then(words, text), front) = Then(words, Then(text, front))
    BY <1>4, ThenIsFlat
  <2>2. Then(Then(Then(words, text), front), back) = Then(Then(words, text), Then(front, back))
    BY <1>3, <2>1, ThenIsFlat DEF back
  <2> QED
    BY <1>3, <2>1, <2>2 DEF back
<1>6. q.buf = Cut(line, PsockBufsize)
  <2>0. PsockBufsize \in Nat
    BY PsockAssumption
  <2>1. CASE s.busy
    <3>1. BufferOf(s) = Cut(text, PsockBufsize)
      BY <1>1, <2>1 DEF BufferOf
    <3>2. Cut(Cut(text, PsockBufsize) \o front, PsockBufsize) = Cut(Then(text, front), PsockBufsize)
      BY <2>0, CutGoesOn
    <3> QED
      BY <1>3, <3>1, <3>2
  <2>2. CASE ~s.busy
    <3>1. BufferOf(s) = text
      BY <1>1, <2>2 DEF BufferOf
    <3> QED
      BY <1>3, <3>1 DEF Then
  <2> QED
    BY <2>1, <2>2
<1>7. ReadsUp("sp", found, line, back)
  <2>1. CASE found
    <3>1. EndsWith("sp", front)
      BY <1>3, <2>1 DEF ReadsUp
    <3>2. EndsWith("sp", line)
      BY <1>1, <3>1, EndsAfter, InputIsTokens
    <3> QED
      BY <2>1, <3>2 DEF ReadsUp
  <2>2. CASE ~found
    <3>1. back = <<>> /\ Without("sp", front)
      BY <1>3, <2>2 DEF ReadsUp
    <3>2. Without("sp", line)
      BY <1>1, <3>1, WithoutBoth
    <3> QED
      BY <2>2, <3>1, <3>2 DEF ReadsUp
  <2> QED
    BY <2>1, <2>2
<1>8. WordRead(h, q, e, found, r, n)
  <2> HIDE DEF line
  <2> QED
    BY <1>1, <1>3, <1>4, <1>5, <1>6, <1>7 DEF WordRead
<1>9. Listens(q) /\ (~found => q.unread = <<>>)
  BY <1>2 DEF ReadsOn
<1> QED
  BY <1>8, <1>9 DEF q, found

\* The protosocket that goes on with the next word, and the one that waits.
NextWord(q) == [q EXCEPT !.busy = FALSE]
Waiting(q) == [q EXCEPT !.busy = TRUE, !.state = IF @ = "READ" THEN "BLOCKED_NEWDATA" ELSE @]

LEMMA WordsListen ==
    ASSUME NEW q, Listens(q), NEW e
    PROVE  /\ Listens(NextWord(q)) /\ ~NextWord(q).busy /\ NextWord(q).buf = q.buf
           /\ ToRead(NextWord(q), e) = ToRead(q, e)
           /\ q.unread = <<>> => /\ Listens(Waiting(q)) /\ Waiting(q).busy
                                 /\ Waiting(q).buf = q.buf /\ Waiting(q).state # "READ"
                                 /\ Waiting(q).unread = <<>>
<1>1. /\ NextWord(q) = [f \in SockFields |-> NextWord(q)[f]]
      /\ ~NextWord(q).busy /\ NextWord(q).busy \in BOOLEAN /\ NextWord(q).buf = q.buf
      /\ NextWord(q).unread = q.unread /\ NextWord(q).state = q.state
  BY DEF Listens, NextWord, SockFields
<1>2. Listens(NextWord(q))
  BY <1>1 DEF Listens
<1>3. ToRead(NextWord(q), e) = ToRead(q, e)
  BY <1>1 DEF ToRead, TakesNewdata
<1>4. /\ Waiting(q) = [f \in SockFields |-> Waiting(q)[f]]
      /\ Waiting(q).busy /\ Waiting(q).busy \in BOOLEAN /\ Waiting(q).buf = q.buf
      /\ Waiting(q).unread = q.unread /\ Waiting(q).state # "READ"
  BY DEF Listens, Waiting, SockFields
<1>5. q.unread = <<>> => Listens(Waiting(q))
  BY <1>4 DEF Listens
<1> QED
  BY <1>1, <1>2, <1>3, <1>4, <1>5

\* The method has been read: the path is next, or there is no request for a page.
LEMMA MethodIsRead ==
    ASSUME NEW h, IsHttp(h), NEW p, NEW e, e # NoCall, e.data \in Seq(InTokens),
           NEW sofar, NEW r \in Seq(InTokens), NEW n, ReadsRequest(h, p, e, sofar, r, n),
           Listens(h.sin), h.reading = "method", ReadEnds(h.sin, e, "sp")
    PROVE  LET q == ReadTo(h.sin, e, "sp").p
               k == [h EXCEPT !.sin = NextWord(q), !.reading = "path"]
           IN  /\ Listens(q)
               /\ q.buf = <<"GET", "sp">> => ReadsRequest(k, p, e, sofar, r, n)
               /\ q.buf # <<"GET", "sp">> => ~IsRequest(r)
<1> DEFINE q == ReadTo(h.sin, e, "sp").p
           get == <<"GET", "sp">>
           k == [h EXCEPT !.sin = NextWord(q), !.reading = "path"]
<1>1. Listens(q) /\ WordRead(h, q, e, TRUE, r, n)
  <2>1. ReadEnds(h.sin, e, "sp") = TRUE
    BY DEF ReadEnds, ReadTo, Scan
  <2> QED
    BY <2>1, WordIsRead
<1> HIDE DEF q
<1>2. PICK line \in Seq(InTokens) :
          /\ Heard(r, n, Then(Then(WordsRead(h), line), ToRead(q, e)))
          /\ ToRead(q, e) \in Seq(InTokens)
          /\ q.buf = Cut(line, PsockBufsize)
          /\ ReadsUp("sp", TRUE, line, ToRead(q, e))
  BY <1>1 DEF WordRead
<1>3. WordsRead(h) = <<>> /\ EndsWith("sp", line)
  BY <1>2 DEF WordsRead, ReadsUp
<1>4. /\ q.buf = get => line = get
      /\ IsRequest(r) => q.buf = get
  BY <1>2, <1>3, MethodIs
<1>5. ASSUME q.buf = get
      PROVE  ReadsRequest(k, p, e, sofar, r, n)
  <2>1. line = get
    BY <1>4, <1>5
  <2>2. Then(<<>>, get) = get /\ Then(get, <<>>) = get /\ <<>> \in Seq(InTokens)
    BY InputIsTokens, ThenNothing
  <2> DEFINE none == <<>>
  <2>3. /\ k.sin = NextWord(q) /\ k.reading = "path" /\ k.output = h.output /\ k.pc = h.pc
    BY DEF IsHttp, HttpFields
  <2> HIDE DEF k
  <2>4. WordsRead(k) = get
    BY <2>3 DEF WordsRead
  <2>5. /\ Listens(k.sin) /\ ~k.sin.busy /\ ToRead(k.sin, e) = ToRead(q, e)
    BY <1>1, <2>3, WordsListen
  <2>6. Heard(r, n, Then(Then(WordsRead(k), none), ToRead(k.sin, e)))
    BY <1>2, <1>3, <2>1, <2>2, <2>4, <2>5
  <2>7. Without("sp", none)
    BY DEF Without
  <2>8. none \in Seq(InTokens) /\ (IF k.sin.busy THEN k.sin.buf = Cut(none, PsockBufsize) ELSE none = <<>>)
    BY <2>2, <2>5
  <2>9. /\ ~h.output /\ h.reading \in {"method", "path"} /\ h.pc = "open" /\ sofar = <<>> /\ ~p.busy
    BY DEF ReadsRequest
  <2>10. ReadsInCall(k.sin, e)
    BY DEF ReadsInCall
  <2> HIDE DEF none
  <2> QED
    BY <2>3, <2>6, <2>7, <2>8, <2>9, <2>10 DEF ReadsRequest
<1> QED
  BY <1>1, <1>4, <1>5 DEF q

\* The path has been read: the page is sent, or there is none.
LEMMA PathIsRead ==
    ASSUME NEW h, IsHttp(h), NEW p, NEW e, e # NoCall, e.data \in Seq(InTokens),
           NEW sofar, NEW r \in Seq(InTokens), NEW n, ReadsRequest(h, p, e, sofar, r, n),
           Listens(h.sin), h.reading = "path", ReadEnds(h.sin, e, "sp")
    PROVE  LET q == ReadTo(h.sin, e, "sp").p
               k == [h EXCEPT !.sin = NextWord(q), !.reading = "lines", !.output = TRUE,
                              !.name = NameIn(q.buf)]
           IN  /\ Listens(q)
               /\ q.buf[1] = "/" => SendsPage(k, p, e, sofar, r)
               /\ q.buf[1] # "/" => ~IsRequest(r)
<1> DEFINE q == ReadTo(h.sin, e, "sp").p
           name == NameIn(q.buf)
           k == [h EXCEPT !.sin = NextWord(q), !.reading = "lines", !.output = TRUE, !.name = name]
<1>1. Listens(q) /\ WordRead(h, q, e, TRUE, r, n)
  <2>1. ReadEnds(h.sin, e, "sp") = TRUE
    BY DEF ReadEnds, ReadTo, Scan
  <2> QED
    BY <2>1, WordIsRead
<1> HIDE DEF q
<1>2. PICK line \in Seq(InTokens) :
          /\ Heard(r, n, Then(Then(WordsRead(h), line), ToRead(q, e)))
          /\ ToRead(q, e) \in Seq(InTokens)
          /\ q.buf = Cut(line, PsockBufsize)
          /\ ReadsUp("sp", TRUE, line, ToRead(q, e))
  BY <1>1 DEF WordRead
<1>3. WordsRead(h) = <<"GET", "sp">> /\ EndsWith("sp", line)
  BY <1>2 DEF WordsRead, ReadsUp
<1>4. IF q.buf[1] = "/" THEN IsRequest(r) /\ NameIn(q.buf) = Named(r) ELSE ~IsRequest(r)
  BY <1>2, <1>3, PathIs
<1>5. ASSUME q.buf[1] = "/"
      PROVE  SendsPage(k, p, e, sofar, r)
  <2>1. IsRequest(r) /\ name = Named(r)
    BY <1>4, <1>5
  <2> HIDE DEF name
  <2>2. k.output /\ k.pc = h.pc /\ k.name = name
    BY DEF IsHttp, HttpFields
  <2>3. h.pc = "open" /\ sofar = <<>> /\ ~p.busy
    BY DEF ReadsRequest
  <2> HIDE DEF k
  <2> QED
    BY <2>1, <2>2, <2>3 DEF SendsPage
<1> QED
  BY <1>1, <1>4, <1>5 DEF q

\* There is no more to read.
LEMMA WordIsAwaited ==
    ASSUME NEW h, IsHttp(h), NEW p, NEW e, e.data \in Seq(InTokens),
           NEW sofar, NEW r \in Seq(InTokens), NEW n, ReadsRequest(h, p, e, sofar, r, n),
           Listens(h.sin), ~ReadEnds(h.sin, e, "sp"), NEW turn, NEW o, ~o.busy
    PROVE  LET q == ReadTo(h.sin, e, "sp").p
               k == [h EXCEPT !.sin = Waiting(q), !.turn = turn]
           IN  Listens(Waiting(q)) /\ ReadsRequest(k, o, NoCall, sofar, r, n)
<1> DEFINE q == ReadTo(h.sin, e, "sp").p
           k == [h EXCEPT !.sin = Waiting(q), !.turn = turn]
<1>1. Listens(q) /\ q.unread = <<>> /\ WordRead(h, q, e, FALSE, r, n)
  <2>1. ReadEnds(h.sin, e, "sp") = FALSE
    BY DEF ReadEnds, ReadTo, Scan
  <2> QED
    BY <2>1, WordIsRead
<1> HIDE DEF q
<1>2. PICK line \in Seq(InTokens) :
          /\ Heard(r, n, Then(Then(WordsRead(h), line), ToRead(q, e)))
          /\ ToRead(q, e) \in Seq(InTokens)
          /\ q.buf = Cut(line, PsockBufsize)
          /\ ReadsUp("sp", FALSE, line, ToRead(q, e))
  BY <1>1 DEF WordRead
<1>3. ToRead(q, e) = <<>> /\ Without("sp", line)
  BY <1>2 DEF ReadsUp
<1>4. /\ Listens(Waiting(q)) /\ Waiting(q).busy /\ Waiting(q).buf = q.buf
      /\ Waiting(q).state # "READ" /\ Waiting(q).unread = <<>>
  BY <1>1, WordsListen
<1>5. /\ k.sin = Waiting(q) /\ k.output = h.output /\ k.pc = h.pc /\ k.reading = h.reading
  BY DEF IsHttp, HttpFields
<1> HIDE DEF k
<1>6. ToRead(k.sin, NoCall) = <<>>
  BY <1>4, <1>5 DEF ToRead, TakesNewdata, Newdata, NoCall
<1>7. WordsRead(k) = WordsRead(h)
  BY <1>5 DEF WordsRead
<1>8. Heard(r, n, Then(Then(WordsRead(k), line), ToRead(k.sin, NoCall)))
  BY <1>2, <1>3, <1>6, <1>7
<1>9. ReadsInCall(k.sin, NoCall)
  BY <1>4, <1>5 DEF ReadsInCall
<1>10. /\ ~h.output /\ h.reading \in {"method", "path"} /\ h.pc = "open" /\ sofar = <<>>
  BY DEF ReadsRequest
<1>11. ReadsRequest(k, o, NoCall, sofar, r, n)
  BY <1>2, <1>3, <1>4, <1>5, <1>8, <1>9, <1>10 DEF ReadsRequest
<1> QED
  BY <1>4, <1>11 DEF q, k

\* A connection that stays open with nothing outstanding got no answer; one that
\* is closing was closed by the application.
LEMMA AnswerIsHeard ==
    ASSUME NEW S, NEW l \in Links(S), NEW inputs, NEW e \in Events(inputs), CanHappen(l, e),
           NEW a, a.data \in Seq(S)
    PROVE  LET after == After(l, e, a).link
           IN  /\ after.state = "open" /\ after.len = 0 => ~a.abort /\ ~a.close /\ a.data = <<>>
               /\ after.state = "closing" => a.close /\ ~EndsIt(e)
<1> DEFINE after == After(l, e, a).link
           Goal == /\ after.state = "open" /\ after.len = 0 => ~a.abort /\ ~a.close /\ a.data = <<>>
                   /\ after.state = "closing" => a.close /\ ~EndsIt(e)
<1>1. \A state : Link(state).state = state /\ Ends(state).link.state = state
  BY DEF Link, Ends
<1>2. l = [f \in LinkFields |-> l[f]] /\ l.len \in Nat
  BY LinkHas
<1>3. ASSUME NEW m, m = [f \in LinkFields |-> m[f]], m.state = "open", m.len \in Nat,
             after = Does(m, a).link, ~EndsIt(e)
      PROVE  Goal
  <2> DEFINE first == Cut(a.data, AppMss)
             k == Len(first)
             sent == Sends(m, a.data).link
  <2>1. Len(a.data) \in Nat /\ k = IF Len(a.data) <= AppMss THEN Len(a.data) ELSE AppMss
    <3>1. a.data \in Seq(S) /\ AppMss \in Nat
      BY AppAssumption
    <3>2. /\ Len(a.data) \in Nat
          /\ Len(first) = IF Len(a.data) <= AppMss THEN Len(a.data) ELSE AppMss
      BY <3>1, CutIsFront
    <3> QED
      BY <3>2
  <2>2. k = 0 => a.data = <<>>
    <3>1. k = 0 => Len(a.data) = 0
      BY <2>1, AppAssumption
    <3> QED
      BY <3>1, EmptySeq
  <2>3. sent = IF m.len = 0 THEN [m EXCEPT !.len = k, !.sent = first] ELSE m
    BY DEF Sends
  <2> HIDE DEF k, first
  <2>4. sent.state = "open" /\ sent.len = IF m.len = 0 THEN k ELSE m.len
    BY <1>3, <2>3 DEF LinkFields
  <2> HIDE DEF sent
  <2>5. /\ a.abort => after.state = "none"
        /\ ~a.abort /\ a.close => after.state = "closing"
        /\ ~a.abort /\ ~a.close => after = sent
    BY <1>1, <1>3 DEF Does, sent
  <2> HIDE DEF after
  <2>6. after.state = "open" /\ after.len = 0 => ~a.abort /\ ~a.close /\ k = 0
    BY <2>4, <2>5
  <2> QED
    BY <1>3, <2>2, <2>4, <2>5, <2>6
<1>4. CASE e.kind = "closed"
  <2>1. after = Ends(IF l.state = "open" THEN "last ack" ELSE "none").link
    BY <1>4 DEF After
  <2> QED
    BY <1>1, <2>1
<1>5. CASE e.kind \in {"aborted", "timedout"}
  <2>1. after = Ends("none").link
    BY <1>5 DEF After
  <2> QED
    BY <1>1, <2>1
<1>6. CASE e.kind = "rexmit"
  <2>1. after = [l EXCEPT !.nrtx = @ + 1] /\ l.state = "open" /\ l.len > 0
    BY <1>6 DEF After, CanHappen
  <2>2. after.state = "open" /\ after.len = l.len
    BY <1>2, <2>1 DEF LinkFields
  <2> QED
    BY <1>2, <2>1, <2>2
<1>7. CASE e.kind = "connected"
  <2> DEFINE m == Link("open")
  <2>1. after = Does(m, a).link
    BY <1>7 DEF After
  <2>2. m = [f \in LinkFields |-> m[f]] /\ m.state = "open" /\ m.len \in Nat
    BY DEF Link, LinkFields
  <2>3. ~EndsIt(e)
    BY <1>7 DEF EndsIt
  <2> HIDE DEF m, after
  <2>4. Goal
    BY <1>3, <2>1, <2>2, <2>3
  <2> QED
    BY <2>4 DEF after
<1>8. CASE e.kind \in {"poll", "input"}
  <2> DEFINE m == IF e.acks THEN Link("open") ELSE [l EXCEPT !.nrtx = 0]
  <2>1. after = Does(m, a).link
    BY <1>8 DEF After
  <2>2. l.state = "open"
    BY <1>8 DEF CanHappen, CanInput
  <2>3. m = [f \in LinkFields |-> m[f]] /\ m.state = "open" /\ m.len \in Nat
    <3>1. Link("open") = [f \in LinkFields |-> Link("open")[f]] /\ Link("open").len \in Nat
      BY DEF Link, LinkFields
    <3> QED
      BY <1>1, <1>2, <2>2, <3>1 DEF LinkFields
  <2>4. ~EndsIt(e)
    BY <1>8 DEF EndsIt
  <2> HIDE DEF m, after
  <2>5. Goal
    BY <1>3, <2>1, <2>3, <2>4
  <2> QED
    BY <2>5 DEF after
<1>9. e.kind \in Kinds
  BY EventHas
<1> QED
  BY <1>4, <1>5, <1>6, <1>7, <1>8, <1>9 DEF Kinds

\* What the invariant says, for the steps.
PageParts ==
    /\ IsHttp(http) /\ SockInv(HttpTokens, HttpInputs) /\ IsSock(HttpTokens, psock)
    /\ link \in Links(HttpTokens) /\ link.sent \in Seq(HttpTokens) /\ OpenIfOutstanding(link)
    /\ call # NoCall => call \in Events(HttpInputs) /\ CanHappen(link, call)
    /\ call.data \in Seq(InTokens)
    /\ Unacked => http.output /\ psock.busy /\ IsOutstanding(http)
    /\ http.turn = "output" => http.output
    /\ Runs(call) => link.state # "closing"

LEMMA PageHas ==
    ASSUME PageInv
    PROVE  PageParts
<1>1. /\ IsHttp(http) /\ SockInv(HttpTokens, HttpInputs) /\ IsSock(HttpTokens, psock)
      /\ Unacked => http.output /\ psock.busy /\ IsOutstanding(http)
      /\ http.turn = "output" => http.output
  BY DEF PageInv, HttpInv, SockInv
<1>2. link \in Links(HttpTokens) /\ link.sent \in Seq(HttpTokens) /\ OpenIfOutstanding(link)
  BY <1>1, LinkHas DEF SockInv
<1>3. call # NoCall => call \in Events(HttpInputs) /\ CanHappen(link, call)
  BY <1>1 DEF SockInv, Happens
<1>4. call.data \in Seq(InTokens)
  <2>1. CASE call = NoCall
    BY <2>1, InputIsTokens DEF NoCall
  <2>2. CASE call # NoCall
    BY <1>3, <2>2, EventHas, InputIsTokens
  <2> QED
    BY <2>1, <2>2
<1>5. Runs(call) => link.state # "closing"
  <2> SUFFICES ASSUME Runs(call) PROVE link.state # "closing"
    OBVIOUS
  <2>1. call \in Events(HttpInputs) /\ CanHappen(link, call) /\ ~EndsIt(call)
    BY <1>3 DEF Runs
  <2> QED
    BY <2>1 DEF CanHappen, EndsIt, CanInput
<1> QED
  BY <1>1, <1>2, <1>3, <1>4, <1>5 DEF PageParts

\* A statement that does not block.
LEMMA PageContinues ==
    ASSUME PageInv, HttpInv', Runs(call), UNCHANGED <<asked, call, got, link>>,
           Listens(http'.sin), http'.timer = http.timer, http'.len <= AppMss,
           NamesFile(http'),
           InSession(http', psock', call, got, asked.request, asked.sent)
    PROVE  PageInv'
<1>1. IsPatient'
  BY DEF IsPatient, Runs
<1>2. PageIsRight'
  BY DEF PageInv, PageIsRight
<1> QED
  BY <1>1, <1>2 DEF PageInv

\* One that blocks.
LEMMA PageReturns ==
    ASSUME PageInv, HttpInv', Runs(call), UNCHANGED asked,
           Listens(http'.sin), http'.timer = http.timer, http'.len <= AppMss,
           NamesFile(http'),
           NEW p, IsSock(HttpTokens, p), NEW a \in AnswersOf(HttpTokens), Returns(p, a),
           a.close \/ a = Otherwise \/ a.data # <<>>,
           a.close => call.kind # "rexmit" /\ (IsRequest(asked.request) =>
                                                   got = Response(asked.request)),
           ~a.close => \A q : q.busy = p.busy /\ q.rest = p.rest =>
               InSession(http', q, NoCall, got, asked.request, asked.sent)
    PROVE  PageInv'
<1>1. /\ link \in Links(HttpTokens) /\ call \in Events(HttpInputs) /\ CanHappen(link, call)
      /\ ~EndsIt(call) /\ a.data \in Seq(HttpTokens)
  BY PageHas DEF PageParts, Runs, AnswersOf
<1>2. /\ link' = After(link, call, a).link /\ call' = NoCall /\ got' = got
      /\ psock' = [p EXCEPT !.unread = [i \in DOMAIN p.unread |-> Junk]]
  BY DEF Returns, Answered
<1>3. /\ link'.state = "open" /\ link'.len = 0 => ~a.abort /\ ~a.close /\ a.data = <<>>
      /\ link'.state = "closing" => a.close
  BY <1>1, <1>2, AnswerIsHeard
<1>4. a.close /\ call.kind # "rexmit" => link'.state # "open"
  BY <1>1, <1>2, StateAfter
<1>5. psock'.busy = p.busy /\ psock'.rest = p.rest
  BY <1>2, SockForgets
<1>6. IsPatient'
  <2> SUFFICES ASSUME link'.state = "open", link'.len = 0 PROVE http'.timer < HttpdPolls
    BY DEF IsPatient
  <2>1. a = Otherwise /\ ~a.abort
    BY <1>3
  <2>2. ~(http.timer >= HttpdPolls)
    BY <2>1 DEF Otherwise, Abort
  <2>3. http.timer \in 0 .. HttpdPolls /\ HttpdPolls \in Nat
    BY HttpdAssumption DEF PageInv
  <2> QED
    BY <2>2, <2>3
<1>7. PageIsRight'
  BY <1>2, <1>3 DEF PageInv, PageIsRight
<1>8. Live' => InSession(http, psock, call, got, asked.request, asked.sent)'
  <2> SUFFICES ASSUME Live' PROVE InSession(http, psock, call, got, asked.request, asked.sent)'
    OBVIOUS
  <2>1. link'.state = "open"
    BY <1>2 DEF Live, Runs
  <2>2. ~a.close
    BY <1>4, <2>1
  <2>3. InSession(http', psock', NoCall, got, asked.request, asked.sent)
    BY <1>5, <2>2
  <2> QED
    BY <1>2, <2>3
<1> QED
  BY <1>2, <1>6, <1>7, <1>8 DEF PageInv

LEMMA PageIsTokens ==
    ASSUME NEW status \in {"200", "404"}, NEW name, Candidates(name) # {}
    PROVE  Page(status, name) \in Seq(HttpTokens)
<1> DEFINE first == Min(Candidates(name))
           text == HttpdFiles[first].text
           type == TypeOf(name)
           shown == IF status = "200" /\ IsScript(name) THEN ShownAll(text) ELSE text
<1>1. Page(status, name) = <<status, type>> \o shown
  BY DEF Page
<1>2. status \in HttpTokens /\ type \in HttpTokens
  BY WordsHave, TypeIsWord DEF HttpTokens
<1>3. first \in DOMAIN HttpdFiles
  <2>1. DOMAIN HttpdFiles \subseteq Nat
    BY HttpdAssumption
  <2>2. Candidates(name) \subseteq DOMAIN HttpdFiles
    BY DEF Candidates
  <2> QED
    BY <2>1, <2>2, MinIsOne
<1> HIDE DEF first, type
<1>4. text \in Seq(HttpTokens)
  BY <1>3, FilesAreTokens
<1> HIDE DEF text
<1>5. shown \in Seq(HttpTokens)
  BY <1>4, LinesAreShown
<1> HIDE DEF shown
<1>6. <<status, type>> \in Seq(HttpTokens)
  BY <1>2
<1> QED
  BY <1>1, <1>5, <1>6

LEMMA ResponseIsTokens ==
    ASSUME NEW request
    PROVE  Response(request) \in Seq(HttpTokens)
<1>1. Candidates(NotFound) # {}
  BY NotFoundMatches, NotFoundOpens DEF Opens
<1> QED
  BY <1>1, PageIsTokens DEF Response

\* What is acknowledged alone makes a difference to what is left.
LEMMA LeftUnacked ==
    ASSUME NEW h, NEW p, NEW e, ~e.acks
    PROVE  Left(h, p, e) = Left(h, p, NoCall)
<1>1. ~NoCall.acks
  BY DEF NoCall
<1>2. \A data : SendRest(p, data, e) = SendRest(p, data, NoCall)
  BY <1>1 DEF SendRest
<1>3. LeftNow(h, p, e) = LeftNow(h, p, NoCall)
  BY <1>1, <1>2 DEF LeftNow, IsText
<1> QED
  BY <1>3 DEF Left

\* A session with its client as it should be.
LEMMA SessionIsRight ==
    ASSUME NEW h, IsHttp(h), NEW p, IsSock(HttpTokens, p), NEW e, NEW sofar \in Seq(HttpTokens),
           NEW r, NEW n, InSession(h, p, e, sofar, r, n)
    PROVE  /\ IsRequest(r) => IsPrefix(sofar, Response(r))
           /\ ~IsRequest(r) => sofar = <<>>
<1> DEFINE all == Response(r)
           left == Left(h, p, e)
<1>1. all \in Seq(HttpTokens) /\ left \in Seq(HttpTokens)
  BY ResponseIsTokens, LeftIsTokens
<1>2. CASE sofar = <<>>
  <2>1. Then(sofar, all) = all
    BY <1>1, <1>2, ThenNothing
  <2> HIDE DEF all
  <2>2. IsPrefix(sofar, Then(sofar, all))
    BY <1>1, FirstIsPrefix
  <2> QED
    BY <1>2, <2>1, <2>2 DEF all
<1>3. CASE sofar # <<>>
  <2>1. SendsPage(h, p, e, sofar, r)
    BY <1>3 DEF InSession, ReadsRequest
  <2>2. IsRequest(r) /\ Then(sofar, left) = all
    BY <1>3, <2>1 DEF SendsPage
  <2> HIDE DEF left, all
  <2>3. IsPrefix(sofar, Then(sofar, left))
    BY <1>1, FirstIsPrefix
  <2> QED
    BY <2>2, <2>3 DEF all
<1> QED
  BY <1>2, <1>3

LEMMA NothingIsHeard ==
    ASSUME NEW r \in Seq(InTokens)
    PROVE  Heard(r, 0, <<>>)
<1>1. <<>> \in Seq(InTokens) /\ Len(<<>>) = 0 /\ Len(r) \in Nat
  BY InputIsTokens
<1> QED
  BY <1>1 DEF Heard

\* What the client sends next, which may be nothing.
LEMMA MoreIsHeard ==
    ASSUME NEW r \in Seq(InTokens), NEW n \in Nat, NEW said, Heard(r, n, said),
           NEW data \in Seq(InTokens),
           data # <<>> => data = IF Drop(r, n) = <<>> THEN <<"nl">> ELSE Cut(Drop(r, n), Len(data))
    PROVE  Heard(r, IF Drop(r, n) = <<>> THEN n ELSE n + Len(data), Then(said, data))
<1>1. CASE data = <<>>
  <2>1. said \in Seq(InTokens)
    BY DEF Heard
  <2>2. Then(said, data) = said
    BY <1>1, <2>1, ThenNothing
  <2>3. n + Len(data) = n
    BY <1>1
  <2> QED
    BY <2>2, <2>3
<1>2. CASE data # <<>>
  BY <1>2, HeardGoesOn
<1> QED
  BY <1>1, <1>2

\* What has been said before event e.
SaidBefore(e, said) ==
    IF e.kind = "connected" THEN said = <<>> ELSE Heard(asked.request, asked.sent, said)

\* The client goes on with its request, or begins one.
ClientSpeaksOn(e) ==
    /\ asked'.request \in Seq(InTokens) /\ asked'.sent \in Nat
    /\ e.kind # "connected" => asked'.request = asked.request
    /\ \A said : SaidBefore(e, said) => Heard(asked'.request, asked'.sent, Then(said, e.data))

LEMMA ClientSpeaks ==
    ASSUME PageInv, NEW e \in Events(HttpInputs), ClientSends(e)
    PROVE  ClientSpeaksOn(e)
<1>1. PICK r \in IF e.kind = "connected" THEN HttpdRequests ELSE {asked.request} :
          LET sent == IF e.kind = "connected" THEN 0 ELSE asked.sent
              rest == Drop(r, sent)
          IN  /\ e.data # <<>> => e.data = IF rest = <<>> THEN <<"nl">> ELSE Cut(rest, Len(e.data))
              /\ asked' = [request |-> r,
                           sent |-> IF rest = <<>> THEN sent ELSE sent + Len(e.data)]
  BY DEF ClientSends
<1> DEFINE n == IF e.kind = "connected" THEN 0 ELSE asked.sent
           m == IF Drop(r, n) = <<>> THEN n ELSE n + Len(e.data)
<1>2. /\ asked'.request = r /\ asked'.sent = m
      /\ e.data # <<>> => e.data = IF Drop(r, n) = <<>> THEN <<"nl">>
                                   ELSE Cut(Drop(r, n), Len(e.data))
  BY <1>1
<1>3. r \in Seq(InTokens) /\ n \in Nat
  BY <1>1, InputIsTokens DEF PageInv
<1>4. e.data \in Seq(InTokens)
  BY EventHas, InputIsTokens
<1>5. m \in Nat
  BY <1>3, <1>4
<1>6. ASSUME NEW said, SaidBefore(e, said)
      PROVE  Heard(r, n, said)
  BY <1>1, <1>3, <1>6, NothingIsHeard DEF SaidBefore
<1> HIDE DEF n
<1>7. ASSUME NEW said, SaidBefore(e, said)
      PROVE  Heard(r, m, Then(said, e.data))
  BY <1>2, <1>3, <1>4, <1>6, <1>7, MoreIsHeard
<1> HIDE DEF m
<1>8. e.kind # "connected" => r = asked.request
  BY <1>1
<1> QED
  BY <1>2, <1>3, <1>5, <1>7, <1>8 DEF ClientSpeaksOn

\* The server is as it was when a call begins, but for its timer.
SameSession(h, k) ==
    SamePage(h, k) /\ k.output = h.output /\ k.reading = h.reading /\ k.sin = h.sin

\* A call while the server reads the request.
LEMMA ReadingIsCalled ==
    ASSUME NEW h, NEW k, SameSession(h, k), NEW p, NEW sofar, NEW e, e # NoCall,
           NEW r, NEW n, ReadsRequest(h, p, NoCall, sofar, r, n), e.data \in Seq(InTokens),
           NEW s, NEW m, \A said : Heard(r, n, said) => Heard(s, m, Then(said, e.data))
    PROVE  ReadsRequest(k, p, e, sofar, s, m)
<1>1. /\ ~h.output /\ h.reading \in {"method", "path"} /\ h.pc = "open"
      /\ sofar = <<>> /\ ~p.busy /\ h.sin.unread = <<>> /\ h.sin.state # "READ"
  BY DEF ReadsRequest, ReadsInCall
<1>2. PICK text \in Seq(InTokens) :
          /\ Heard(r, n, Then(Then(WordsRead(h), text), ToRead(h.sin, NoCall)))
          /\ Without("sp", text)
          /\ IF h.sin.busy THEN h.sin.buf = Cut(text, PsockBufsize) ELSE text = <<>>
  BY DEF ReadsRequest
<1>3. ToRead(h.sin, NoCall) = <<>> /\ ToRead(h.sin, e) = e.data
  BY <1>1 DEF ToRead, TakesNewdata, Newdata, NoCall
<1>4. WordsRead(k) = WordsRead(h) /\ k.sin = h.sin
  BY DEF WordsRead, SameSession
<1> DEFINE words == WordsRead(h)
           said == Then(words, text)
<1>5. words \in Seq(InTokens)
  BY WordsAreInput
<1> HIDE DEF words
<1>6. said \in Seq(InTokens)
  BY <1>5, ThenIs DEF IsThen
<1> HIDE DEF said
<1>7. Then(said, <<>>) = said
  BY <1>6, ThenNothing
<1>8. Heard(r, n, said)
  BY <1>2, <1>3, <1>7 DEF said, words
<1>9. Heard(s, m, Then(said, e.data))
  BY <1>8
<1>10. Heard(s, m, Then(Then(WordsRead(k), text), ToRead(k.sin, e)))
  BY <1>3, <1>4, <1>9 DEF said, words
<1>11. ReadsInCall(k.sin, e)
  BY DEF ReadsInCall
<1>12. ~k.output /\ k.reading \in {"method", "path"} /\ k.pc = "open"
  BY <1>1 DEF SameSession, SamePage
<1> QED
  BY <1>1, <1>2, <1>4, <1>10, <1>11, <1>12 DEF ReadsRequest

\* A call while the server sends the page: sent is what the call acknowledges.
LEMMA SendingIsCalled ==
    ASSUME NEW h, IsHttp(h), NEW k, SameSession(h, k), NEW p, IsSock(HttpTokens, p),
           NEW sofar \in Seq(HttpTokens), NEW e, NEW r, SendsPage(h, p, NoCall, sofar, r),
           NEW sent,
           e.acks => /\ p.busy /\ h.pc \notin {"open", "close"} /\ sent = Outstanding(h, p)
                     /\ h.pc = "report" => h.report # <<>>
    PROVE  SendsPage(k, p, e, IF e.acks THEN Then(sofar, sent) ELSE sofar, r)
<1> DEFINE more == IF e.acks THEN Then(sofar, sent) ELSE sofar
<1>1. /\ k.pc = h.pc /\ k.name = h.name /\ k.report = h.report /\ k.output = h.output
      /\ Left(k, p, e) = Left(h, p, e)
  BY LeftOfSame DEF SameSession, SamePage
<1>2. Then(more, Left(h, p, e)) = Then(sofar, Left(h, p, NoCall))
  <2>1. CASE e.acks
    BY <2>1, LeftIsAcked
  <2>2. CASE ~e.acks
    BY <2>2, LeftUnacked
  <2> QED
    BY <2>1, <2>2
<1>3. h.pc = "open" => more = sofar
  OBVIOUS
<1> HIDE DEF more
<1>4. SendsPage(k, p, e, more, r)
  BY <1>1, <1>2, <1>3 DEF SendsPage
<1> QED
  BY <1>4 DEF more

LEMMA NewSockListens ==
    /\ Listens(NewPsock) /\ ~NewPsock.busy
    /\ \A e : ToRead(NewPsock, e) = e.data
<1>1. <<>> \in Seq(InTokens) /\ Len(<<>>) = 0 /\ PsockBufsize \in Nat
  BY InputIsTokens, PsockAssumption
<1>2. Listens(NewPsock) /\ ~NewPsock.busy /\ NewPsock.unread = <<>> /\ NewPsock.state = "NONE"
  BY <1>1 DEF NewPsock, Listens, SockFields
<1> QED
  BY <1>2 DEF ToRead, TakesNewdata, Newdata

\* A connection begins.
LEMMA SessionBegins ==
    ASSUME NEW e, e # NoCall, e.data \in Seq(InTokens), NEW r, NEW n, Heard(r, n, Then(<<>>, e.data))
    PROVE  ReadsRequest(NewHttp, NewPsock, e, <<>>, r, n)
<1> DEFINE h == NewHttp
<1>1. /\ ~h.output /\ h.reading = "method" /\ h.pc = "open" /\ h.sin = NewPsock
  BY DEF NewHttp
<1> HIDE DEF h
<1>2. <<>> \in Seq(InTokens)
  BY InputIsTokens
<1>3. WordsRead(h) = <<>> /\ Then(WordsRead(h), <<>>) = <<>>
  BY <1>1, <1>2, ThenNothing DEF WordsRead
<1>4. Heard(r, n, Then(Then(WordsRead(h), <<>>), ToRead(h.sin, e)))
  BY <1>1, <1>3, NewSockListens
<1>5. Without("sp", <<>>)
  BY DEF Without
<1>6. ReadsInCall(h.sin, e)
  BY DEF ReadsInCall
<1>7. ReadsRequest(h, NewPsock, e, <<>>, r, n)
  BY <1>1, <1>2, <1>4, <1>5, <1>6, NewSockListens DEF ReadsRequest
<1> QED
  BY <1>7 DEF h

\* What a call begins with.
HttpBegins(e) ==
    /\ call = NoCall /\ call' = e /\ e # NoCall /\ CanHappen(link, e) /\ link' = link
    /\ e.kind = "connected" => http' = NewHttp /\ psock' = NewPsock /\ got' = <<>>
    /\ e.kind # "connected" => /\ psock' = psock /\ SameSession(http, http')
                               /\ http'.len = http.len
                               /\ got' = IF e.acks THEN Then(got, link.sent) ELSE got
                               /\ http'.timer \in {http.timer, Timer(http, e)}
    /\ ClientSpeaksOn(e)
    /\ e.data \in Seq(InTokens)
    /\ e.acks => link.len > 0 /\ link.state = "open" /\ e.kind # "connected"

LEMMA EventBegins ==
    ASSUME PageInv, HttpdEvent
    PROVE  \E e \in Events(HttpInputs) : HttpBegins(e)
<1>1. PICK e \in Events(HttpInputs) : HttpdCalled(e) /\ ClientSends(e)
  BY DEF HttpdEvent, HttpInputs
<1>2. Begin(e) /\ psock' = IF e.kind = "connected" THEN NewPsock ELSE psock
  BY <1>1 DEF HttpdCalled
<1>3. e.kind \in Kinds /\ (e.acks => e.kind \in {"input", "closed"}) /\ e.data \in Seq(InTokens)
  BY EventHas, InputIsTokens
<1>4. call = NoCall /\ call' = e /\ CanHappen(link, e) /\ link' = link /\ e # NoCall
  <2>1. e # NoCall
    BY <1>3 DEF Kinds, NoCall
  <2> QED
    BY <1>2, <2>1 DEF Begin, Happens
<1>5. /\ e.kind = "connected" => got' = <<>>
      /\ e.kind # "connected" => got' = IF e.acks THEN Then(got, link.sent) ELSE got
  <2> DEFINE more == got \o link.sent
             none == <<>>
  <2>1. got' = CASE e.kind = "connected" -> none [] e.acks -> more [] OTHER -> got
    BY <1>2, Zenon DEF Begin
  <2>2. ~e.acks \/ e.kind # "connected"
    BY <1>3
  <2> HIDE DEF more, none
  <2>3. e.kind = "connected" => got' = none
    BY <2>1, <2>2
  <2>4. e.kind # "connected" => got' = IF e.acks THEN more ELSE got
    BY <2>1, <2>2
  <2> QED
    BY <2>3, <2>4 DEF more, none, Then
<1>6. e.acks => link.len > 0 /\ link.state = "open" /\ e.kind # "connected"
  <2> SUFFICES ASSUME e.acks PROVE link.len > 0 /\ link.state = "open" /\ e.kind # "connected"
    OBVIOUS
  <2>1. OpenIfOutstanding(link)
    BY PageHas DEF PageParts
  <2>2. link.len > 0
    BY <1>3, <1>4 DEF CanHappen, CanInput, CanClose
  <2> QED
    BY <1>3, <2>1, <2>2 DEF OpenIfOutstanding
<1>7. ClientSpeaksOn(e)
  BY <1>1, ClientSpeaks
<1>8. CASE e.kind = "connected"
  <2>1. http' = NewHttp
    BY <1>1, <1>8 DEF HttpdCalled, Opened, EndsIt
  <2> QED
    BY <1>2, <1>3, <1>4, <1>5, <1>6, <1>7, <1>8, <2>1 DEF HttpBegins
<1>9. CASE e.kind # "connected"
  <2> DEFINE timer == Timer(http, e)
             polled == [http EXCEPT !.timer = timer, !.turn = "input"]
  <2>1. http' \in {http, polled}
    BY <1>1, <1>9 DEF HttpdCalled
  <2>2. IsHttp(http)
    BY PageHas DEF PageParts
  <2> HIDE DEF timer
  <2>3. SameSession(http, polled) /\ polled.len = http.len /\ polled.timer = timer
    BY <2>2 DEF SameSession, SamePage, IsHttp, HttpFields
  <2> HIDE DEF polled
  <2>4. SameSession(http, http) /\ SameSession(http, http') /\ http'.len = http.len
        /\ http'.timer \in {http.timer, timer}
    BY <2>1, <2>3 DEF SameSession, SamePage
  <2>5. psock' = psock
    BY <1>2, <1>9
  <2> QED
    BY <1>3, <1>4, <1>5, <1>6, <1>7, <1>9, <2>4, <2>5 DEF HttpBegins, timer
<1> QED
  BY <1>8, <1>9

LEMMA SessionGoesOn ==
    ASSUME PageInv, NEW e \in Events(HttpInputs), HttpBegins(e), Live'
    PROVE  InSession(http', psock', e, got', asked'.request, asked'.sent)
<1> DEFINE r == asked.request
           n == asked.sent
           s == asked'.request
           m == asked'.sent
<1>1. IsHttp(http) /\ IsSock(HttpTokens, psock) /\ got \in Seq(HttpTokens)
  BY PageHas DEF PageParts, PageInv
<1>2. \A said : SaidBefore(e, said) => Heard(s, m, Then(said, e.data))
  BY DEF HttpBegins, ClientSpeaksOn
<1>3. e.data \in Seq(InTokens) /\ e # NoCall
  BY DEF HttpBegins
<1>4. CASE e.kind = "connected"
  <2>1. Heard(s, m, Then(<<>>, e.data))
    BY <1>2, <1>4 DEF SaidBefore
  <2> HIDE DEF s, m
  <2>2. ReadsRequest(NewHttp, NewPsock, e, <<>>, s, m)
    BY <1>3, <2>1, SessionBegins
  <2>3. http' = NewHttp /\ psock' = NewPsock /\ got' = <<>>
    BY <1>4 DEF HttpBegins
  <2>4. ReadsRequest(http', psock', e, got', s, m)
    BY <2>2, <2>3
  <2> QED
    BY <2>4 DEF InSession, s, m
<1>5. CASE e.kind # "connected"
  <2>1. /\ psock' = psock /\ SameSession(http, http') /\ s = r
        /\ got' = IF e.acks THEN Then(got, link.sent) ELSE got
        /\ \A said : Heard(r, n, said) => Heard(s, m, Then(said, e.data))
    BY <1>2, <1>5 DEF HttpBegins, ClientSpeaksOn, SaidBefore
  <2>2. InSession(http, psock, NoCall, got, r, n)
    <3>1. link.state = "open"
      <4>1. link.state = "open" \/ Runs(e)
        BY DEF Live, HttpBegins
      <4>2. Runs(e) => link.state = "open"
        BY <1>5 DEF Runs, EndsIt, HttpBegins, CanHappen, CanInput
      <4> QED
        BY <4>1, <4>2
    <3> QED
      BY <3>1 DEF PageInv, Live, HttpBegins
  <2>3. Unacked <=> link.len > 0
    BY DEF HttpBegins, Unacked, NoCall
  <2>4. e.acks => http.output /\ psock.busy /\ IsOutstanding(http)
    BY <2>3, PageHas DEF HttpBegins, PageParts
  <2> HIDE DEF r, n, s, m
  <2>5. CASE ReadsRequest(http, psock, NoCall, got, r, n)
    <3>1. ~e.acks
      BY <2>4, <2>5 DEF ReadsRequest
    <3>2. ReadsRequest(http', psock, e, got, s, m)
      BY <1>3, <2>1, <2>5, ReadingIsCalled
    <3> QED
      BY <2>1, <3>1, <3>2 DEF InSession, s, m
  <2>6. CASE SendsPage(http, psock, NoCall, got, r)
    <3> DEFINE sent == link.sent
    <3>1. e.acks => /\ psock.busy /\ http.pc \notin {"open", "close"}
                    /\ sent = Outstanding(http, psock)
                    /\ http.pc = "report" => http.report # <<>>
      BY <2>4 DEF IsOutstanding, Outstanding, IsText
    <3> HIDE DEF sent
    <3>2. SendsPage(http', psock, e, IF e.acks THEN Then(got, sent) ELSE got, r)
      BY <1>1, <2>1, <2>6, <3>1, SendingIsCalled
    <3>3. SendsPage(http', psock', e, got', s)
      BY <2>1, <3>2 DEF sent
    <3> QED
      BY <3>3 DEF InSession, s, m
  <2> QED
    BY <2>2, <2>5, <2>6 DEF InSession
<1> QED
  BY <1>4, <1>5

\* The silent polls are counted.
LEMMA TimerIsCounted ==
    ASSUME PageInv, NEW e \in Events(HttpInputs), HttpBegins(e)
    PROVE  http'.timer \in 0 .. HttpdPolls
<1>1. http.timer \in 0 .. HttpdPolls /\ HttpdPolls \in Nat \ {0}
  BY HttpdAssumption DEF PageInv
<1>2. CASE e.kind = "connected"
  <2>1. http' = NewHttp
    BY <1>2 DEF HttpBegins
  <2>2. http'.timer = 0
    BY <2>1 DEF NewHttp
  <2> QED
    BY <1>1, <2>2
<1>3. CASE e.kind # "connected"
  <2>1. http'.timer \in {http.timer, Timer(http, e)}
    BY <1>3 DEF HttpBegins
  <2>2. e.kind = "poll" => http.timer < HttpdPolls
    <3> SUFFICES ASSUME e.kind = "poll" PROVE http.timer < HttpdPolls
      OBVIOUS
    <3>1. link.state = "open" /\ link.len = 0 /\ call = NoCall
      BY DEF HttpBegins, CanHappen
    <3> QED
      BY <3>1 DEF PageInv, IsPatient
  <2>3. Timer(http, e) \in 0 .. HttpdPolls
    BY <1>1, <2>2 DEF Timer
  <2> QED
    BY <1>1, <2>1, <2>3
<1> QED
  BY <1>2, <1>3

LEMMA PageIsCalled ==
    ASSUME PageInv, HttpInv', HttpdEvent
    PROVE  PageInv'
<1>1. PICK e \in Events(HttpInputs) : HttpBegins(e)
  BY EventBegins
<1>2. /\ IsHttp(http) /\ link.sent \in Seq(HttpTokens) /\ got \in Seq(HttpTokens)
      /\ http.len <= AppMss /\ Listens(http.sin)
      /\ NamesFile(http)
  BY PageHas DEF PageParts, PageInv
<1>3. call' = e /\ e # NoCall /\ link' = link
  BY <1>1 DEF HttpBegins
<1>4. got' \in Seq(HttpTokens)
  <2>1. Then(got, link.sent) \in Seq(HttpTokens) /\ <<>> \in Seq(HttpTokens)
    BY <1>2, ThenIs, WordsAreTokens DEF IsThen
  <2>2. got' \in {got, <<>>, Then(got, link.sent)}
    BY <1>1 DEF HttpBegins
  <2> QED
    BY <1>2, <2>1, <2>2
<1>5. asked'.request \in Seq(InTokens) /\ asked'.sent \in Nat
  BY <1>1 DEF HttpBegins, ClientSpeaksOn
<1>6. http'.timer \in 0 .. HttpdPolls
  BY <1>1, TimerIsCounted
<1>7. IsPatient'
  BY <1>3 DEF IsPatient
<1>8. /\ Listens(http'.sin) /\ http'.len <= AppMss
      /\ NamesFile(http')
  <2>1. CASE e.kind = "connected"
    <3>1. http' = NewHttp
      BY <1>1, <2>1 DEF HttpBegins
    <3>2. NewHttp.sin = NewPsock /\ NewHttp.len = 0 /\ NamesFile(NewHttp)
      BY DEF NewHttp, NamesFile
    <3> QED
      BY <3>1, <3>2, NewSockListens, AppAssumption
  <2>2. CASE e.kind # "connected"
    <3>1. SameSession(http, http') /\ http'.len = http.len
      BY <1>1, <2>2 DEF HttpBegins
    <3> QED
      BY <1>2, <3>1 DEF SameSession, SamePage, NamesFile
  <2> QED
    BY <2>1, <2>2
<1>9. Live' => InSession(http, psock, call, got, asked.request, asked.sent)'
  BY <1>1, <1>3, SessionGoesOn
<1>10. PageIsRight'
  <2>1. CASE Live'
    <3> DEFINE r == asked'.request
               n == asked'.sent
    <3>1. IsHttp(http') /\ IsSock(HttpTokens, psock')
      BY DEF HttpInv, SockInv
    <3>2. InSession(http', psock', e, got', r, n)
      BY <1>3, <1>9, <2>1
    <3>3. /\ IsRequest(r) => IsPrefix(got', Response(r))
          /\ ~IsRequest(r) => got' = <<>>
      <4> HIDE DEF r, n
      <4> QED
        BY <1>4, <3>1, <3>2, SessionIsRight
    <3>4. link'.state # "closing"
      <4>1. link'.state = "open" \/ Runs(e)
        BY <1>3, <2>1 DEF Live
      <4>2. CanHappen(link, e)
        BY <1>1 DEF HttpBegins
      <4>3. Runs(e) => link.state # "closing"
        BY <4>2 DEF Runs, EndsIt, CanHappen, CanInput
      <4> QED
        BY <1>3, <4>1, <4>3
    <3> QED
      BY <3>3, <3>4 DEF PageIsRight
  <2>2. CASE ~Live'
    <3>1. link.state # "open" /\ ~Runs(e)
      BY <1>3, <2>2 DEF Live
    <3>2. EndsIt(e) /\ e.kind # "connected" /\ ~e.acks
      BY <1>1, <1>3, <3>1 DEF Runs, EndsIt, HttpBegins
    <3>3. got' = got /\ asked'.request = asked.request
      BY <1>1, <3>2 DEF HttpBegins, ClientSpeaksOn
    <3> QED
      BY <1>3, <3>3 DEF PageInv, PageIsRight
  <2> QED
    BY <2>1, <2>2
<1> QED
  BY <1>4, <1>5, <1>6, <1>7, <1>8, <1>9, <1>10 DEF PageInv

\* handle_input() in a call.
LEMMA InputHas ==
    ASSUME PageInv, Handling("input")
    PROVE  /\ Runs(call) /\ IsHttp(http) /\ IsSock(HttpTokens, psock) /\ Listens(http.sin)
           /\ call # NoCall /\ call.data \in Seq(InTokens) /\ asked.request \in Seq(InTokens)
           /\ http.len <= AppMss
           /\ NamesFile(http)
           /\ InSession(http, psock, call, got, asked.request, asked.sent)
           /\ http.reading # "lines" =>
                  /\ ReadsRequest(http, psock, call, got, asked.request, asked.sent)
                  /\ Mark = "sp" /\ ~http.output /\ call.kind # "rexmit"
           /\ http.reading = "lines" =>
                  SendsPage(http, psock, call, got, asked.request) /\ Mark = "nl" /\ http.output
<1>1. Runs(call) /\ call # NoCall
  BY DEF Handling, Runs
<1>2. InSession(http, psock, call, got, asked.request, asked.sent)
  BY <1>1 DEF PageInv, Live
<1>3. http.reading # "lines" => ~http.output
  BY DEF PageInv, HttpInv
<1>4. ~http.output => call.kind # "rexmit"
  <2>1. CanHappen(link, call) /\ call \in Events(HttpInputs)
    BY <1>1, PageHas DEF PageParts
  <2>2. call.kind = "rexmit" => link.len > 0 /\ ~call.acks
    BY <2>1, EventHas DEF CanHappen
  <2>3. call.kind = "rexmit" => Unacked
    BY <2>2 DEF Unacked
  <2> QED
    BY <2>3, PageHas DEF PageParts
<1>5. http.reading # "lines" => ReadsRequest(http, psock, call, got, asked.request, asked.sent)
  BY <1>2, <1>3 DEF InSession, SendsPage
<1>6. http.reading = "lines" => SendsPage(http, psock, call, got, asked.request)
  BY <1>2 DEF InSession, ReadsRequest
<1>7. http.reading = "lines" => http.output
  BY <1>6 DEF SendsPage
<1> QED
  BY <1>1, <1>2, <1>3, <1>4, <1>5, <1>6, <1>7, PageHas DEF PageParts, PageInv, Mark

\* A word of the request line has been read, or a line after it.
LEMMA PageIsRead ==
    ASSUME PageInv, HttpInv', HttpdMethod \/ HttpdPath \/ HttpdLine
    PROVE  PageInv'
<1> DEFINE r == asked.request
           n == asked.sent
           q == ReadTo(http.sin, call, Mark).p
           name == NameIn(q.buf)
<1>1. Handling("input") /\ InputEnds /\ UNCHANGED <<asked, psock, call, got, link>>
  BY DEF HttpdMethod, HttpdPath, HttpdLine
<1>2. Sin = NextWord(q) /\ ReadEnds(http.sin, call, Mark)
  BY <1>1 DEF Sin, InputRead, NextWord, InputEnds
<1>3. IsHttp(http) /\ r \in Seq(InTokens) /\ http.len <= AppMss
  BY <1>1, InputHas
<1>4. Listens(q)
  <2>1. Mark \in InTokens
    BY InputIsTokens DEF Mark
  <2>2. ReadsOn(http.sin, q, call, Mark, ReadEnds(http.sin, call, Mark))
    BY <1>1, <2>1, InputHas, ReadToReadsOn
  <2> QED
    BY <2>2 DEF ReadsOn
<1> HIDE DEF q
<1>5. Listens(Sin) /\ Sin.buf = q.buf
  BY <1>2, <1>4, WordsListen
<1>6. CASE HttpdMethod
  <2> DEFINE k == [http EXCEPT !.sin = NextWord(q), !.reading = "path"]
  <2>1. http' = k /\ http.reading = "method" /\ q.buf = <<"GET", "sp">>
    BY <1>2, <1>5, <1>6 DEF HttpdMethod
  <2>2. ReadsRequest(http, psock, call, got, r, n) /\ Mark = "sp"
    BY <1>1, <2>1, InputHas
  <2>3. ReadsRequest(k, psock, call, got, r, n)
    BY <1>1, <1>2, <1>3, <2>1, <2>2, InputHas, MethodIsRead DEF q
  <2>4. /\ k.sin = Sin /\ k.timer = http.timer /\ k.len = http.len /\ k.output = http.output
        /\ k.name = http.name /\ k.pc = http.pc /\ k.status = http.status
    BY <1>2, <1>3 DEF IsHttp, HttpFields
  <2> HIDE DEF k
  <2>5. InSession(http', psock', call, got, r, n)
    BY <1>1, <2>1, <2>3 DEF InSession
  <2> HIDE DEF r, n
  <2>6. NamesFile(http')
    BY <1>1, <2>1, <2>4, InputHas DEF NamesFile
  <2> QED
    BY <1>1, <1>3, <1>5, <2>1, <2>4, <2>5, <2>6, InputHas, PageContinues DEF r, n
<1>7. CASE HttpdPath
  <2> DEFINE k == [http EXCEPT !.sin = NextWord(q), !.reading = "lines", !.output = TRUE,
                               !.name = name]
  <2>1. http' = k /\ http.reading = "path" /\ q.buf[1] = "/"
    BY <1>2, <1>5, <1>7 DEF HttpdPath
  <2>2. ReadsRequest(http, psock, call, got, r, n) /\ Mark = "sp" /\ http.pc = "open"
    BY <1>1, <2>1, InputHas DEF ReadsRequest
  <2>3. SendsPage(k, psock, call, got, r)
    BY <1>1, <1>2, <1>3, <2>1, <2>2, InputHas, PathIsRead DEF q
  <2> HIDE DEF name
  <2>4. /\ k.sin = Sin /\ k.timer = http.timer /\ k.len = http.len /\ k.pc = http.pc
    BY <1>2, <1>3 DEF IsHttp, HttpFields
  <2> HIDE DEF k
  <2>5. InSession(http', psock', call, got, r, n)
    BY <1>1, <2>1, <2>3 DEF InSession
  <2> HIDE DEF r, n
  <2>6. NamesFile(http')
    BY <2>1, <2>2, <2>4 DEF NamesFile
  <2> QED
    BY <1>1, <1>3, <1>5, <2>1, <2>4, <2>5, <2>6, InputHas, PageContinues DEF r, n
<1>8. CASE HttpdLine
  <2> DEFINE k == [http EXCEPT !.sin = Sin]
  <2>1. http' = k /\ http.reading = "lines"
    BY <1>8 DEF HttpdLine
  <2>2. SendsPage(http, psock, call, got, r)
    BY <1>1, <2>1, InputHas
  <2>3. SameSession(http, [k EXCEPT !.sin = http.sin]) /\ SamePage(http, k)
        /\ k.sin = Sin /\ k.timer = http.timer /\ k.len = http.len /\ k.output = http.output
    BY <1>3 DEF IsHttp, HttpFields, SameSession, SamePage
  <2> HIDE DEF k
  <2>4. Left(k, psock, call) = Left(http, psock, call)
    BY <2>3, LeftOfSame
  <2>5. SendsPage(k, psock, call, got, r)
    BY <2>2, <2>3, <2>4 DEF SendsPage, SamePage
  <2>6. InSession(http', psock', call, got, r, n)
    BY <1>1, <2>1, <2>5 DEF InSession
  <2> HIDE DEF r, n
  <2>7. NamesFile(http')
    BY <1>1, <2>1, <2>3, InputHas DEF SamePage, NamesFile
  <2> QED
    BY <1>1, <1>3, <1>5, <2>1, <2>3, <2>6, <2>7, InputHas, PageContinues DEF r, n
<1> QED
  BY <1>6, <1>7, <1>8

\* A request for nothing: the connection is closed.
LEMMA PageIsRefused ==
    ASSUME PageInv, HttpInv', HttpdRefuse
    PROVE  PageInv'
<1> DEFINE r == asked.request
           q == ReadTo(http.sin, call, "sp").p
<1>1. /\ Handling("input") /\ InputEnds /\ UNCHANGED asked /\ Returns(psock, Close)
      /\ http' = [http EXCEPT !.sin = NewPsock] /\ http.reading # "lines"
      /\ \/ http.reading = "method" /\ Sin.buf # <<"GET", "sp">>
         \/ http.reading = "path" /\ Sin.buf[1] # "/"
  BY DEF HttpdRefuse
<1>2. /\ ReadsRequest(http, psock, call, got, r, asked.sent) /\ Mark = "sp"
      /\ call.kind # "rexmit" /\ ~http.output /\ IsHttp(http) /\ r \in Seq(InTokens)
  BY <1>1, InputHas
<1>3. Sin = NextWord(q) /\ ReadEnds(http.sin, call, "sp")
  BY <1>1, <1>2 DEF Sin, InputRead, NextWord, InputEnds
<1>4. Listens(q)
  <2>1. ReadsOn(http.sin, q, call, "sp", ReadEnds(http.sin, call, "sp"))
    BY <1>1, InputHas, ReadToReadsOn, InputIsTokens
  <2> QED
    BY <2>1 DEF ReadsOn
<1>5. ~IsRequest(r)
  <2>1. Sin.buf = q.buf
    BY <1>3, <1>4, WordsListen
  <2>2. CASE http.reading = "method" /\ q.buf # <<"GET", "sp">>
    BY <1>1, <1>2, <1>3, <2>2, InputHas, MethodIsRead
  <2>3. CASE http.reading = "path" /\ q.buf[1] # "/"
    BY <1>1, <1>2, <1>3, <2>3, InputHas, PathIsRead
  <2> QED
    BY <1>1, <2>1, <2>2, <2>3
<1> HIDE DEF q
<1>6. /\ http'.sin = NewPsock /\ http'.timer = http.timer /\ http'.len = http.len
      /\ http'.output = http.output /\ NamesFile(http')
  <2>1. /\ http'.pc = http.pc /\ http'.name = http.name /\ http'.status = http.status
    BY <1>1, <1>2 DEF IsHttp, HttpFields
  <2>2. NamesFile(http')
    BY <1>1, <2>1, InputHas DEF NamesFile
  <2> QED
    BY <1>1, <1>2, <2>2 DEF IsHttp, HttpFields
<1>7. Close.close /\ Close \in AnswersOf(HttpTokens)
  BY WordsAreTokens DEF Close, AnswersOf
<1> QED
  BY <1>1, <1>2, <1>5, <1>6, <1>7, InputHas, NewSockListens, PageReturns

\* There is nothing more to read: the call is over, or the page is sent on.
LEMMA PageWaits ==
    ASSUME PageInv, HttpInv', HttpdWaits
    PROVE  PageInv'
<1> DEFINE r == asked.request
           n == asked.sent
           q == ReadTo(http.sin, call, Mark).p
           turn == IF http.output THEN "output" ELSE http.turn
           k == [http EXCEPT !.sin = Waiting(q), !.turn = turn]
<1>1. /\ Handling("input") /\ ~ReadEnds(http.sin, call, Mark) /\ UNCHANGED asked
      /\ IF http.output THEN UNCHANGED <<psock, call, got, link>> ELSE Returns(psock, Otherwise)
  BY DEF HttpdWaits, InputEnds
<1>2. http' = k
  BY DEF HttpdWaits, InputRead, Waiting
<1>3. IsHttp(http) /\ http.len <= AppMss /\ r \in Seq(InTokens) /\ IsSock(HttpTokens, psock)
  BY <1>1, InputHas
<1>4. Listens(q) /\ q.unread = <<>>
  <2>1. Mark \in InTokens
    BY InputIsTokens DEF Mark
  <2>2. ReadsOn(http.sin, q, call, Mark, ReadEnds(http.sin, call, Mark))
    BY <1>1, <2>1, InputHas, ReadToReadsOn
  <2> QED
    BY <1>1, <2>2 DEF ReadsOn
<1> HIDE DEF q, turn
<1>5. Listens(Waiting(q))
  BY <1>4, WordsListen
<1>6. /\ k.sin = Waiting(q) /\ k.timer = http.timer /\ k.len = http.len /\ k.output = http.output
      /\ SamePage(http, k)
  BY <1>3 DEF IsHttp, HttpFields, SamePage
<1>7. NamesFile(http')
  <2> HIDE DEF k
  <2> QED
    BY <1>1, <1>2, <1>6, InputHas DEF SamePage, NamesFile
<1>8. CASE http.output
  <2>1. SendsPage(http, psock, call, got, r)
    BY <1>1, <1>8, InputHas
  <2> HIDE DEF k
  <2>2. Left(k, psock, call) = Left(http, psock, call)
    BY <1>6, LeftOfSame
  <2>3. SendsPage(k, psock, call, got, r)
    BY <1>6, <2>1, <2>2 DEF SendsPage, SamePage
  <2>4. InSession(http', psock', call, got, r, n)
    BY <1>1, <1>2, <1>8, <2>3 DEF InSession
  <2> HIDE DEF r, n
  <2> QED
    BY <1>1, <1>2, <1>3, <1>5, <1>6, <1>7, <1>8, <2>4, InputHas, PageContinues DEF r, n
<1>9. CASE ~http.output
  <2>1. Returns(psock, Otherwise) /\ http.reading # "lines"
    BY <1>1, <1>9, InputHas
  <2>2. ReadsRequest(http, psock, call, got, r, n) /\ Mark = "sp"
    BY <1>1, <2>1, InputHas
  <2>3. ~psock.busy
    BY <2>2 DEF ReadsRequest
  <2>4. ASSUME NEW o, o.busy = psock.busy
        PROVE  ReadsRequest(k, o, NoCall, got, r, n)
    BY <1>1, <1>3, <2>2, <2>3, <2>4, InputHas, WordIsAwaited DEF q
  <2>5. \A o : o.busy = psock.busy /\ o.rest = psock.rest =>
            InSession(http', o, NoCall, got, r, n)
    BY <1>2, <2>4 DEF InSession
  <2>6. Otherwise \in AnswersOf(HttpTokens) /\ ~Otherwise.close
    BY WordsAreTokens DEF Otherwise, Abort, Silent, Answer, AnswersOf
  <2> HIDE DEF k, r, n
  <2> QED
    BY <1>1, <1>2, <1>3, <1>5, <1>6, <1>7, <2>1, <2>5, <2>6, InputHas, PageReturns DEF r, n
<1> QED
  BY <1>8, <1>9

\* handle_output() in a call.
LEMMA OutputHas ==
    ASSUME PageInv, Handling("output")
    PROVE  /\ Runs(call) /\ IsHttp(http) /\ IsSock(HttpTokens, psock) /\ Listens(http.sin)
           /\ call # NoCall /\ got \in Seq(HttpTokens) /\ http.len <= AppMss
           /\ NamesFile(http)
           /\ SendsPage(http, psock, call, got, asked.request) /\ http.output
           /\ call.kind = "rexmit" => IsOutstanding(http)
<1>1. Runs(call) /\ call # NoCall /\ http.turn = "output" /\ http.output
  BY PageHas DEF Handling, Runs, PageParts
<1>2. InSession(http, psock, call, got, asked.request, asked.sent)
  BY <1>1 DEF PageInv, Live
<1>3. SendsPage(http, psock, call, got, asked.request)
  BY <1>1, <1>2 DEF InSession, ReadsRequest
<1>4. call.kind = "rexmit" => IsOutstanding(http)
  <2>1. CanHappen(link, call) /\ call \in Events(HttpInputs)
    BY <1>1, PageHas DEF PageParts
  <2>2. call.kind = "rexmit" => link.len > 0 /\ ~call.acks
    BY <2>1, EventHas DEF CanHappen
  <2>3. call.kind = "rexmit" => Unacked
    BY <2>2 DEF Unacked
  <2> QED
    BY <2>3, PageHas DEF PageParts
<1>5. NamesFile(http)
  BY <1>1 DEF PageInv
<1> QED
  BY <1>1, <1>3, <1>4, <1>5, PageHas DEF PageParts, PageInv

\* A statement is behind, and with it what it had to send.
LEMMA PageMovesOn ==
    ASSUME PageInv, HttpInv', Handling("output"), http.pc # "open",
           UNCHANGED <<asked, call, got, link>>, ~psock'.busy,
           GoesOnWith(http, http', psock', call, Left(http, psock, call))
    PROVE  PageInv'
<1> DEFINE r == asked.request
<1>1. /\ http'.name = http.name /\ http'.status = http.status /\ http'.output = http.output
      /\ http'.sin = http.sin /\ http'.timer = http.timer /\ http'.len <= AppMss
      /\ http'.pc # "open" /\ Left(http', psock', call) = Left(http, psock, call)
  BY DEF GoesOnWith
<1>2. SendsPage(http, psock, call, got, r)
  BY OutputHas
<1>3. SendsPage(http', psock', call, got, r)
  BY <1>1, <1>2 DEF SendsPage
<1>4. InSession(http', psock', call, got, r, asked.sent)
  BY <1>3 DEF InSession
<1>5. NamesFile(http')
  BY <1>1, OutputHas DEF NamesFile
<1> QED
  BY <1>1, <1>4, <1>5, OutputHas, PageContinues

\* It blocks, with what is left as it was.
LEMMA PageBlocks ==
    ASSUME PageInv, HttpInv', Handling("output"), http.pc \notin {"open", "close"},
           http.pc = "report" => http.report # <<>>, UNCHANGED <<asked, http>>,
           NEW p, IsSock(HttpTokens, p), p.busy,
           IF IsText(http) THEN p.rest = SendRest(psock, Text(http), call)
           ELSE ~(psock.busy /\ call.acks),
           NEW a \in AnswersOf(HttpTokens), ~a.close, a = Otherwise \/ a.data # <<>>, Returns(p, a)
    PROVE  PageInv'
<1> DEFINE r == asked.request
<1>1. SendsPage(http, psock, call, got, r)
  BY OutputHas
<1>2. ASSUME NEW q, q.busy = p.busy, q.rest = p.rest
      PROVE  InSession(http', q, NoCall, got, r, asked.sent)
  <2>1. Left(http, q, NoCall) = Left(http, psock, call)
    BY <1>2, LeftStays
  <2>2. SendsPage(http, q, NoCall, got, r)
    BY <1>1, <2>1 DEF SendsPage
  <2> QED
    BY <2>2 DEF InSession
<1>3. Runs(call) /\ Listens(http'.sin) /\ http'.len <= AppMss
      /\ NamesFile(http')
  BY OutputHas
<1> QED
  BY <1>2, <1>3, PageReturns

\* What is answered with the data of a statement, or with none.
LEMMA AnswerIsData ==
    ASSUME NEW data \in Seq(HttpTokens)
    PROVE  LET a == IF data = <<>> THEN Otherwise ELSE Answer(data)
           IN  a \in AnswersOf(HttpTokens) /\ ~a.close /\ (a = Otherwise \/ a.data # <<>>)
<1>1. Otherwise \in AnswersOf(HttpTokens) /\ ~Otherwise.close
  BY WordsAreTokens DEF Otherwise, Abort, Silent, Answer, AnswersOf
<1>2. Answer(data) \in AnswersOf(HttpTokens) /\ ~Answer(data).close /\ Answer(data).data = data
  BY AnswersHave
<1> QED
  BY <1>1, <1>2

LEMMA PageIsOpened ==
    ASSUME PageInv, HttpInv', HttpdOpen
    PROVE  PageInv'
<1> DEFINE r == asked.request
           k == Opening(http)
<1>1. /\ Handling("output") /\ http.pc = "open" /\ http' = k
      /\ UNCHANGED <<asked, psock, call, got, link>>
  BY DEF HttpdOpen, At, Continues, Opening
<1>2. SendsPage(http, psock, call, got, r)
  BY <1>1, OutputHas
<1>3. IsRequest(r) /\ got = <<>> /\ ~psock.busy /\ http.name = Named(r)
  BY <1>1, <1>2 DEF SendsPage
<1>4. /\ NamesFile(k) /\ k.output = http.output /\ k.sin = http.sin
      /\ k.timer = http.timer /\ k.len <= AppMss /\ k.pc = "status"
      /\ Left(k, psock, call) = Response(r)
  <2>1. IsHttp(http) /\ http.len <= AppMss /\ IsSock(HttpTokens, psock)
    BY <1>1, OutputHas
  <2>2. r \in Seq(InTokens)
    BY DEF PageInv
  <2> QED
    BY <1>3, <2>1, <2>2, OpeningGoesOn
<1> HIDE DEF k
<1>5. Then(got, Left(k, psock, call)) = Response(r)
  BY <1>3, <1>4, ResponseIsTokens, ThenNothing
<1>6. SendsPage(k, psock, call, got, r)
  BY <1>1, <1>3, <1>4, <1>5, OutputHas DEF SendsPage
<1>7. InSession(http', psock', call, got, r, asked.sent)
  BY <1>1, <1>6 DEF InSession
<1> QED
  BY <1>1, <1>4, <1>7, OutputHas, PageContinues

LEMMA TextIsSent ==
    ASSUME PageInv, HttpInv', HttpdText
    PROVE  PageInv'
<1> DEFINE text == Text(http)
<1>1. Handling("output") /\ IsText(http) /\ UNCHANGED asked /\ http.pc \notin {"open", "close"}
  BY DEF HttpdText, IsText
<1>2. IsHttp(http) /\ http.len <= AppMss /\ IsSock(HttpTokens, psock)
  BY <1>1, OutputHas
<1>3. text \in Seq(HttpTokens)
  BY <1>1, <1>2, TextIsTokens DEF IsText
<1>4. CASE PsockSend(text) /\ http' = AfterText(http)
  <2>1. psock' = Ended(psock) /\ UNCHANGED <<call, got, link>> /\ SendRest(psock, text, call) = <<>>
    BY <1>4 DEF PsockSend, GoesOn, SendEnds
  <2>2. IsSock(HttpTokens, psock') /\ ~psock'.busy
    BY <1>2, <2>1, SockEnds DEF Ended, IsSock, SockFields
  <2>3. Left(http, psock, call) = LeftThen(http)
    <3>1. LeftNow(http, psock, call) = <<>>
      BY <1>1, <2>1 DEF LeftNow, IsText
    <3>2. LeftThen(http) \in Seq(HttpTokens)
      BY <1>2, LeftIsTokens
    <3> QED
      BY <3>1, <3>2, ThenNothing DEF Left
  <2>4. GoesOnWith(http, http', psock', call, LeftThen(http))
    BY <1>1, <1>2, <1>4, <2>2, StatementGoesOn
  <2>5. GoesOnWith(http, http', psock', call, Left(http, psock, call))
    BY <2>3, <2>4
  <2> QED
    BY <1>1, <2>1, <2>2, <2>5, PageMovesOn
<1>5. CASE PsockSendBlocks(text, Otherwise) /\ UNCHANGED http
  <2> DEFINE p == SendBlocked(psock, text, call)
             chunk == SendChunk(psock, text, call)
             a == IF chunk = <<>> THEN Otherwise ELSE Answer(chunk)
  <2>1. Returns(p, a)
    BY <1>5 DEF PsockSendBlocks
  <2>2. /\ IsSock(HttpTokens, p) /\ p.busy = TRUE /\ p.rest = SendRest(psock, text, call)
        /\ SendRest(psock, text, call) \in Seq(HttpTokens)
    BY <1>2, <1>3, SendsBlock
  <2>3. chunk \in Seq(HttpTokens)
    <3> DEFINE rest == SendRest(psock, text, call)
    <3>1. rest \in Seq(HttpTokens) /\ AppMss \in Nat
      BY <2>2, AppAssumption
    <3>2. chunk \in {Cut(rest, AppMss), <<>>}
      BY DEF SendChunk
    <3> HIDE DEF rest
    <3>3. Cut(rest, AppMss) \in Seq(HttpTokens)
      BY <3>1, CutIsFront
    <3> QED
      BY <3>2, <3>3, WordsAreTokens
  <2> HIDE DEF p, chunk
  <2>4. a \in AnswersOf(HttpTokens) /\ ~a.close /\ (a = Otherwise \/ a.data # <<>>)
    BY <2>3, AnswerIsData
  <2> HIDE DEF a
  <2>5. http.pc # "report"
    BY <1>1 DEF IsText
  <2> QED
    BY <1>1, <1>5, <2>1, <2>2, <2>4, <2>5, PageBlocks
<1> QED
  BY <1>4, <1>5 DEF HttpdText

\* A statement that makes its piece again for every transmission.
LEMMA PieceBlocks ==
    ASSUME PageInv, HttpInv', Handling("output"), http.pc \in {"file", "include", "report"},
           http.pc = "report" => http.report # <<>>, UNCHANGED <<asked, http>>,
           NEW piece \in Seq(HttpTokens), PsockGenerates(piece, Otherwise)
    PROVE  PageInv'
<1> DEFINE p == [psock EXCEPT !.state = "DATA_SENT", !.busy = TRUE]
           sends == (~psock.busy \/ call.kind = "rexmit") /\ piece # <<>>
           data == IF sends THEN piece ELSE <<>>
           a == IF data = <<>> THEN Otherwise ELSE Answer(data)
<1>1. Returns(p, a) /\ ~(psock.busy /\ call.acks)
  BY DEF PsockGenerates
<1>2. data \in Seq(HttpTokens)
  BY WordsAreTokens
<1>3. IsSock(HttpTokens, psock)
  BY OutputHas
<1>4. IsSock(HttpTokens, p) /\ p.busy = TRUE
  BY <1>3 DEF IsSock, SockFields
<1> HIDE DEF p, data
<1>5. a \in AnswersOf(HttpTokens) /\ ~a.close /\ (a = Otherwise \/ a.data # <<>>)
  BY <1>2, AnswerIsData
<1> HIDE DEF a
<1>6. ~IsText(http) /\ http.pc \notin {"open", "close"}
  BY DEF IsText
<1> QED
  BY <1>1, <1>4, <1>5, <1>6, PageBlocks

LEMMA FileIsSent ==
    ASSUME PageInv, HttpInv', HttpdFile
    PROVE  PageInv'
<1> DEFINE piece == Cut(http.file, AppMss)
<1>1. Handling("output") /\ http.pc \in {"file", "include"} /\ UNCHANGED asked
  BY DEF HttpdFile
<1>2. /\ IsHttp(http) /\ http.len <= AppMss /\ IsSock(HttpTokens, psock)
      /\ http.file \in Seq(HttpTokens)
  BY <1>1, OutputHas DEF IsHttp
<1>3. CASE PsockGenerated /\ http' = SentFile(http)
  <2>1. psock' = Ended(psock) /\ UNCHANGED <<call, got, link>> /\ psock.busy /\ call.acks
    BY <1>3 DEF PsockGenerated, GoesOn
  <2>2. IsSock(HttpTokens, psock') /\ ~psock'.busy
    BY <1>2, <2>1, SockEnds DEF Ended, IsSock, SockFields
  <2>3. Left(http, psock, call) = Then(Drop(http.file, AppMss), LeftThen(http))
    <3>1. LeftNow(http, psock, call) = Drop(http.file, AppMss)
      BY <1>1, <2>1 DEF LeftNow, IsText
    <3> QED
      BY <3>1 DEF Left
  <2>4. GoesOnWith(http, http', psock', call, Left(http, psock, call))
    BY <1>1, <1>2, <1>3, <2>2, <2>3, FileGoesOn
  <2> QED
    BY <1>1, <2>1, <2>2, <2>4, PageMovesOn
<1>4. CASE PsockGenerates(piece, Otherwise) /\ UNCHANGED http
  <2>1. piece \in Seq(HttpTokens)
    <3>1. AppMss \in Nat
      BY AppAssumption
    <3> QED
      BY <1>2, <3>1, CutIsFront
  <2> HIDE DEF piece
  <2> QED
    BY <1>1, <1>4, <2>1, PieceBlocks
<1> QED
  BY <1>3, <1>4 DEF HttpdFile

\* A line of a report is made anew when it has to be sent again; what the client
\* gets of it counts as the line.
LEMMA ReportIsMadeAnew ==
    ASSUME PageInv, HttpInv', Handling("output"), http.pc = "report", http.report # <<>>,
           UNCHANGED <<asked, http>>, http.report[1] \in HttpdChanging, call.kind = "rexmit",
           PsockGenerates(<<"changed">>, Otherwise)
    PROVE  PageInv'
<1> DEFINE r == asked.request
           line == http.report[1]
<1>1. call # NoCall /\ SockInv(HttpTokens, HttpInputs) /\ Listens(http.sin) /\ NamesFile(http)
  BY PageHas, OutputHas DEF PageParts
<1>2. Unacked /\ link.state = "open"
  BY <1>1, RexmitIsUnacked
<1>3. psock.busy /\ link.sent = <<line>>
  BY <1>2, PageHas DEF PageParts, IsOutstanding
<1> HIDE DEF line
<1>4. line \in HttpdChanging
  BY DEF line
<1>5. psock'.busy /\ link'.state = "open" /\ link'.len = 1
  BY <1>1, <1>2, <1>3, <1>4, SockChanges
<1>6. call' = NoCall /\ got' = got /\ ~(psock.busy /\ call.acks)
  BY DEF PsockGenerates, Returns
<1>7. Left(http, psock', NoCall) = Left(http, psock, call)
  BY <1>6, LeftStays DEF IsText
<1>8. SendsPage(http, psock', NoCall, got, r)
  BY <1>7, OutputHas DEF SendsPage
<1>9. InSession(http', psock', call', got', asked'.request, asked'.sent)
  BY <1>6, <1>8 DEF InSession
<1>10. PageIsRight' /\ IsPatient'
  BY <1>5, <1>6 DEF PageInv, PageIsRight, IsPatient
<1> QED
  BY <1>6, <1>9, <1>10 DEF PageInv

LEMMA ReportIsSent ==
    ASSUME PageInv, HttpInv', HttpdScript \/ HttpdScriptEnds
    PROVE  PageInv'
<1>1. Handling("output") /\ http.pc = "report" /\ UNCHANGED asked
  BY DEF HttpdScript, HttpdScriptEnds, At, Continues
<1>2. IsHttp(http) /\ http.len <= AppMss /\ IsSock(HttpTokens, psock)
  BY <1>1, OutputHas
<1>3. CASE HttpdScriptEnds
  <2>1. http.report = <<>> /\ http' = Script(http, http.script)
        /\ UNCHANGED <<psock, call, got, link>>
    BY <1>3 DEF HttpdScriptEnds, Continues
  <2>2. ~psock.busy
    BY <1>1, <2>1, OutputHas DEF SendsPage
  <2>3. GoesOnWith(http, http', psock', call, Left(http, psock, call))
    BY <1>1, <1>2, <2>1, <2>2, ReportEnds
  <2> QED
    BY <1>1, <2>1, <2>2, <2>3, PageMovesOn
<1>4. CASE HttpdScript
  <2> DEFINE line == http.report[1]
  <2>1. http.report # <<>> /\ http.report \in Seq(HttpTokens)
    BY <1>2, <1>4 DEF HttpdScript, IsHttp
  <2>2. CASE PsockGenerated /\ http' = [http EXCEPT !.report = Tail(@)]
    <3>1. psock' = Ended(psock) /\ UNCHANGED <<call, got, link>> /\ psock.busy /\ call.acks
      BY <2>2 DEF PsockGenerated, GoesOn
    <3>2. IsSock(HttpTokens, psock') /\ ~psock'.busy
      BY <1>2, <3>1, SockEnds DEF Ended, IsSock, SockFields
    <3>3. Left(http, psock, call) = Then(Tail(http.report), LeftThen(http))
      <4>1. LeftNow(http, psock, call) = Tail(http.report)
        BY <1>1, <3>1 DEF LeftNow, IsText
      <4> QED
        BY <4>1 DEF Left
    <3>4. GoesOnWith(http, http', psock', call, Left(http, psock, call))
      BY <1>1, <1>2, <2>1, <2>2, <3>2, <3>3, ReportGoesOn
    <3> QED
      BY <1>1, <3>1, <3>2, <3>4, PageMovesOn
  <2>3. CASE PsockGenerates(<<Generated(line)>>, Otherwise) /\ UNCHANGED http
    <3>1. CASE line \in HttpdChanging /\ call.kind = "rexmit"
      <4>1. Generated(line) = "changed"
        BY <3>1, Zenon DEF Generated
      <4>2. PsockGenerates(<<"changed">>, Otherwise)
        BY <2>3, <4>1, Zenon
      <4> QED
        BY <1>1, <2>1, <2>3, <3>1, <4>2, ReportIsMadeAnew
    <3>2. CASE ~(line \in HttpdChanging /\ call.kind = "rexmit")
      <4>1. Generated(line) = line
        BY <3>2 DEF Generated
      <4>2. line \in HttpTokens
        BY <2>1
      <4> HIDE DEF line
      <4> DEFINE piece == <<line>>
      <4>3. PsockGenerates(piece, Otherwise)
        BY <2>3, <4>1
      <4>4. piece \in Seq(HttpTokens)
        BY <4>2
      <4> HIDE DEF piece
      <4> QED
        BY <1>1, <2>1, <2>3, <4>3, <4>4, PieceBlocks
    <3> QED
      BY <3>1, <3>2
  <2> QED
    BY <1>4, <2>2, <2>3 DEF HttpdScript
<1> QED
  BY <1>3, <1>4

\* The page is at its end: the client has got all of it.
LEMMA PageIsClosed ==
    ASSUME PageInv, HttpInv', HttpdClose
    PROVE  PageInv'
<1> DEFINE r == asked.request
<1>1. /\ Handling("output") /\ http.pc = "close" /\ http' = [http EXCEPT !.pc = "open"]
      /\ Returns(psock, Close) /\ UNCHANGED asked
  BY DEF HttpdClose, At
<1>2. IsHttp(http) /\ IsSock(HttpTokens, psock) /\ got \in Seq(HttpTokens)
  BY <1>1, OutputHas
<1>3. Left(http, psock, call) = <<>>
  <2>1. LeftNow(http, psock, call) = <<>> /\ LeftThen(http) = <<>>
    BY <1>1 DEF LeftNow, LeftThen, IsText
  <2> QED
    BY <2>1, WordsAreTokens, ThenNothing DEF Left
<1>4. got = Response(r)
  <2>1. Then(got, <<>>) = Response(r)
    BY <1>1, <1>3, OutputHas DEF SendsPage
  <2> QED
    BY <1>2, <2>1, ThenNothing
<1>5. call.kind # "rexmit"
  BY <1>1, OutputHas DEF IsOutstanding
<1>6. /\ http'.sin = http.sin /\ http'.timer = http.timer /\ http'.len = http.len
      /\ http'.pc = "open"
  BY <1>1, <1>2 DEF IsHttp, HttpFields
<1>7. NamesFile(http')
  BY <1>6 DEF NamesFile
<1>8. Close.close /\ Close \in AnswersOf(HttpTokens)
  BY WordsAreTokens DEF Close, AnswersOf
<1> QED
  BY <1>1, <1>2, <1>4, <1>5, <1>6, <1>7, <1>8, OutputHas, PageReturns

LEMMA PageIsOver ==
    ASSUME PageInv, HttpInv', HttpdOver
    PROVE  PageInv'
<1>1. /\ call # NoCall /\ EndsIt(call) /\ Returns(psock, Silent) /\ UNCHANGED <<http, asked>>
      /\ Silent.data \in Seq(HttpTokens)
  BY WordsAreTokens DEF HttpdOver, Silent, Answer
<1>2. link \in Links(HttpTokens) /\ call \in Events(HttpInputs) /\ CanHappen(link, call)
  BY <1>1, PageHas DEF PageParts
<1>3. link' = After(link, call, Silent).link /\ call' = NoCall /\ got' = got
  BY <1>1 DEF Returns, Answered
<1>4. link'.state # "open"
  BY <1>1, <1>2, <1>3, StateAfter
<1>5. link'.state # "closing"
  BY <1>1, <1>2, <1>3, AnswerIsHeard
<1>6. ~Live' /\ IsPatient'
  BY <1>3, <1>4 DEF Live, Runs, IsPatient
<1>7. PageIsRight'
  BY <1>1, <1>3, <1>5 DEF PageInv, PageIsRight
<1> QED
  BY <1>1, <1>3, <1>6, <1>7 DEF PageInv

LEMMA PageBegins == HttpdInit => PageInv
<1> SUFFICES ASSUME HttpdInit PROVE PageInv
  OBVIOUS
<1>1. /\ HttpInv /\ http = NewHttp /\ link = Link("none") /\ call = NoCall /\ got = <<>>
      /\ asked = [request |-> <<>>, sent |-> 0]
  BY HttpdInitGood DEF HttpdInit, PsockInit, LinkInit
<1>2. /\ http.sin = NewPsock /\ http.timer = 0 /\ http.len = 0 /\ NamesFile(http)
  BY <1>1 DEF NewHttp, NamesFile
<1>3. Listens(http.sin) /\ got \in Seq(HttpTokens)
  BY <1>1, <1>2, NewSockListens, WordsAreTokens
<1>4. asked.request = <<>> /\ asked.request \in Seq(InTokens) /\ asked.sent \in Nat
  BY <1>1, InputIsTokens
<1>5. link.state = "none"
  BY <1>1 DEF Link
<1>6. ~Live /\ IsPatient
  BY <1>1, <1>5 DEF Live, Runs, IsPatient
<1>7. http.timer \in 0 .. HttpdPolls /\ http.len <= AppMss
  BY <1>2, HttpdAssumption, AppAssumption
<1>8. ~IsRequest(asked.request)
  <2>1. Len(<<>>) = 0
    OBVIOUS
  <2> QED
    BY <1>4, <2>1 DEF IsRequest
<1>9. PageIsRight
  BY <1>1, <1>8 DEF PageIsRight
<1> QED
  BY <1>1, <1>2, <1>3, <1>4, <1>6, <1>7, <1>9 DEF PageInv

LEMMA PageStaysGood == PageInv /\ [HttpdNext]_httpdVars => PageInv'
<1> SUFFICES ASSUME PageInv, [HttpdNext]_httpdVars PROVE PageInv'
  OBVIOUS
<1>1. HttpInv'
  BY HttpdStepGood DEF PageInv
<1>2. CASE UNCHANGED httpdVars
  <2>1. UNCHANGED <<http, asked, link, wire, psock, call, got>>
    BY <1>2 DEF httpdVars
  <2> QED
    BY <1>1, <2>1 DEF PageInv, PageIsRight, IsPatient, Live
<1> QED
  BY <1>1, <1>2, PageIsCalled, PageIsRead, PageIsRefused, PageWaits, PageIsOpened, TextIsSent,
     FileIsSent, ReportIsSent, PageIsClosed, PageIsOver DEF HttpdNext, HttpdRuns

\* The client gets the page it asked for: whatever the pieces its request comes in,
\* whichever segments have to be sent again and whatever scripts and included files
\* the page is made of, it has got a beginning of that page at any time, nothing else
\* and nothing twice; and when the server closes the connection, all of it.
THEOREM HttpdSendsThePage == HttpdSpec => []PageIsRight
<1>1. PageInv => PageIsRight
  BY DEF PageInv
<1>2. PageInv /\ [HttpdNext]_httpdVars => PageInv'
  BY PageStaysGood
<1> QED
  BY <1>1, <1>2, PageBegins, PTL DEF HttpdSpec

LEMMA PageTypes == PageInv => HttpdTypeOK
<1> SUFFICES ASSUME PageInv PROVE HttpdTypeOK
  OBVIOUS
<1>1. /\ http.timer \in 0 .. HttpdPolls /\ Listens(http.sin) /\ http.len <= AppMss
      /\ NamesFile(http)
      /\ http.len \in Nat
  BY DEF PageInv, HttpInv, IsHttp
<1>2. http.len \in 0 .. AppMss
  BY <1>1, AppAssumption
<1>3. Len(http.sin.buf) <= PsockBufsize /\ http.sin.unread \in Seq(InTokens)
  BY <1>1 DEF Listens
<1> DEFINE unread == http.sin.unread
<1>4. \A i \in DOMAIN unread : unread[i] # Junk
  <2>1. unread \in Seq(InTokens)
    BY <1>3
  <2> HIDE DEF unread
  <2>2. \A i \in DOMAIN unread : unread[i] \in InTokens
    BY <2>1
  <2> QED
    BY <2>2 DEF InTokens
<1> QED
  BY <1>1, <1>2, <1>3, <1>4 DEF HttpdTypeOK, NamesFile

\* The input buffer of the web server never holds more than its size, what a
\* statement sends is never longer than a segment, the polls are counted no further
\* than their limit, the name of a page is that of a file, and no request is read from a buffer used for other packets.
THEOREM HttpdTypesHold == HttpdSpec => []HttpdTypeOK
<1>1. PageInv /\ [HttpdNext]_httpdVars => PageInv'
  BY PageStaysGood
<1> QED
  BY <1>1, PageTypes, PageBegins, PTL DEF HttpdSpec

-----------------------------------------------------------------------------
(* What is right of each application is right of all of them.              *)

AllGood ==
    /\ DhcpInv
    /\ app = "telnetd" => TelInv
    /\ app = "smtp" => FitsInv
    /\ app = "httpd" => PageInv
    /\ app = "webclient" => WebInv

LEMMA AllBegin == AppsInit => AllGood
<1> SUFFICES ASSUME AppsInit PROVE AllGood
  OBVIOUS
<1>1. DhcpInv /\ TelInv /\ FitsInv /\ PageInv /\ WebInv
  BY DhcpInitGood, TelInitGood, FitsBegins, PageBegins, WebBegins DEF AppsInit
<1> QED
  BY <1>1, Zenon DEF AllGood

LEMMA AllStayGood == AllGood /\ [AppsNext]_appsVars => AllGood'
<1> SUFFICES ASSUME AllGood, [AppsNext]_appsVars PROVE AllGood'
  OBVIOUS
<1>1. DhcpInv
  BY DEF AllGood
<1>2. CASE app = "dhcpc" /\ DhcpcNext /\ UNCHANGED app
  <2>1. DhcpInv'
    BY <1>1, <1>2, DhcpStepGood
  <2> QED
    BY <1>2, <2>1 DEF AllGood
<1>3. CASE app = "telnetd" /\ TelnetdNext /\ UNCHANGED <<app, dhcpOnly>>
  <2>1. TelInv'
    BY <1>3, TelStepGood DEF AllGood
  <2> QED
    BY <1>1, <1>3, <2>1, DhcpStays DEF AllGood
<1>4. CASE app = "smtp" /\ SmtpNext /\ UNCHANGED <<app, dhcpOnly>>
  <2>1. FitsInv'
    BY <1>4, FitsStays DEF AllGood
  <2> QED
    BY <1>1, <1>4, <2>1, DhcpStays DEF AllGood
<1>5. CASE app = "httpd" /\ HttpdNext /\ UNCHANGED <<app, dhcpOnly>>
  <2>1. PageInv'
    BY <1>5, PageStaysGood DEF AllGood
  <2> QED
    BY <1>1, <1>5, <2>1, DhcpStays DEF AllGood
<1>6. CASE app = "webclient" /\ WebNext /\ UNCHANGED <<app, dhcpOnly>>
  <2>1. WebInv'
    BY <1>6, WebGoesOn DEF AllGood
  <2> QED
    BY <1>1, <1>6, <2>1, DhcpStays DEF AllGood
<1>7. CASE UNCHANGED appsVars
  <2>1. /\ UNCHANGED <<app, dhcpOnly>>
        /\ UNCHANGED telVars /\ UNCHANGED smtpVars /\ UNCHANGED httpdVars /\ UNCHANGED webVars
    BY <1>7 DEF appsVars, sockOnly, telOnly, smtpOnly, httpdOnly, webOnly,
                telVars, smtpVars, httpdVars, webVars
  <2>2. (TelInv => TelInv') /\ (FitsInv => FitsInv') /\ (PageInv => PageInv') /\ (WebInv => WebInv')
    BY <2>1, TelStepGood, FitsStays, PageStaysGood, WebGoesOn
  <2> QED
    BY <1>1, <2>1, <2>2, DhcpStays DEF AllGood
<1> QED
  BY <1>2, <1>3, <1>4, <1>5, <1>6, <1>7 DEF AppsNext

\* The client of the web server gets the page it asked for, and all of it when the
\* server closes, whatever has to be sent again.
THEOREM AppsSendThePage == AppsSpec => []HttpdPageIsRight
<1>1. AllGood => HttpdPageIsRight
  BY DEF AllGood, HttpdPageIsRight, PageInv
<1>2. AllGood /\ [AppsNext]_appsVars => AllGood'
  BY AllStayGood
<1> QED
  BY <1>1, <1>2, AllBegin, PTL DEF AppsSpec

\* The application that runs stays within its buffers, its timers and its memory.
THEOREM AppsTypes == AppsSpec => []AppsTypeOK
<1>1. AllGood => AppsTypeOK
  <2>1. DhcpInv => DhcpcTypeOK
    BY DEF DhcpInv
  <2> QED
    BY <2>1, TelIsTyped, SmtpTypes, PageTypes, WebIsTyped, Zenon DEF AllGood, AppsTypeOK
<1>2. AllGood /\ [AppsNext]_appsVars => AllGood'
  BY AllStayGood
<1> QED
  BY <1>1, <1>2, AllBegin, PTL DEF AppsSpec

=============================================================================
