---------------------------- MODULE FoldTheorems ----------------------------
(***************************************************************************)
(* What a fold over a sequence computes, for sequences of any length.  The *)
(* operator that is folded is a parameter of the module: a module that     *)
(* folds one INSTANCEs this module for it and cites the theorems.  Its     *)
(* first argument is something that stays the same, if it has one.         *)
(***************************************************************************)
EXTENDS SequencesExt, SequenceTheorems, WellFoundedInduction, TLAPS

CONSTANT Op(_, _, _)

\* The fold, which no theorem's user has to expand.
Folded(c, base, seq) == FoldLeft(LAMBDA x, e : Op(c, x, e), base, seq)

-----------------------------------------------------------------------------
\* Induction over the natural numbers, as a fact about a set.
LEMMA SetInduction ==
    ASSUME NEW T, 0 \in T, \A n \in Nat : n \in T => n + 1 \in T
    PROVE  \A n \in Nat : n \in T
<1> SUFFICES ASSUME NEW bad \in Nat, bad \notin T
             PROVE  FALSE
  OBVIOUS
<1> DEFINE U == {n \in Nat : n \notin T}
<1>1. PICK m \in U : \A y \in U : <<y, m>> \notin OpToRel(<, Nat)
  <2>1. U \subseteq Nat /\ U # {}
    OBVIOUS
  <2> QED
    BY <2>1, NatLessThanWellFounded, WFMin
<1>2. m - 1 \in Nat /\ m - 1 < m
  OBVIOUS
<1>3. <<m - 1, m>> \in OpToRel(<, Nat)
  BY <1>2 DEF OpToRel
<1>4. m - 1 \in T
  BY <1>1, <1>2, <1>3
<1> QED
  BY <1>2, <1>4

\* A set of naturals has a least element.
LEMMA LeastIsThere ==
    ASSUME NEW T, T \subseteq Nat, T # {}
    PROVE  \E m \in T : \A k \in T : m <= k
<1>1. PICK m \in T : \A y \in T : <<y, m>> \notin OpToRel(<, Nat)
  BY NatLessThanWellFounded, WFMin
<1>2. ASSUME NEW k \in T
      PROVE  m <= k
  <2>1. k \in Nat /\ m \in Nat
    OBVIOUS
  <2>2. k < m => <<k, m>> \in OpToRel(<, Nat)
    BY <2>1 DEF OpToRel
  <2>3. ~(k < m)
    BY <2>2, <1>1, Zenon
  <2> QED
    BY <2>1, <2>3
<1> QED
  BY <1>2

\* Sets of naturals up to n have a largest element, which Max() chooses.
LEMMA MaxIsThere ==
    ASSUME NEW n \in Nat, NEW s \in SUBSET (1 .. n), s # {}
    PROVE  Max(s) \in s /\ \A y \in s : Max(s) >= y
<1> DEFINE HasMax(u) == \E x \in u : \A y \in u : x >= y
           T == {k \in Nat : \A u \in SUBSET (1 .. k) : u # {} => HasMax(u)}
<1>1. 0 \in T
  <2>1. \A u \in SUBSET (1 .. 0) : u = {}
    OBVIOUS
  <2> QED
    BY <2>1
<1>2. ASSUME NEW k \in Nat, k \in T
      PROVE  k + 1 \in T
  <2> SUFFICES ASSUME NEW u \in SUBSET (1 .. k + 1), u # {}
               PROVE  HasMax(u)
    OBVIOUS
  <2>1. CASE k + 1 \in u
    BY <2>1
  <2>2. CASE k + 1 \notin u
    BY <2>2, <1>2
  <2> QED
    BY <2>1, <2>2
<1> HIDE DEF T
<1>3. n \in T
  BY <1>1, <1>2, SetInduction
<1>4. HasMax(s)
  BY <1>3 DEF T
<1> QED
  BY <1>4 DEF Max

-----------------------------------------------------------------------------
\* The recursion of MapThenFoldSet(), as FoldLeft() uses it.
Folds(c, f, base, seq, D) ==
    f = [s \in SUBSET D |->
            IF s = {} THEN base ELSE Op(c, f[s \ {Max(s)}], seq[Max(s)])]

LEMMA FoldIsThere ==
    ASSUME NEW c, NEW base, NEW seq, NEW n \in Nat
    PROVE  \E f : Folds(c, f, base, seq, 1 .. n)
<1> DEFINE T == {k \in Nat : \E f : Folds(c, f, base, seq, 1 .. k)}
<1>1. 0 \in T
  <2> DEFINE f == [s \in SUBSET (1 .. 0) |-> base]
  <2>1. 1 .. 0 = {}
    OBVIOUS
  <2>2. f = [s \in SUBSET (1 .. 0) |->
               IF s = {} THEN base ELSE Op(c, f[s \ {Max(s)}], seq[Max(s)])]
    BY <2>1
  <2> QED
    BY <2>2, Zenon DEF Folds
<1>2. ASSUME NEW k \in Nat, k \in T
      PROVE  k + 1 \in T
  <2>1. PICK f : Folds(c, f, base, seq, 1 .. k)
    BY <1>2
  <2> DEFINE next(s) == IF s = {} THEN base ELSE Op(c, f[s \ {Max(s)}], seq[Max(s)])
             g == [s \in SUBSET (1 .. k + 1) |-> next(s)]
  <2>2. ASSUME NEW s \in SUBSET (1 .. k)
        PROVE  f[s] = next(s)
    BY <2>1, Zenon DEF Folds
  <2>3. ASSUME NEW s \in SUBSET (1 .. k + 1), s # {}
        PROVE  s \ {Max(s)} \in SUBSET (1 .. k)
    <3>1. k + 1 \in Nat
      OBVIOUS
    <3>2. Max(s) \in s /\ \A y \in s : Max(s) >= y
      BY <2>3, <3>1, MaxIsThere
    <3> DEFINE m == Max(s)
    <3>3. m \in s /\ \A y \in s : m >= y
      BY <3>2, Zenon
    <3> HIDE DEF next, m, g, T
    <3>4. ASSUME NEW y \in s, y # m
          PROVE  y \in 1 .. k
      <4>1. y \in Int /\ m \in Int /\ 1 <= y /\ m <= k + 1 /\ m >= y
        BY <3>3
      <4> QED
        BY <4>1, <3>4
    <3> QED
      BY <3>4, Zenon DEF m
  <2>4. ASSUME NEW s \in SUBSET (1 .. k + 1)
        PROVE  g[s] = IF s = {} THEN base ELSE Op(c, g[s \ {Max(s)}], seq[Max(s)])
    <3>1. CASE s = {}
      BY <3>1
    <3>2. CASE s # {}
      <4>1. s \ {Max(s)} \in SUBSET (1 .. k) /\ s \ {Max(s)} \in SUBSET (1 .. k + 1)
        BY <3>2, <2>3
      <4>2. g[s \ {Max(s)}] = f[s \ {Max(s)}]
        BY <4>1, <2>2, Zenon
      <4> QED
        BY <3>2, <4>2, Zenon
    <3> QED
      BY <3>1, <3>2
  <2>5. g = [s \in SUBSET (1 .. k + 1) |->
               IF s = {} THEN base ELSE Op(c, g[s \ {Max(s)}], seq[Max(s)])]
    <3> HIDE DEF next
    <3>1. g = [s \in SUBSET (1 .. k + 1) |-> g[s]]
      BY Zenon
    <3> HIDE DEF g
    <3> QED
      BY <2>4, <3>1, Zenon
  <2>6. Folds(c, g, base, seq, 1 .. k + 1)
    BY <2>5, Zenon DEF Folds
  <2>7. \E h : Folds(c, h, base, seq, 1 .. k + 1)
    <3> HIDE DEF g
    <3> QED
      BY <2>6, Zenon
  <2> QED
    BY <2>7, k + 1 \in Nat
<1> HIDE DEF T
<1>3. n \in T
  BY <1>1, <1>2, SetInduction
<1> QED
  BY <1>3 DEF T

-----------------------------------------------------------------------------
\* A fold goes through the sequence from left to right: f is its value after
\* each element.
IsHistory(c, f, base, seq) ==
    /\ f[0] = base
    /\ \A k \in 1 .. Len(seq) : f[k] = Op(c, f[k - 1], seq[k])
    /\ f[Len(seq)] = Folded(c, base, seq)

THEOREM FoldLeftSteps ==
    ASSUME NEW c, NEW E, NEW seq \in Seq(E), NEW base
    PROVE  \E f : IsHistory(c, f, base, seq)
<1> DEFINE n == Len(seq)
           g == CHOOSE f : Folds(c, f, base, seq, 1 .. n)
           f == [k \in 0 .. n |-> g[1 .. k]]
<1>1. n \in Nat /\ DOMAIN seq = 1 .. n
  OBVIOUS
<1>2. Folds(c, g, base, seq, 1 .. n)
  BY <1>1, FoldIsThere
<1>3. Folded(c, base, seq) = g[1 .. n]
  BY <1>1 DEF Folded, FoldLeft, MapThenFoldSet, Folds
<1> HIDE DEF n, g
<1>4. ASSUME NEW s \in SUBSET (1 .. n)
      PROVE  g[s] = IF s = {} THEN base ELSE Op(c, g[s \ {Max(s)}], seq[Max(s)])
  BY <1>2, Zenon DEF Folds
<1>5. f[0] = base
  <2>1. 1 .. 0 = {} /\ 0 \in 0 .. n
    BY <1>1
  <2> QED
    BY <2>1, <1>4
<1>6. ASSUME NEW k \in 1 .. n
      PROVE  f[k] = Op(c, f[k - 1], seq[k])
  <2>1. /\ 1 .. k \in SUBSET (1 .. n) /\ 1 .. k # {} /\ k \in 0 .. n
        /\ k - 1 \in 0 .. n /\ k \in Nat
    BY <1>1
  <2>2. Max(1 .. k) \in 1 .. k /\ \A y \in 1 .. k : Max(1 .. k) >= y
    BY <2>1, MaxIsThere
  <2>3. Max(1 .. k) = k
    BY <2>2, <2>1
  <2>4. (1 .. k) \ {k} = 1 .. (k - 1)
    BY <2>1
  <2>5. g[1 .. k] = Op(c, g[1 .. (k - 1)], seq[k])
    BY <1>4, <2>1, <2>3, <2>4, Zenon
  <2> QED
    BY <2>1, <2>5, Zenon
<1>7. f[n] = Folded(c, base, seq)
  BY <1>1, <1>3
<1> HIDE DEF f
<1>8. IsHistory(c, f, base, seq)
  BY <1>5, <1>6, <1>7, Zenon DEF n, IsHistory
<1> QED
  BY <1>8, Zenon

\* What holds at first and is kept by every element holds all the way.
THEOREM FoldLeftStepsStay ==
    ASSUME NEW c, NEW S, NEW E, NEW seq \in Seq(E), NEW base \in S,
           \A x \in S, e \in E : Op(c, x, e) \in S
    PROVE  \E f : /\ IsHistory(c, f, base, seq)
                  /\ \A k \in 0 .. Len(seq) : f[k] \in S
<1>1. PICK f : IsHistory(c, f, base, seq)
  BY FoldLeftSteps, Zenon
<1> DEFINE T == {k \in Nat : k <= Len(seq) => f[k] \in S}
<1>2. Len(seq) \in Nat
  OBVIOUS
<1>3. 0 \in T
  BY <1>1 DEF IsHistory
<1>4. ASSUME NEW k \in Nat, k \in T
      PROVE  k + 1 \in T
  <2> SUFFICES ASSUME k + 1 <= Len(seq)
               PROVE  f[k + 1] \in S
    OBVIOUS
  <2>1. k + 1 \in 1 .. Len(seq) /\ k <= Len(seq) /\ (k + 1) - 1 = k
    BY <1>2
  <2>2. f[k] \in S /\ seq[k + 1] \in E
    BY <2>1, <1>4, ElementOfSeq
  <2>3. f[k + 1] = Op(c, f[k], seq[k + 1])
    BY <1>1, <2>1 DEF IsHistory
  <2> QED
    BY <2>2, <2>3, Zenon
<1> HIDE DEF T
<1>5. \A k \in Nat : k \in T
  BY <1>3, <1>4, SetInduction
<1>6. ASSUME NEW k \in 0 .. Len(seq)
      PROVE  f[k] \in S
  <2>1. k \in Nat /\ k <= Len(seq)
    BY <1>2
  <2> QED
    BY <2>1, <1>5 DEF T
<1> QED
  BY <1>1, <1>6, Zenon

THEOREM FoldLeftStays ==
    ASSUME NEW c, NEW S, NEW E, NEW seq \in Seq(E), NEW base \in S,
           \A x \in S, e \in E : Op(c, x, e) \in S
    PROVE  Folded(c, base, seq) \in S
<1>1. PICK f : /\ IsHistory(c, f, base, seq)
               /\ \A k \in 0 .. Len(seq) : f[k] \in S
  BY FoldLeftStepsStay, Zenon
<1>2. Len(seq) \in 0 .. Len(seq)
  OBVIOUS
<1> QED
  BY <1>1, <1>2, Zenon DEF IsHistory

\* A fold ends with the last element.
THEOREM FoldLeftEnds ==
    ASSUME NEW c, NEW S, NEW E, NEW seq \in Seq(E), NEW base \in S,
           \A x \in S, e \in E : Op(c, x, e) \in S,
           seq # <<>>
    PROVE  \E x \in S : Folded(c, base, seq) = Op(c, x, seq[Len(seq)])
<1>1. PICK f : /\ IsHistory(c, f, base, seq)
               /\ \A k \in 0 .. Len(seq) : f[k] \in S
  BY FoldLeftStepsStay, Zenon
<1>2. Len(seq) \in 1 .. Len(seq) /\ Len(seq) - 1 \in 0 .. Len(seq)
  OBVIOUS
<1> QED
  BY <1>1, <1>2, Zenon DEF IsHistory
=============================================================================
