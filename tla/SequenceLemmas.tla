--------------------------- MODULE SequenceLemmas ---------------------------
(***************************************************************************)
(* Lemmas about numbers, sequences and the folds of the community modules, *)
(* which the proofs about several components need.                         *)
(***************************************************************************)
EXTENDS Integers, Sequences, SequencesExt, SequenceTheorems, WellFoundedInduction, TLAPS

\* The natural numbers are well ordered.
LEMMA LeastNatural ==
  ASSUME NEW T \in SUBSET Nat, T # {}
  PROVE  \E x \in T : \A y \in T : x <= y
<1> DEFINE R == OpToRel(<, Nat)
<1>1. IsWellFoundedOn(R, Nat) BY NatLessThanWellFounded
<1>2. PICK x \in T : \A y \in T : ~ (<<y, x>> \in R)
  <2> HIDE DEF R
  <2> QED BY <1>1, WFMin
<1>3. \A y \in T : ~(y < x)
  <2> SUFFICES ASSUME NEW y \in T, y < x PROVE FALSE OBVIOUS
  <2>1. <<y,x>> \in Nat \X Nat OBVIOUS
  <2>2. <<y,x>> \in R BY <2>1 DEF OpToRel
  <2> QED BY <2>2, <1>2
<1> QED BY <1>3

\* Products.
LEMMA Times ==
  ASSUME NEW l \in Nat, NEW a \in Nat, NEW b \in Nat
  PROVE  /\ a * l \in Nat /\ (a + 1) * l = a * l + l /\ (a <= b => a * l <= b * l)
<1>1. a * l \in Nat /\ (a + 1) * l = a * l + l
  OBVIOUS
<1>2. a <= b => a * l <= b * l
  <2>. SUFFICES ASSUME a <= b PROVE a * l <= b * l
    OBVIOUS
  <2>1. PICK c \in Nat : b = a + c
    <3>1. b - a \in Nat /\ b = a + (b - a)
      OBVIOUS
    <3>. QED BY <3>1
  <2>2. b * l = a * l + c * l
    BY <2>1
  <2>3. c * l \in Nat
    OBVIOUS
  <2>. QED BY <1>1, <2>2, <2>3
<1>. QED BY <1>1, <1>2

\* Induction, for a set in the place of a formula.
LEMMA NatInSet ==
  ASSUME NEW S, 0 \in S, \A n \in Nat : n \in S => n + 1 \in S
  PROVE  Nat \subseteq S
<1>. SUFFICES ASSUME Nat \ S # {} PROVE FALSE
  OBVIOUS
<1>1. PICK x \in Nat \ S : \A y \in Nat \ S : x <= y
  BY LeastNatural
<1>2. x # 0
  OBVIOUS
<1>3. x - 1 \in Nat /\ x - 1 \in S
  BY <1>1, <1>2
<1>. QED BY <1>1, <1>3

\* The least of a set of numbers is one of them, and the least of them.
LEMMA LeastIn ==
  \A T \in SUBSET Nat : T # {} => Min(T) \in T /\ \A y \in T : Min(T) <= y
<1>. SUFFICES ASSUME NEW T \in SUBSET Nat, T # {} PROVE Min(T) \in T /\ \A y \in T : Min(T) <= y
  OBVIOUS
<1>1. PICK x \in T : \A y \in T : x <= y
  BY LeastNatural
<1>. QED BY <1>1 DEF Min

(***************************************************************************)
(* FoldLeft goes over the positions of a sequence by a function on their   *)
(* sets, of which a step computes the value from that without the last     *)
(* position.                                                               *)
(***************************************************************************)
\* The last position of the first ones.
LEMMA LargestUpTo ==
  ASSUME NEW n \in Nat, NEW S \in SUBSET (1..(n + 1)), n + 1 \in S
  PROVE  Max(S) = n + 1
<1>1. \A y \in S : n + 1 >= y
  OBVIOUS
<1>2. \A x \in S : (\A y \in S : x >= y) => x = n + 1
  OBVIOUS
<1>. QED BY <1>1, <1>2 DEF Max

\* The last of some positions is one of them.
LEMMA LargestIn ==
  ASSUME NEW n \in Nat, NEW S \in SUBSET (1..n), S # {}
  PROVE  Max(S) \in S /\ \A y \in S : Max(S) >= y
<1>. DEFINE T == {n - x : x \in S}
<1>1. T \in SUBSET Nat /\ T # {}
  <2>1. \A x \in S : n - x \in Nat
    OBVIOUS
  <2>. QED BY <2>1
<1>2. PICK t \in T : \A u \in T : t <= u
  <2>. HIDE DEF T
  <2>. QED BY <1>1, LeastNatural
<1>3. PICK x \in S : t = n - x
  BY <1>2
<1>4. ASSUME NEW y \in S PROVE x >= y
  <2>1. n - x <= n - y
    BY <1>2, <1>3
  <2>2. x \in 1..n /\ y \in 1..n
    OBVIOUS
  <2>. QED BY <2>1, <2>2
<1>. QED BY <1>4 DEF Max

IsFold(f, n, base, step) ==
    f = [S \in SUBSET (1..n) |-> IF S = {} THEN base ELSE step[<<f[S \ {Max(S)}], Max(S)>>]]

\* The first positions without the last of them.
LEMMA FirstPositions ==
  ASSUME NEW n \in Nat, NEW k \in 1..n
  PROVE  1..k \in SUBSET (1..n) /\ 1..k # {} /\ Max(1..k) = k /\ (1..k) \ {k} = 1..(k - 1)
<1>1. PICK j \in Nat : k = j + 1
  OBVIOUS
<1>2. 1..k \in SUBSET (1..(j + 1)) /\ j + 1 \in 1..k
  BY <1>1
<1>3. Max(1..k) = j + 1
  BY <1>2, LargestUpTo
<1>. QED BY <1>1, <1>3

FoldIn(R, n, base, step) == \E f \in [SUBSET (1..n) -> R] : IsFold(f, n, base, step)

\* Such a function, with values in R, exists.
LEMMA FoldExists ==
  ASSUME NEW R, NEW base \in R, NEW n \in Nat, NEW step \in [R \X (1..n) -> R]
  PROVE  FoldIn(R, n, base, step)
<1>. DEFINE N == {k \in Nat : k <= n => FoldIn(R, k, base, step)}
<1>1. 0 \in N
  <2>1. 1..0 = {}
    OBVIOUS
  <2>2. IsFold([S \in SUBSET (1..0) |-> base], 0, base, step)
    BY <2>1, Zenon DEF IsFold
  <2>3. [S \in SUBSET (1..0) |-> base] \in [SUBSET (1..0) -> R]
    OBVIOUS
  <2>. QED BY <2>2, <2>3 DEF FoldIn
<1>2. ASSUME NEW k \in Nat, k \in N PROVE k + 1 \in N
  <2>. SUFFICES ASSUME k + 1 <= n
                PROVE  FoldIn(R, k + 1, base, step)
    OBVIOUS
  <2>1. PICK f \in [SUBSET (1..k) -> R] : IsFold(f, k, base, step)
    <3>1. k <= n
      OBVIOUS
    <3>. QED BY <1>2, <3>1 DEF FoldIn
  <2>. DEFINE g == [S \in SUBSET (1..(k + 1)) |->
                       IF k + 1 \in S THEN step[<<f[S \ {k + 1}], k + 1>>] ELSE f[S]]
  <2>2. ASSUME NEW S \in SUBSET (1..(k + 1))
        PROVE  g[S] = IF S = {} THEN base ELSE step[<<g[S \ {Max(S)}], Max(S)>>]
    <3>1. CASE k + 1 \in S
      <4>1. Max(S) = k + 1
        BY <3>1, LargestUpTo
      <4>2. S \ {k + 1} \in SUBSET (1..(k + 1)) /\ k + 1 \notin S \ {k + 1}
        OBVIOUS
      <4>3. g[S \ {k + 1}] = f[S \ {k + 1}]
        BY <4>2, Zenon
      <4>4. g[S] = step[<<f[S \ {k + 1}], k + 1>>]
        BY <3>1, Zenon
      <4>. QED BY <3>1, <4>1, <4>3, <4>4, Zenon
    <3>2. CASE k + 1 \notin S
      <4>1. S \in SUBSET (1..k)
        BY <3>2
      <4>2. g[S] = f[S]
        BY <3>2, Zenon
      <4>3. f[S] = IF S = {} THEN base ELSE step[<<f[S \ {Max(S)}], Max(S)>>]
        BY <2>1, <4>1, Zenon DEF IsFold
      <4>4. S \ {Max(S)} \in SUBSET (1..(k + 1)) /\ k + 1 \notin S \ {Max(S)}
        BY <3>2
      <4>5. g[S \ {Max(S)}] = f[S \ {Max(S)}]
        BY <4>4, Zenon
      <4>. QED BY <4>2, <4>3, <4>5, Zenon
    <3>. QED BY <3>1, <3>2
  <2>3. g \in [SUBSET (1..(k + 1)) -> R]
    <3>1. ASSUME NEW S \in SUBSET (1..(k + 1)), k + 1 \in S
          PROVE  step[<<f[S \ {k + 1}], k + 1>>] \in R
      <4>1. S \ {k + 1} \in SUBSET (1..k)
        OBVIOUS
      <4>2. f[S \ {k + 1}] \in R /\ k + 1 \in 1..n
        BY <4>1
      <4>. QED BY <4>2
    <3>2. ASSUME NEW S \in SUBSET (1..(k + 1)), k + 1 \notin S PROVE f[S] \in R
      <4>1. S \in SUBSET (1..k)
        BY <3>2
      <4>. QED BY <4>1
    <3>. QED BY <3>1, <3>2
  <2>4. IsFold(g, k + 1, base, step)
    <3>1. g = [S \in SUBSET (1..(k + 1)) |-> g[S]]
      OBVIOUS
    <3>. HIDE DEF g
    <3>. QED BY <2>2, <3>1, Zenon DEF IsFold
  <2>. HIDE DEF g
  <2>. QED BY <2>3, <2>4 DEF FoldIn
<1>3. Nat \subseteq N
  <2>. HIDE DEF N
  <2>. QED BY <1>1, <1>2, NatInSet
<1>. QED BY <1>3

(***************************************************************************)
(* FlattenSeq, by induction on the length of its argument.  An operator    *)
(* such as IsFlat keeps a formula that the provers would rather not see.   *)
(***************************************************************************)
IsFlat(f, s, k) == f = [i \in 1..k |-> IF i = 1 THEN s[i] ELSE f[i - 1] \o s[i]]

\* The function that FlattenSeq defines by recursion exists,
LEMMA FlatExists ==
  ASSUME NEW s, NEW k \in Nat
  PROVE  \E f : IsFlat(f, s, k)
<1>. DEFINE S == {n \in Nat : \E f : IsFlat(f, s, n)}
<1>1. 0 \in S
  <2>1. IsFlat([i \in 1..0 |-> s], s, 0)
    BY DEF IsFlat
  <2>. QED BY <2>1
<1>2. ASSUME NEW n \in Nat, n \in S PROVE n + 1 \in S
  <2>1. PICK f : IsFlat(f, s, n)
    BY <1>2
  <2>. DEFINE last == IF n = 0 THEN s[1] ELSE f[n] \o s[n + 1]
              g == [i \in 1..(n + 1) |-> IF i <= n THEN f[i] ELSE last]
  <2>2. \A i \in 1..n : f[i] = IF i = 1 THEN s[i] ELSE f[i - 1] \o s[i]
    BY <2>1 DEF IsFlat
  <2>3. \A i \in 1..(n + 1) : g[i] = IF i = 1 THEN s[i] ELSE g[i - 1] \o s[i]
    BY <2>2
  <2>4. IsFlat(g, s, n + 1)
    <3>. HIDE DEF last
    <3>. QED BY <2>3 DEF IsFlat
  <2>. QED BY <2>4
<1>3. Nat \subseteq S
  <2>. HIDE DEF S
  <2>. QED BY <1>1, <1>2, NatInSet
<1>. QED BY <1>3

\* and FlattenSeq is its last value.
LEMMA FlatValue ==
  ASSUME NEW s, Len(s) \in Nat \ {0}
  PROVE  \E f : IsFlat(f, s, Len(s)) /\ FlattenSeq(s) = f[Len(s)]
<1>1. FlattenSeq(s) = (CHOOSE f : IsFlat(f, s, Len(s)))[Len(s)]
  BY DEF FlattenSeq, IsFlat
<1>. QED BY <1>1, FlatExists

\* Equation of a flat prefix.
LEMMA FlatEquation ==
  ASSUME NEW s, NEW k \in Nat, NEW f, IsFlat(f, s, k), NEW i \in 1..k
  PROVE  f[i] = IF i = 1 THEN s[i] ELSE f[i - 1] \o s[i]
BY DEF IsFlat

\* Each of its values is a sequence.
LEMMA FlatType ==
  ASSUME NEW E, NEW s \in Seq(Seq(E)), NEW f, IsFlat(f, s, Len(s)), NEW i \in 1..Len(s)
  PROVE  f[i] \in Seq(E)
<1>. DEFINE S == {n \in Nat : n \in 1..Len(s) => f[n] \in Seq(E)}
<1>1. ASSUME NEW n \in Nat, n \in S PROVE n + 1 \in S
  <2>. SUFFICES ASSUME n + 1 \in 1..Len(s) PROVE f[n + 1] \in Seq(E)
    OBVIOUS
  <2>1. f[n + 1] = IF n + 1 = 1 THEN s[n + 1] ELSE f[n] \o s[n + 1]
    BY FlatEquation
  <2>2. s[n + 1] \in Seq(E)
    OBVIOUS
  <2>3. n # 0 => f[n] \in Seq(E)
    BY <1>1
  <2>. QED BY <2>1, <2>2, <2>3, ConcatProperties
<1>2. 0 \in S
  OBVIOUS
<1>3. Nat \subseteq S
  <2>. HIDE DEF S
  <2>. QED BY <1>1, <1>2, NatInSet
<1>. QED BY <1>3

\* Two sequences of sequences with the same beginning.
SameUpTo(s, t, k) == \A i \in 1..k : s[i] = t[i]

\* It depends only on the sequences it has gone through.
LEMMA FlatSame ==
  ASSUME NEW s, NEW t, NEW k \in Nat, NEW m \in Nat, k <= m,
         NEW f, IsFlat(f, s, k), NEW g, IsFlat(g, t, m),
         SameUpTo(s, t, k)
  PROVE  SameUpTo(f, g, k)
<1>. DEFINE S == {n \in Nat : n \in 1..k => f[n] = g[n]}
<1>1. ASSUME NEW n \in Nat, n \in S PROVE n + 1 \in S
  <2>. SUFFICES ASSUME n + 1 \in 1..k PROVE f[n + 1] = g[n + 1]
    OBVIOUS
  <2>1. f[n + 1] = IF n + 1 = 1 THEN s[n + 1] ELSE f[n] \o s[n + 1]
    BY FlatEquation
  <2>2. g[n + 1] = IF n + 1 = 1 THEN t[n + 1] ELSE g[n] \o t[n + 1]
    BY FlatEquation
  <2>3. n # 0 => f[n] = g[n]
    BY <1>1
  <2>4. s[n + 1] = t[n + 1]
    BY DEF SameUpTo
  <2>. QED BY <2>1, <2>2, <2>3, <2>4
<1>2. 0 \in S
  OBVIOUS
<1>3. Nat \subseteq S
  <2>. HIDE DEF S
  <2>. QED BY <1>1, <1>2, NatInSet
<1>. QED BY <1>3 DEF SameUpTo

\* The events of some batches are a sequence of events,
LEMMA FlattenType ==
  ASSUME NEW E, NEW s \in Seq(Seq(E)) PROVE FlattenSeq(s) \in Seq(E)
<1>1. CASE s = <<>>
  BY <1>1 DEF FlattenSeq
<1>2. CASE s # <<>>
  <2>1. Len(s) \in Nat \ {0}
    BY <1>2, EmptySeq
  <2>2. PICK f : IsFlat(f, s, Len(s)) /\ FlattenSeq(s) = f[Len(s)]
    BY <2>1, FlatValue
  <2>. QED BY <2>1, <2>2, FlatType
<1>. QED BY <1>1, <1>2

\* one more batch comes at their end,
LEMMA FlattenAppend ==
  ASSUME NEW E, NEW s \in Seq(Seq(E)), NEW m \in Seq(E)
  PROVE  FlattenSeq(Append(s, m)) = FlattenSeq(s) \o m
<1>. DEFINE t == Append(s, m)
<1>1. t \in Seq(Seq(E)) /\ Len(t) = Len(s) + 1 /\ t[Len(s) + 1] = m
      /\ \A i \in 1..Len(s) : t[i] = s[i]
  BY AppendProperties
<1>2. Len(s) \in Nat
  BY LenProperties
<1>. HIDE DEF t
<1>3. PICK g : IsFlat(g, t, Len(t)) /\ FlattenSeq(t) = g[Len(t)]
  BY <1>1, <1>2, FlatValue
<1>4. g[Len(t)] = IF Len(t) = 1 THEN m ELSE g[Len(t) - 1] \o m
  BY <1>1, <1>2, <1>3, FlatEquation
<1>5. CASE s = <<>>
  <2>1. FlattenSeq(s) = <<>> /\ Len(t) = 1
    BY <1>1, <1>5 DEF FlattenSeq
  <2>2. <<>> \o m = m
    BY ConcatEmptySeq
  <2>. QED BY <1>3, <1>4, <2>1, <2>2 DEF t
<1>6. CASE s # <<>>
  <2>1. Len(s) \in Nat \ {0}
    BY <1>6, EmptySeq
  <2>2. PICK f : IsFlat(f, s, Len(s)) /\ FlattenSeq(s) = f[Len(s)]
    BY <2>1, FlatValue
  <2>3. f[Len(s)] = g[Len(s)]
    <3>1. Len(s) \in 1..Len(s) /\ Len(t) \in Nat /\ Len(s) <= Len(t)
      BY <1>1, <2>1
    <3>2. \A i \in 1..Len(s) : s[i] = t[i]
      BY <1>1
    <3>3. PICK k \in Nat, l \in Nat : k = Len(s) /\ l = Len(t)
      BY <1>2, <3>1
    <3>4. k <= l /\ IsFlat(f, s, k) /\ IsFlat(g, t, l) /\ SameUpTo(s, t, k)
      BY <1>3, <2>2, <3>1, <3>2, <3>3 DEF SameUpTo
    <3>5. SameUpTo(f, g, k)
      BY <3>4, FlatSame
    <3>. QED BY <3>1, <3>3, <3>5 DEF SameUpTo
  <2>4. Len(t) - 1 = Len(s) /\ Len(t) # 1
    BY <1>1, <2>1
  <2>. QED BY <1>3, <1>4, <2>2, <2>3, <2>4 DEF t
<1>. QED BY <1>5, <1>6

\* no batches have none,
LEMMA FlattenEmpty == FlattenSeq(<<>>) = <<>>
BY DEF FlattenSeq

Associates(a, b, c) == (a \o b) \o c = a \o (b \o c)

\* Concatenation is associative.
LEMMA ConcatThree ==
  ASSUME NEW E, NEW a \in Seq(E), NEW b \in Seq(E), NEW c \in Seq(E)
  PROVE  Associates(a, b, c)
BY ConcatAssociative DEF Associates

\* The first m + 1 of t behind w are the first m behind w, and one more.
LEMMA PieceGrows ==
  ASSUME NEW E, NEW t \in Seq(E), NEW w \in Seq(E), NEW m \in Nat, m < Len(t)
  PROVE  /\ w \o SubSeq(t, 1, m) \in Seq(E)
         /\ w \o SubSeq(t, 1, m + 1) = Append(w \o SubSeq(t, 1, m), t[m + 1])
<1>1. Len(t) \in Nat /\ m + 1 \in 1..Len(t) /\ t[m + 1] \in E
  BY LenProperties, ElementOfSeq
<1>2. SubSeq(t, 1, m) \in Seq(E)
  <2>1. \A i \in 1..m : t[i] \in E
    BY <1>1, ElementOfSeq
  <2>. QED BY <2>1, SubSeqProperties
<1>3. SubSeq(t, 1, m + 1) = SubSeq(t, 1, m) \o <<t[m + 1]>>
  <2>1. SubSeq(t, 1, m + 1) = SubSeq(t, 1, (m + 1) - 1) \o <<t[m + 1]>>
    BY <1>1, SubSeqRecursiveSecond
  <2>2. (m + 1) - 1 = m
    OBVIOUS
  <2>. QED BY <2>1, <2>2, Zenon
<1>4. PICK p \in Seq(E), c \in E : p = SubSeq(t, 1, m) /\ c = t[m + 1]
  BY <1>1, <1>2
<1>5. <<c>> \in Seq(E) /\ w \o p \in Seq(E)
  BY ConcatProperties
<1>6. Associates(w, p, <<c>>) /\ Append(w \o p, c) = (w \o p) \o <<c>>
  BY <1>5, ConcatThree, AppendIsConcat
<1>. QED BY <1>3, <1>4, <1>5, <1>6, Zenon DEF Associates

\* The first none of t are nothing.
LEMMA PieceNone == ASSUME NEW E, NEW t, NEW w \in Seq(E) PROVE w \o SubSeq(t, 1, 0) = w
<1>1. SubSeq(t, 1, 0) = <<>>
  BY SubSeqEmpty
<1>. QED BY <1>1, ConcatEmptySeq

\* Two are appended one after the other.
LEMMA AppendTwo ==
  ASSUME NEW E, NEW v \in Seq(E), NEW a \in E, NEW b \in E
  PROVE  v \o <<a, b>> = Append(Append(v, a), b)
<1>1. <<a>> \in Seq(E) /\ <<b>> \in Seq(E) /\ <<a>> \o <<b>> = <<a, b>>
  <2>1. <<a>> \in Seq(E) /\ <<b>> \in Seq(E) /\ <<a, b>> \in Seq(E)
    OBVIOUS
  <2>2. PICK u \in Seq(E) : u = <<a>>
    BY <2>1
  <2>3. Append(u, b) \in Seq(E) /\ Len(Append(u, b)) = 2 /\ Append(u, b)[1] = a /\ Append(u, b)[2] = b
    BY <2>2, AppendProperties
  <2>4. Append(u, b) = <<a, b>>
    <3>1. PICK q \in Seq(E) : q = <<a, b>> /\ Len(q) = 2 /\ q[1] = a /\ q[2] = b
      BY <2>1
    <3>2. PICK r \in Seq(E) : r = Append(u, b) /\ Len(r) = 2 /\ r[1] = a /\ r[2] = b
      BY <2>3
    <3>3. \A i \in 1..Len(r) : r[i] = q[i]
      BY <3>1, <3>2
    <3>4. r = q
      BY <3>1, <3>2, <3>3, SeqEqual
    <3>. QED BY <3>1, <3>2, <3>4
  <2>. QED BY <2>1, <2>2, <2>4, AppendIsConcat
<1>2. Associates(v, <<a>>, <<b>>)
  BY <1>1, ConcatThree
<1>3. Append(v, a) = v \o <<a>> /\ Append(v, a) \in Seq(E)
  BY AppendIsConcat, AppendProperties
<1>4. Append(Append(v, a), b) = Append(v, a) \o <<b>>
  BY <1>3, AppendIsConcat
<1>. QED BY <1>1, <1>2, <1>3, <1>4, Zenon DEF Associates

\* The first of a sequence of sequences comes first.
HeadComesFirst(s) == FlattenSeq(s) = Head(s) \o FlattenSeq(Tail(s))

\* If the first batch comes first, it still does with one more at the end:
LEMMA FlattenHeadStep ==
  ASSUME NEW E, NEW u \in Seq(Seq(E)), NEW m \in Seq(E), u # <<>> => HeadComesFirst(u)
  PROVE  HeadComesFirst(Append(u, m))
<1>1. FlattenSeq(Append(u, m)) = FlattenSeq(u) \o m
  BY FlattenAppend
<1>2. CASE u = <<>>
  <2>1. Head(Append(u, m)) = m /\ Tail(Append(u, m)) = <<>>
    BY <1>2, HeadTailAppend
  <2>2. m \o <<>> = m /\ <<>> \o m = m
    BY ConcatEmptySeq
  <2>. QED BY <1>1, <1>2, <2>1, <2>2, FlattenEmpty DEF HeadComesFirst
<1>3. CASE u # <<>>
  <2>1. Head(Append(u, m)) = Head(u) /\ Tail(Append(u, m)) = Append(Tail(u), m)
    BY <1>3, HeadTailAppend
  <2>2. Head(u) \in Seq(E) /\ Tail(u) \in Seq(Seq(E))
    BY <1>3, HeadTailProperties
  <2>3. FlattenSeq(Append(Tail(u), m)) = FlattenSeq(Tail(u)) \o m
    BY <2>2, FlattenAppend
  <2>4. FlattenSeq(Tail(u)) \in Seq(E)
    BY <2>2, FlattenType
  <2>5. Associates(Head(u), FlattenSeq(Tail(u)), m)
    BY <2>2, <2>4, ConcatThree
  <2>. QED BY <1>1, <1>3, <2>1, <2>3, <2>5, Zenon DEF HeadComesFirst, Associates
<1>. QED BY <1>2, <1>3

\* the first batch comes first.
LEMMA FlattenHead ==
  ASSUME NEW E, NEW s \in Seq(Seq(E)), s # <<>>
  PROVE  FlattenSeq(s) = Head(s) \o FlattenSeq(Tail(s))
<1>. DEFINE S == {n \in Nat : \A u \in Seq(Seq(E)) : Len(u) = n /\ u # <<>> => HeadComesFirst(u)}
<1>1. 0 \in S
  BY EmptySeq
<1>2. ASSUME NEW n \in Nat, n \in S PROVE n + 1 \in S
  <2>. SUFFICES ASSUME NEW v \in Seq(Seq(E)), Len(v) = n + 1, v # <<>> PROVE HeadComesFirst(v)
    OBVIOUS
  <2>1. PICK u \in Seq(Seq(E)), m \in Seq(E) : v = Append(u, m)
    BY SequenceEmptyOrAppend
  <2>2. Len(u) = n
    BY <2>1, AppendProperties, LenProperties
  <2>3. u # <<>> => HeadComesFirst(u)
    BY <1>2, <2>2
  <2>. QED BY <2>1, <2>3, FlattenHeadStep
<1>3. Nat \subseteq S
  <2>. HIDE DEF S
  <2>. QED BY <1>1, <1>2, NatInSet
<1>4. Len(s) \in Nat
  BY LenProperties
<1>. QED BY <1>3, <1>4 DEF HeadComesFirst

=============================================================================
