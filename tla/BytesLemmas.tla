----------------------------- MODULE BytesLemmas -----------------------------
(***************************************************************************)
(* What every proof about bytes rests on, for sequences over any set S:    *)
(* pieces of a sequence, sequences put one behind the other, sums,         *)
(* searches, the buffer that a machine keeps between two calls, and        *)
(* induction over the natural numbers.                                     *)
(***************************************************************************)
EXTENDS RemainderBuffer, Searches, SequenceTheorems, FiniteSetTheorems,
        WellFoundedInduction, TLAPS

-----------------------------------------------------------------------------
(* Sets of natural numbers. *)

\* A non-empty set of natural numbers has a minimum.
LEMMA MinProperties ==
    ASSUME NEW S \in SUBSET Nat, S # {}
    PROVE  Min(S) \in S /\ \A x \in S : Min(S) <= x
  <1> DEFINE R == {ss \in Nat \X Nat : ss[1] < ss[2]}
  <1>0. IsWellFoundedOn(R, Nat)
    BY NatLessThanWellFounded, Zenon DEF OpToRel
  <1>1. PICK m \in S : \A y \in S : ~ (<<y, m>> \in R)
    <2> HIDE DEF R
    <2> QED BY <1>0, WFMin
  <1>2. \A y \in S : m <= y
    <2> SUFFICES ASSUME NEW y \in S PROVE m <= y
      OBVIOUS
    <2>1. y \in Nat /\ m \in Nat
      OBVIOUS
    <2>2. << y, m >>[1] = y /\ << y, m >>[2] = m
      OBVIOUS
    <2>3. << y, m >> \in Nat \X Nat
      BY <2>1
    <2>4. ~ (<< y, m >>[1] < << y, m >>[2])
      BY <1>1, <2>3, Zenon
    <2> QED BY <2>1, <2>2, <2>4
  <1>3. \E x \in S : \A y \in S : x =< y
    BY <1>2
  <1> QED BY <1>3 DEF Min

\* A non-empty set of natural numbers below a bound has a maximum.
LEMMA MaxProperties ==
    ASSUME NEW N \in Nat, NEW S \in SUBSET (0 .. N), S # {}
    PROVE  Max(S) \in S /\ \A x \in S : x <= Max(S)
  <1> DEFINE D == {N - x : x \in S}
  <1>1. D \in SUBSET Nat
    <2>1. \A x \in S : N - x \in Nat
      OBVIOUS
    <2> QED BY <2>1
  <1>2. D # {}
    <2>1. PICK x \in S : TRUE
      OBVIOUS
    <2>2. N - x \in D
      BY <2>1
    <2> QED BY <2>2
  <1>3. Min(D) \in D /\ \A d \in D : Min(D) <= d
    <2> HIDE DEF D
    <2> QED BY <1>1, <1>2, MinProperties
  <1>4. PICK m \in S : Min(D) = N - m
    BY <1>3
  <1>5. \A y \in S : y <= m
    <2> SUFFICES ASSUME NEW y \in S PROVE y <= m
      OBVIOUS
    <2>1. N - y \in D
      OBVIOUS
    <2>2. N - m <= N - y
      BY <1>3, <1>4, <2>1
    <2> QED BY <2>2
  <1>6. \E x \in S : \A y \in S : x >= y
    BY <1>5
  <1> QED BY <1>6 DEF Max

\* Induction over the natural numbers, for a set given by a property.
LEMMA NatByInduction ==
    ASSUME NEW S, 0 \in S, \A n \in Nat : n \in S => n + 1 \in S
    PROVE  Nat \subseteq S
  <1> DEFINE T == Nat \ S
  <1> SUFFICES ASSUME T # {} PROVE FALSE
    OBVIOUS
  <1>1. Min(T) \in T /\ \A x \in T : Min(T) <= x
    <2>1. T \in SUBSET Nat
      OBVIOUS
    <2> HIDE DEF T
    <2> QED BY <2>1, MinProperties
  <1> DEFINE m == Min(T)
  <1> HIDE DEF m
  <1>2. m \in Nat /\ m \notin S /\ m # 0 /\ \A x \in T : m <= x
    BY <1>1 DEF m
  <1>3. m - 1 \in Nat /\ ~ (m <= m - 1) /\ (m - 1) + 1 = m
    BY <1>2
  <1>4. m - 1 \in S
    BY <1>2, <1>3
  <1> QED BY <1>2, <1>3, <1>4

-----------------------------------------------------------------------------
(* Pieces of a sequence. *)

\* The first n elements of a sequence.
LEMMA FrontProperties ==
    ASSUME NEW S, NEW s \in Seq(S), NEW n \in 0 .. Len(s)
    PROVE  /\ SubSeq(s, 1, n) \in Seq(S)
           /\ Len(SubSeq(s, 1, n)) = n
           /\ \A i \in 1 .. n : SubSeq(s, 1, n)[i] = s[i]
  <1>1. \A i \in 1 .. n : s[i] \in S
    BY ElementOfSeq
  <1>2. /\ SubSeq(s, 1, n) \in Seq(S)
        /\ Len(SubSeq(s, 1, n)) = IF 1 <= n THEN n - 1 + 1 ELSE 0
        /\ \A i \in 1 .. n - 1 + 1 : SubSeq(s, 1, n)[i] = s[1 + i - 1]
    BY <1>1, SubSeqProperties
  <1>3. (IF 1 <= n THEN n - 1 + 1 ELSE 0) = n /\ n - 1 + 1 = n /\ \A i \in 1 .. n : 1 + i - 1 = i
    OBVIOUS
  <1> QED BY <1>2, <1>3

\* A piece of a sequence, element by element.
LEMMA Piece ==
    ASSUME NEW S, NEW s \in Seq(S), NEW b \in 0 .. Len(s), NEW a \in 0 .. b
    PROVE  /\ SubSeq(s, a + 1, b) \in Seq(S)
           /\ Len(SubSeq(s, a + 1, b)) = b - a
           /\ \A i \in 1 .. b - a : SubSeq(s, a + 1, b)[i] = s[a + i]
  <1>1. Len(s) \in Nat /\ \A i \in 1 .. Len(s) : s[i] \in S
    OBVIOUS
  <1>2. a \in Nat /\ b \in Nat /\ a <= b /\ b <= Len(s)
    BY <1>1
  <1>3. \A i \in a + 1 .. b : s[i] \in S
    BY <1>1, <1>2
  <1> DEFINE m == a + 1
  <1>4. m \in Int /\ b \in Int /\ \A i \in m .. b : s[i] \in S
    BY <1>2, <1>3
  <1> HIDE DEF m
  <1>5. /\ SubSeq(s, m, b) \in Seq(S)
        /\ Len(SubSeq(s, m, b)) = IF m <= b THEN b - m + 1 ELSE 0
        /\ \A i \in 1 .. b - m + 1 : SubSeq(s, m, b)[i] = s[m + i - 1]
    BY <1>4, SubSeqProperties
  <1>6. (IF m <= b THEN b - m + 1 ELSE 0) = b - a /\ b - m + 1 = b - a
    BY <1>2 DEF m
  <1>7. \A i \in 1 .. b - a : m + i - 1 = a + i
    BY <1>2 DEF m
  <1>8. \A i \in 1 .. b - a : SubSeq(s, m, b)[i] = s[a + i]
    BY <1>5, <1>6, <1>7
  <1> QED BY <1>5, <1>6, <1>8 DEF m

\* Two adjacent pieces of a sequence make one piece.
LEMMA PiecesJoin ==
    ASSUME NEW S, NEW s \in Seq(S), NEW c \in 0 .. Len(s), NEW b \in 0 .. c, NEW a \in 0 .. b
    PROVE  SubSeq(s, a + 1, b) \o SubSeq(s, b + 1, c) = SubSeq(s, a + 1, c)
  <1> DEFINE p == SubSeq(s, a + 1, b)
             q == SubSeq(s, b + 1, c)
             all == SubSeq(s, a + 1, c)
  <1>1. a \in Nat /\ b \in Nat /\ c \in Nat /\ a <= b /\ b <= c /\ c <= Len(s) /\ Len(s) \in Nat
    OBVIOUS
  <1>2. a \in 0 .. c /\ b \in 0 .. Len(s)
    BY <1>1
  <1>3. p \in Seq(S) /\ Len(p) = b - a /\ \A i \in 1 .. b - a : p[i] = s[a + i]
    BY <1>2, Piece
  <1>4. q \in Seq(S) /\ Len(q) = c - b /\ \A i \in 1 .. c - b : q[i] = s[b + i]
    BY Piece
  <1>5. all \in Seq(S) /\ Len(all) = c - a /\ \A i \in 1 .. c - a : all[i] = s[a + i]
    BY <1>2, Piece
  <1> HIDE DEF p, q, all
  <1>6. /\ p \o q \in Seq(S) /\ Len(p \o q) = c - a
        /\ \A i \in 1 .. c - a : (p \o q)[i] = IF i <= Len(p) THEN p[i] ELSE q[i - Len(p)]
    <2>1. /\ p \o q \in Seq(S) /\ Len(p \o q) = Len(p) + Len(q)
          /\ \A i \in 1 .. Len(p) + Len(q) :
                 (p \o q)[i] = IF i <= Len(p) THEN p[i] ELSE q[i - Len(p)]
      BY <1>3, <1>4, ConcatProperties
    <2>2. Len(p) + Len(q) = c - a
      BY <1>1, <1>3, <1>4
    <2> QED BY <2>1, <2>2
  <1>7. \A i \in 1 .. c - a : (p \o q)[i] = all[i]
    <2> SUFFICES ASSUME NEW i \in 1 .. c - a PROVE (p \o q)[i] = all[i]
      OBVIOUS
    <2>1. CASE i <= b - a
      <3>1. i <= Len(p) /\ i \in 1 .. b - a
        BY <1>1, <1>3, <2>1
      <3>2. p[i] = s[a + i] /\ all[i] = s[a + i]
        BY <1>3, <1>5, <3>1
      <3>3. (p \o q)[i] = p[i]
        BY <1>6, <3>1
      <3> QED BY <3>2, <3>3
    <2>2. CASE ~ (i <= b - a)
      <3>1. i - (b - a) \in 1 .. c - b /\ b + (i - (b - a)) = a + i
        BY <1>1, <2>2
      <3>2. ~ (i <= Len(p)) /\ i - Len(p) = i - (b - a)
        BY <1>3, <2>2
      <3>3. (p \o q)[i] = q[i - (b - a)]
        BY <1>6, <3>2
      <3>4. q[i - (b - a)] = s[a + i] /\ all[i] = s[a + i]
        BY <1>4, <1>5, <3>1
      <3> QED BY <3>3, <3>4
    <2> QED BY <2>1, <2>2
  <1> DEFINE joined == p \o q
  <1>8. /\ joined \in Seq(S) /\ Len(joined) = Len(all)
        /\ \A i \in 1 .. Len(joined) : joined[i] = all[i]
    BY <1>5, <1>6, <1>7
  <1> HIDE DEF joined
  <1>9. joined = all
    BY <1>5, <1>8, SeqEqual
  <1> QED BY <1>9 DEF p, q, all, joined

\* What follows the first k elements of a piece is a piece.
LEMMA PieceShrinks ==
    ASSUME NEW S, NEW s \in Seq(S), NEW b \in 0 .. Len(s), NEW a \in 0 .. b, NEW k \in 0 .. b - a
    PROVE  SubSeq(SubSeq(s, a + 1, b), k + 1, b - a) = SubSeq(s, a + k + 1, b)
  <1> DEFINE p == SubSeq(s, a + 1, b)
             q == SubSeq(p, k + 1, b - a)
             rest == SubSeq(s, (a + k) + 1, b)
  <1>1. a \in Nat /\ b \in Nat /\ k \in Nat /\ k <= b - a /\ a + k \in 0 .. b
    OBVIOUS
  <1>2. p \in Seq(S) /\ Len(p) = b - a /\ \A i \in 1 .. b - a : p[i] = s[a + i]
    BY Piece
  <1>3. rest \in Seq(S) /\ Len(rest) = b - (a + k) /\ \A i \in 1 .. b - (a + k) : rest[i] = s[(a + k) + i]
    <2> DEFINE d == a + k
    <2>1. d \in 0 .. b
      BY <1>1
    <2> HIDE DEF d
    <2>2. /\ SubSeq(s, d + 1, b) \in Seq(S)
          /\ Len(SubSeq(s, d + 1, b)) = b - d
          /\ \A i \in 1 .. b - d : SubSeq(s, d + 1, b)[i] = s[d + i]
      BY <2>1, Piece
    <2> QED BY <2>2 DEF d
  <1> HIDE DEF p, rest
  <1>4. q \in Seq(S) /\ Len(q) = (b - a) - k /\ \A i \in 1 .. (b - a) - k : q[i] = p[k + i]
    <2> DEFINE d == b - a
    <2>1. d \in 0 .. Len(p) /\ k \in 0 .. d
      BY <1>1, <1>2
    <2> HIDE DEF d
    <2>2. /\ SubSeq(p, k + 1, d) \in Seq(S)
          /\ Len(SubSeq(p, k + 1, d)) = d - k
          /\ \A i \in 1 .. d - k : SubSeq(p, k + 1, d)[i] = p[k + i]
      BY <1>2, <2>1, Piece
    <2> QED BY <2>2 DEF d
  <1> HIDE DEF q
  <1>5. Len(q) = Len(rest) /\ Len(q) = (b - a) - k
    BY <1>1, <1>3, <1>4
  <1>6. \A i \in 1 .. Len(q) : q[i] = rest[i]
    <2> SUFFICES ASSUME NEW i \in 1 .. (b - a) - k PROVE q[i] = rest[i]
      BY <1>5
    <2>1. k + i \in 1 .. b - a /\ a + (k + i) = (a + k) + i /\ i \in 1 .. b - (a + k)
      BY <1>1
    <2> QED BY <1>2, <1>3, <1>4, <2>1
  <1>7. q = rest
    BY <1>3, <1>4, <1>5, <1>6, SeqEqual
  <1> QED BY <1>1, <1>7 DEF p, q, rest

\* The place where a piece that ends at f begins follows from its length.
LEMMA RestIsSuffix ==
    ASSUME NEW S, NEW s \in Seq(S), NEW f \in 0 .. Len(s), NEW a \in 0 .. f,
           NEW p, p = SubSeq(s, a + 1, f)
    PROVE  Len(p) <= f /\ p = SubSeq(s, f - Len(p) + 1, f)
  <1>1. f \in Nat /\ a \in Nat /\ a <= f
    OBVIOUS
  <1>2. Len(p) = f - a
    BY Piece
  <1>3. Len(p) <= f /\ f - Len(p) = a
    BY <1>1, <1>2
  <1> QED BY <1>3

\* A sequence is its first n elements and the rest.
LEMMA FrontAndRest ==
    ASSUME NEW S, NEW s \in Seq(S), NEW n \in 0 .. Len(s)
    PROVE  /\ SubSeq(s, n + 1, Len(s)) \in Seq(S)
           /\ Len(SubSeq(s, n + 1, Len(s))) = Len(s) - n
           /\ SubSeq(s, 1, n) \o SubSeq(s, n + 1, Len(s)) = s
  <1>1. Len(s) \in Nat /\ Len(s) \in 0 .. Len(s) /\ 0 \in 0 .. n
    BY LenProperties
  <1> DEFINE rest == SubSeq(s, n + 1, Len(s))
  <1>2. SubSeq(s, 0 + 1, n) \o rest = SubSeq(s, 0 + 1, Len(s))
    BY <1>1, PiecesJoin
  <1> HIDE DEF rest
  <1>3. SubSeq(s, 1, n) \o rest = s
    <2>1. SubSeq(s, 1, Len(s)) = s /\ 0 + 1 = 1
      BY SubSeqFull
    <2> QED BY <1>2, <2>1
  <1>4. /\ SubSeq(s, n + 1, Len(s)) \in Seq(S)
        /\ Len(SubSeq(s, n + 1, Len(s))) = Len(s) - n
    BY <1>1, Piece
  <1> QED BY <1>3, <1>4 DEF rest

\* Four sequences one behind the other.
LEMMA FourJoined ==
    ASSUME NEW S, NEW a \in Seq(S), NEW b \in Seq(S), NEW c \in Seq(S), NEW d \in Seq(S)
    PROVE  /\ a \o b \o c \o d \in Seq(S)
           /\ Len(a \o b \o c \o d) = Len(a) + Len(b) + Len(c) + Len(d)
  <1> DEFINE h == a \o b
  <1>1. h \in Seq(S) /\ Len(h) = Len(a) + Len(b)
    BY ConcatProperties
  <1> HIDE DEF h
  <1> DEFINE e == h \o c
  <1>2. e \in Seq(S) /\ Len(e) = Len(h) + Len(c)
    BY <1>1, ConcatProperties
  <1> HIDE DEF e
  <1>3. e \o d \in Seq(S) /\ Len(e \o d) = Len(e) + Len(d)
    BY <1>2, ConcatProperties
  <1> QED BY <1>1, <1>2, <1>3 DEF e, h

\* A sequence is a prefix of what continues it.
LEMMA PrefixOfConcat ==
    ASSUME NEW S, NEW s \in Seq(S), NEW t \in Seq(S)
    PROVE  IsPrefix(s, s \o t)
  <1> DEFINE n == Len(s)
             w == s \o t
  <1>1. w \in Seq(S) /\ Len(w) = n + Len(t) /\ n \in Nat /\ Len(t) \in Nat
    BY ConcatProperties, LenProperties
  <1>2. \A i \in 1 .. n : w[i] = s[i]
    BY <1>1, ConcatProperties
  <1> HIDE DEF w
  <1>3. n \in 0 .. Len(w) /\ n \in 0 .. Len(s)
    BY <1>1
  <1>4. SubSeq(w, 1, n) \in Seq(S) /\ Len(SubSeq(w, 1, n)) = n /\ \A i \in 1 .. n : SubSeq(w, 1, n)[i] = w[i]
    BY <1>1, <1>3, FrontProperties
  <1>5. SubSeq(w, 1, n) = s
    BY <1>2, <1>4, SeqEqual
  <1>6. SubSeq(s, 1, n) = s
    BY SubSeqFull
  <1> QED BY <1>3, <1>5, <1>6 DEF IsPrefix, w

\* A prefix that is not shorter is all.
LEMMA PrefixIsAll ==
    ASSUME NEW S, NEW s \in Seq(S), NEW t \in Seq(S), Len(s) >= Len(s \o t)
    PROVE  s \o t = s /\ t = << >>
  <1>1. Len(s \o t) = Len(s) + Len(t) /\ Len(s) \in Nat /\ Len(t) \in Nat
    BY ConcatProperties, LenProperties
  <1>2. t = << >>
    BY <1>1, EmptySeq
  <1> QED BY <1>2, ConcatEmptySeq

\* The sequences in a sequence have a common bound on their lengths.
LEMMA LengthsBounded ==
    ASSUME NEW S, NEW q \in Seq(Seq(S))
    PROVE  \E N \in Nat : \A i \in 1 .. Len(q) : Len(q[i]) <= N
  <1> DEFINE P == {n \in Nat : n <= Len(q) => \E N \in Nat : \A i \in 1 .. n : Len(q[i]) <= N}
  <1>1. Len(q) \in Nat /\ \A i \in 1 .. Len(q) : Len(q[i]) \in Nat
    BY ElementOfSeq, LenProperties
  <1>2. 0 \in P
    OBVIOUS
  <1>3. ASSUME NEW n \in Nat, n \in P PROVE n + 1 \in P
    <2> SUFFICES ASSUME n + 1 <= Len(q)
                 PROVE  \E N \in Nat : \A i \in 1 .. n + 1 : Len(q[i]) <= N
      OBVIOUS
    <2>1. PICK N \in Nat : \A i \in 1 .. n : Len(q[i]) <= N
      BY <1>1, <1>3
    <2>2. Len(q[n + 1]) \in Nat /\ \A i \in 1 .. n + 1 : i = n + 1 \/ i \in 1 .. n
      BY <1>1
    <2> DEFINE last == Len(q[n + 1])
    <2>3. last \in Nat /\ N + last \in Nat /\ N <= N + last /\ last <= N + last
      BY <2>2
    <2>4. \A i \in 1 .. n + 1 : Len(q[i]) <= N + last
      BY <1>1, <2>1, <2>2, <2>3
    <2> QED BY <2>3, <2>4
  <1>4. Nat \subseteq P
    <2> HIDE DEF P
    <2> QED BY <1>2, <1>3, NatByInduction
  <1>5. Len(q) \in P
    BY <1>1, <1>4
  <1> QED BY <1>1, <1>5

-----------------------------------------------------------------------------
(* SumFunction. *)

\* The element that a sum over the set s takes first.
First(s) == CHOOSE x \in s : TRUE

\* g takes the values that the recursive function of a sum over f takes on the
\* sets in U,
SumsOn(g, f, U) ==
    \A s \in U : g[s] = IF s = {} THEN 0 ELSE f[First(s)] + g[s \ {First(s)}]

\* on all subsets of D,
SumsIn(g, f, D) == SumsOn(g, f, SUBSET D)

\* and is defined there only.
SumsExactly(g, f, D) ==
    g = [s \in SUBSET D |-> IF s = {} THEN 0 ELSE f[First(s)] + g[s \ {First(s)}]]

\* What is left of a finite set when its first element is taken.
LEMMA FirstTaken ==
    ASSUME NEW D, IsFiniteSet(D), NEW s \in SUBSET D, NEW n \in Nat,
           Cardinality(s) <= n + 1, s # {}, NEW x \in s
    PROVE  /\ First(s) \in s
           /\ IsFiniteSet(s) /\ Cardinality(s) \in Nat
           /\ s \ {x} \in SUBSET D /\ Cardinality(s \ {x}) <= n
  <1>1. IsFiniteSet(s) /\ Cardinality(s) \in Nat
    BY FS_Subset, FS_CardinalityType
  <1>2. Cardinality(s \ {x}) = Cardinality(s) - 1
    BY <1>1, FS_RemoveElement
  <1>3. First(s) \in s
    BY DEF First
  <1> QED BY <1>1, <1>2, <1>3

\* There is such a function,
LEMMA SumsExist ==
    ASSUME NEW D, IsFiniteSet(D), NEW f \in [D -> Nat]
    PROVE  \E g : SumsExactly(g, f, D)
  <1> DEFINE Small(n) == {s \in SUBSET D : Cardinality(s) <= n}
             P == {n \in Nat : \E g : g = [s \in Small(n) |-> g[s]] /\ SumsOn(g, f, Small(n))}
  <1>1. 0 \in P
    <2> DEFINE g == [s \in Small(0) |-> 0]
    <2>1. \A s \in Small(0) : s = {}
      <3> SUFFICES ASSUME NEW s \in Small(0) PROVE s = {}
        OBVIOUS
      <3>1. IsFiniteSet(s) /\ Cardinality(s) \in Nat /\ Cardinality(s) <= 0
        BY FS_Subset, FS_CardinalityType
      <3> QED BY <3>1, FS_EmptySet
    <2>2. SumsOn(g, f, Small(0)) /\ g = [s \in Small(0) |-> g[s]]
      BY <2>1 DEF SumsOn
    <2> HIDE DEF g, Small
    <2> QED BY <2>2
  <1>2. ASSUME NEW n \in Nat, n \in P PROVE n + 1 \in P
    <2>1. PICK g : g = [s \in Small(n) |-> g[s]] /\ SumsOn(g, f, Small(n))
      BY <1>2
    <2> DEFINE Next(s) == IF s = {} THEN 0 ELSE f[First(s)] + g[s \ {First(s)}]
               h == [s \in Small(n + 1) |-> Next(s)]
    <2>2. \A s \in Small(n) : h[s] = g[s]
      <3> SUFFICES ASSUME NEW s \in Small(n) PROVE h[s] = g[s]
        OBVIOUS
      <3>1. s \in Small(n + 1)
        <4>1. Cardinality(s) \in Nat /\ Cardinality(s) <= n
          BY FS_Subset, FS_CardinalityType
        <4> QED BY <4>1
      <3>2. h[s] = Next(s)
        BY <3>1
      <3>3. g[s] = Next(s)
        BY <2>1 DEF SumsOn
      <3> QED BY <3>2, <3>3
    <2>3. SumsOn(h, f, Small(n + 1))
      <3> SUFFICES ASSUME NEW s \in Small(n + 1)
                   PROVE  h[s] = IF s = {} THEN 0 ELSE f[First(s)] + h[s \ {First(s)}]
        BY DEF SumsOn
      <3>1. h[s] = Next(s)
        OBVIOUS
      <3>2. ASSUME s # {} PROVE h[s \ {First(s)}] = g[s \ {First(s)}]
        <4>1. First(s) \in s
          BY <3>2 DEF First
        <4>2. s \ {First(s)} \in Small(n)
          BY <3>2, <4>1, FirstTaken
        <4> HIDE DEF h, Small
        <4> QED BY <2>2, <4>2
      <3> QED BY <3>1, <3>2
    <2>4. h = [s \in Small(n + 1) |-> h[s]]
      OBVIOUS
    <2> HIDE DEF h, Small
    <2> QED BY <2>3, <2>4
  <1>3. Nat \subseteq P
    <2> HIDE DEF P
    <2> QED BY <1>1, <1>2, NatByInduction
  <1>4. Cardinality(D) \in Nat
    BY FS_CardinalityType
  <1>5. Small(Cardinality(D)) = SUBSET D
    BY FS_Subset
  <1>6. PICK g : g = [s \in SUBSET D |-> g[s]] /\ SumsOn(g, f, SUBSET D)
    <2>1. Cardinality(D) \in P
      BY <1>3, <1>4
    <2> HIDE DEF Small
    <2> QED BY <1>5, <2>1
  <1>7. [s \in SUBSET D |-> g[s]]
            = [s \in SUBSET D |-> IF s = {} THEN 0 ELSE f[First(s)] + g[s \ {First(s)}]]
    BY <1>6 DEF SumsOn
  <1> QED BY <1>6, <1>7 DEF SumsExactly

\* so that SumFunction is the value of one.
LEMMA SumOf ==
    ASSUME NEW D, IsFiniteSet(D), NEW f \in [D -> Nat]
    PROVE  \E g : SumsIn(g, f, D) /\ SumFunction(f) = g[D]
  <1> DEFINE iter == CHOOSE g : SumsExactly(g, f, D)
  <1>1. SumFunction(f) = iter[D]
    BY DEF SumFunction, SumFunctionOnSet, FoldFunctionOnSet, MapThenFoldSet, First, SumsExactly
  <1>2. SumsExactly(iter, f, D)
    BY SumsExist
  <1> HIDE DEF iter
  <1>3. SumsIn(iter, f, D)
    BY <1>2 DEF SumsIn, SumsOn, SumsExactly
  <1> QED BY <1>1, <1>3

\* The order in which a sum takes its elements does not matter.
LEMMA SumTakes ==
    ASSUME NEW D, IsFiniteSet(D), NEW f \in [D -> Nat], NEW g, SumsIn(g, f, D),
           NEW part \in SUBSET D
    PROVE  /\ g[part] \in Nat
           /\ \A x, rest : x \in part /\ rest = part \ {x} => g[part] = f[x] + g[rest]
  <1> DEFINE Q(s) == g[s] \in Nat /\ \A x \in s : g[s] = f[x] + g[s \ {x}]
             P == {n \in Nat : \A s \in SUBSET D : Cardinality(s) <= n => Q(s)}
  <1>0. Q({})
    BY DEF SumsIn, SumsOn
  <1>1. 0 \in P
    <2> SUFFICES ASSUME NEW s \in SUBSET D, Cardinality(s) <= 0 PROVE Q(s)
      OBVIOUS
    <2>1. IsFiniteSet(s) /\ Cardinality(s) \in Nat
      BY FS_Subset, FS_CardinalityType
    <2>2. s = {}
      BY <2>1, FS_EmptySet
    <2> QED BY <1>0, <2>2
  <1>2. ASSUME NEW n \in Nat, n \in P PROVE n + 1 \in P
    <2> SUFFICES ASSUME NEW s \in SUBSET D, Cardinality(s) <= n + 1 PROVE Q(s)
      OBVIOUS
    <2>1. CASE s = {}
      BY <1>0, <2>1
    <2>2. CASE s # {}
      <3> DEFINE c == First(s)
      <3>1. c \in s
        BY <2>2 DEF First
      <3>2. \A x \in s : s \ {x} \in SUBSET D /\ Cardinality(s \ {x}) <= n
        BY <2>2, FirstTaken
      <3>3. \A x \in s : Q(s \ {x})
        BY <1>2, <3>2
      <3>4. g[s] = f[c] + g[s \ {c}]
        BY <2>2 DEF SumsIn, SumsOn
      <3>5. f[c] \in Nat /\ g[s \ {c}] \in Nat
        BY <3>1, <3>3
      <3>6. ASSUME NEW x \in s PROVE g[s] = f[x] + g[s \ {x}]
        <4>1. CASE x = c
          BY <3>4, <4>1
        <4>2. CASE x # c
          <5>1. x \in s \ {c} /\ c \in s \ {x} /\ (s \ {c}) \ {x} = (s \ {x}) \ {c}
            BY <3>1, <4>2
          <5> DEFINE rest == g[(s \ {x}) \ {c}]
          <5>2. g[s \ {c}] = f[x] + rest
            BY <3>1, <3>3, <5>1
          <5>3. g[s \ {x}] = f[c] + rest
            BY <3>3, <5>1
          <5>4. rest \in Nat
            <6>1. (s \ {x}) \ {c} \in SUBSET D /\ Cardinality((s \ {x}) \ {c}) <= n
              <7>1. IsFiniteSet(s \ {x}) /\ Cardinality(s \ {x}) \in Nat
                BY <3>2, FS_Subset, FS_CardinalityType
              <7>2. Cardinality((s \ {x}) \ {c}) = Cardinality(s \ {x}) - 1
                BY <5>1, <7>1, FS_RemoveElement
              <7> QED BY <3>2, <7>1, <7>2
            <6> QED BY <1>2, <6>1
          <5> HIDE DEF c, rest
          <5>5. f[x] \in Nat
            OBVIOUS
          <5> QED BY <3>4, <3>5, <5>2, <5>3, <5>4, <5>5
        <4> QED BY <4>1, <4>2
      <3> HIDE DEF c
      <3>7. g[s] \in Nat
        BY <3>4, <3>5
      <3> QED BY <3>6, <3>7
    <2> QED BY <2>1, <2>2
  <1>3. Nat \subseteq P
    <2> HIDE DEF P
    <2> QED BY <1>1, <1>2, NatByInduction
  <1>4. Cardinality(part) \in Nat /\ Cardinality(part) <= Cardinality(part)
    BY FS_Subset, FS_CardinalityType
  <1> SUFFICES Q(part)
    OBVIOUS
  <1> HIDE DEF Q
  <1> QED BY <1>3, <1>4

\* SumsOn over functions that agree on a set are the same there.
LEMMA SumsAgree ==
    ASSUME NEW D, IsFiniteSet(D), NEW U, NEW f, NEW g, NEW h, NEW k, D \subseteq U,
           SumsIn(g, f, D), SumsIn(k, h, U), \A x \in D : h[x] = f[x]
    PROVE  g[D] = k[D]
  <1> DEFINE P == {n \in Nat : \A s \in SUBSET D : Cardinality(s) <= n => g[s] = k[s]}
  <1>0. g[{}] = k[{}]
    BY DEF SumsIn, SumsOn
  <1>1. 0 \in P
    <2> SUFFICES ASSUME NEW s \in SUBSET D, Cardinality(s) <= 0 PROVE g[s] = k[s]
      OBVIOUS
    <2>1. IsFiniteSet(s) /\ Cardinality(s) \in Nat
      BY FS_Subset, FS_CardinalityType
    <2>2. s = {}
      BY <2>1, FS_EmptySet
    <2> QED BY <1>0, <2>2
  <1>2. ASSUME NEW n \in Nat, n \in P PROVE n + 1 \in P
    <2> SUFFICES ASSUME NEW s \in SUBSET D, Cardinality(s) <= n + 1 PROVE g[s] = k[s]
      OBVIOUS
    <2>0. s = {} => g[s] = k[s]
      BY <1>0
    <2> SUFFICES ASSUME s # {} PROVE g[s] = k[s]
      BY <2>0
    <2>1. First(s) \in s /\ s \ {First(s)} \in SUBSET D /\ Cardinality(s \ {First(s)}) <= n
      <3>1. First(s) \in s
        BY DEF First
      <3> QED BY <3>1, FirstTaken
    <2>2. g[s \ {First(s)}] = k[s \ {First(s)}] /\ h[First(s)] = f[First(s)]
      BY <1>2, <2>1
    <2>3. s \in SUBSET U
      OBVIOUS
    <2> QED BY <2>2, <2>3 DEF SumsIn, SumsOn
  <1>3. Nat \subseteq P
    <2> HIDE DEF P
    <2> QED BY <1>1, <1>2, NatByInduction
  <1>4. Cardinality(D) \in Nat /\ Cardinality(D) <= Cardinality(D) /\ D \in SUBSET D
    BY FS_CardinalityType
  <1> QED BY <1>3, <1>4

\* A sum of natural numbers is one.
LEMMA SumType == ASSUME NEW D, IsFiniteSet(D), NEW f \in [D -> Nat] PROVE SumFunction(f) \in Nat
  <1>1. PICK g : SumsIn(g, f, D) /\ SumFunction(f) = g[D]
    BY SumOf
  <1>2. D \in SUBSET D
    OBVIOUS
  <1> QED BY <1>1, <1>2, SumTakes

\* A sum in which the value at one key is added or changed: with the sets of
\* keys named,
LEMMA SumsDiffer ==
    ASSUME NEW D, IsFiniteSet(D), NEW f \in [D -> Nat],
           NEW key, NEW U, U = D \cup {key}, NEW h \in [U -> Nat],
           \A x \in D : x # key => h[x] = f[x]
    PROVE  SumFunction(h) + (IF key \in D THEN f[key] ELSE 0) = SumFunction(f) + h[key]
  <1> DEFINE E == D \ {key}
  <1>1. PICK g : SumsIn(g, f, D) /\ SumFunction(f) = g[D]
    BY SumOf
  <1>2. IsFiniteSet(U) /\ IsFiniteSet(E) /\ h \in [U -> Nat]
    BY FS_AddElement, FS_RemoveElement
  <1>3. PICK k : SumsIn(k, h, U) /\ SumFunction(h) = k[U]
    BY <1>2, SumOf
  <1>4. k[U] = h[key] + k[E]
    <2>1. E = U \ {key} /\ key \in U /\ U \in SUBSET U
      OBVIOUS
    <2> HIDE DEF E
    <2> QED BY <1>2, <1>3, <2>1, SumTakes
  <1>5. g[D] \in Nat /\ g[E] \in Nat /\ h[key] \in Nat /\ k[E] \in Nat
    <2>1. D \in SUBSET D /\ E \in SUBSET D /\ E \in SUBSET U
      OBVIOUS
    <2>2. h[key] \in Nat
      OBVIOUS
    <2>3. k[E] \in Nat
      BY <1>2, <1>3, <2>1, SumTakes
    <2> HIDE DEF E
    <2> QED BY <1>1, <2>1, <2>2, <2>3, SumTakes
  <1>6. key \in D => g[D] = f[key] + g[E] /\ f[key] \in Nat
    <2>1. D \in SUBSET D
      OBVIOUS
    <2> SUFFICES ASSUME key \in D PROVE g[D] = f[key] + g[D \ {key}] /\ f[key] \in Nat
      OBVIOUS
    <2> QED BY <1>1, <2>1, SumTakes
  <1>7. key \notin D => E = D
    OBVIOUS
  <1>8. g[E] = k[E]
    <2>1. E \subseteq D /\ E \subseteq U /\ \A x \in E : h[x] = f[x]
      OBVIOUS
    <2>2. SumsIn(g, f, E)
      <3> HIDE DEF E
      <3> QED BY <1>1, <2>1 DEF SumsIn, SumsOn
    <2> HIDE DEF E
    <2> QED BY <1>2, <1>3, <2>1, <2>2, SumsAgree
  <1> HIDE DEF E
  <1> QED BY <1>1, <1>3, <1>4, <1>5, <1>6, <1>7, <1>8

\* h is f with the value at one key added or changed.
ChangedAt(f, h, key) ==
    /\ f \in [DOMAIN f -> Nat] /\ IsFiniteSet(DOMAIN f)
    /\ h \in [DOMAIN f \cup {key} -> Nat]
    /\ \A x \in DOMAIN f : x # key => h[x] = f[x]

\* and without.
LEMMA SumChanged ==
    ASSUME NEW f, NEW h, NEW key, ChangedAt(f, h, key)
    PROVE  /\ SumFunction(f) \in Nat /\ SumFunction(h) \in Nat
           /\ SumFunction(h) + (IF key \in DOMAIN f THEN f[key] ELSE 0) = SumFunction(f) + h[key]
  <1> SUFFICES ASSUME NEW D, D = DOMAIN f, NEW U, U = D \cup {key}
               PROVE  /\ SumFunction(f) \in Nat /\ SumFunction(h) \in Nat
                      /\ SumFunction(h) + (IF key \in D THEN f[key] ELSE 0) = SumFunction(f) + h[key]
    OBVIOUS
  <1>1. IsFiniteSet(D)
    BY DEF ChangedAt
  <1>2. f \in [D -> Nat]
    BY DEF ChangedAt
  <1>3. h \in [U -> Nat]
    BY DEF ChangedAt
  <1>4. \A x \in D : x # key => h[x] = f[x]
    BY DEF ChangedAt
  <1>5. IsFiniteSet(U)
    BY <1>1, FS_AddElement
  <1>6. SumFunction(f) \in Nat /\ SumFunction(h) \in Nat
    BY <1>1, <1>2, <1>3, <1>5, SumType
  <1>7. SumFunction(h) + (IF key \in D THEN f[key] ELSE 0) = SumFunction(f) + h[key]
    BY <1>1, <1>2, <1>3, <1>4, SumsDiffer
  <1> QED BY <1>6, <1>7

\* The sum of nothing.
LEMMA SumOfNothing ==
    ASSUME NEW D, D = {}, NEW f \in [D -> Nat]
    PROVE  SumFunction(f) = 0
  <1>1. IsFiniteSet(D)
    BY FS_EmptySet
  <1>2. PICK g : SumsIn(g, f, D) /\ SumFunction(f) = g[D]
    BY <1>1, SumOf
  <1> QED BY <1>2 DEF SumsIn, SumsOn

-----------------------------------------------------------------------------
(* FlattenSeq. *)

\* f takes the values that the recursive function of FlattenSeq(q) takes on its
\* first n arguments.
Grows(f, q, n) ==
    \A i \in 1 .. n : f[i] = IF i = 1 THEN q[i] ELSE f[i - 1] \o q[i]

\* There is such a function,
LEMMA GrowsExists ==
    ASSUME NEW S, NEW q \in Seq(Seq(S))
    PROVE  \A n \in 0 .. Len(q) : \E f \in [1 .. n -> Seq(S)] : Grows(f, q, n)
  <1> DEFINE P == {n \in Nat : n <= Len(q) => \E f \in [1 .. n -> Seq(S)] : Grows(f, q, n)}
  <1>1. 0 \in P
    <2> DEFINE f == [i \in 1 .. 0 |-> << >>]
    <2>1. f \in [1 .. 0 -> Seq(S)]
      OBVIOUS
    <2>2. Grows(f, q, 0)
      BY DEF Grows
    <2> HIDE DEF f
    <2> QED BY <2>1, <2>2
  <1>2. ASSUME NEW n \in Nat, n \in P PROVE n + 1 \in P
    <2> SUFFICES ASSUME n + 1 <= Len(q)
                 PROVE  \E f \in [1 .. n + 1 -> Seq(S)] : Grows(f, q, n + 1)
      OBVIOUS
    <2>1. PICK f \in [1 .. n -> Seq(S)] : Grows(f, q, n)
      BY <1>2
    <2>2. q[n + 1] \in Seq(S)
      OBVIOUS
    <2> DEFINE last == IF n = 0 THEN q[n + 1] ELSE f[n] \o q[n + 1]
               g == [i \in 1 .. n + 1 |-> IF i = n + 1 THEN last ELSE f[i]]
    <2>3. last \in Seq(S)
      <3>1. CASE n = 0
        BY <2>2, <3>1
      <3>2. CASE n # 0
        <4>1. f[n] \in Seq(S)
          BY <3>2
        <4> QED BY <2>2, <3>2, <4>1
      <3> QED BY <3>1, <3>2
    <2>4. g \in [1 .. n + 1 -> Seq(S)]
      <3> HIDE DEF last
      <3> QED BY <2>3
    <2>5. Grows(g, q, n + 1)
      <3> SUFFICES ASSUME NEW i \in 1 .. n + 1
                   PROVE  g[i] = IF i = 1 THEN q[i] ELSE g[i - 1] \o q[i]
        BY DEF Grows
      <3>1. CASE i = n + 1
        BY <3>1
      <3>2. CASE i # n + 1
        <4>1. i \in 1 .. n /\ (i # 1 => i - 1 \in 1 .. n /\ i - 1 # n + 1)
          BY <3>2
        <4>2. f[i] = IF i = 1 THEN q[i] ELSE f[i - 1] \o q[i]
          BY <2>1, <4>1 DEF Grows
        <4>3. g[i] = f[i] /\ (i # 1 => g[i - 1] = f[i - 1])
          BY <3>2, <4>1
        <4> QED BY <4>2, <4>3
      <3> QED BY <3>1, <3>2
    <2> HIDE DEF g
    <2> QED BY <2>4, <2>5
  <1>3. Nat \subseteq P
    <2> HIDE DEF P
    <2> QED BY <1>1, <1>2, NatByInduction
  <1> QED BY <1>3

\* and only one,
LEMMA GrowsUnique ==
    ASSUME NEW q, NEW n \in Nat, NEW f, NEW g, Grows(f, q, n), Grows(g, q, n)
    PROVE  \A i \in 1 .. n : f[i] = g[i]
  <1> DEFINE P == {i \in Nat : i \in 1 .. n => f[i] = g[i]}
  <1>1. 0 \in P
    OBVIOUS
  <1>2. ASSUME NEW i \in Nat, i \in P PROVE i + 1 \in P
    <2> SUFFICES ASSUME i + 1 \in 1 .. n PROVE f[i + 1] = g[i + 1]
      OBVIOUS
    <2>1. f[i + 1] = IF i + 1 = 1 THEN q[i + 1] ELSE f[i + 1 - 1] \o q[i + 1]
      BY DEF Grows
    <2>2. g[i + 1] = IF i + 1 = 1 THEN q[i + 1] ELSE g[i + 1 - 1] \o q[i + 1]
      BY DEF Grows
    <2>3. CASE i = 0
      BY <2>1, <2>2, <2>3
    <2>4. CASE i # 0
      <3>1. i \in 1 .. n /\ i + 1 - 1 = i /\ i + 1 # 1
        BY <2>4
      <3>2. f[i] = g[i]
        BY <1>2, <3>1
      <3> QED BY <2>1, <2>2, <3>1, <3>2
    <2> QED BY <2>3, <2>4
  <1>3. Nat \subseteq P
    <2> HIDE DEF P
    <2> QED BY <1>1, <1>2, NatByInduction
  <1> QED BY <1>3

\* so that the one FlattenSeq chooses is it.
LEMMA FlattenIsLast ==
    ASSUME NEW S, NEW q \in Seq(Seq(S)), Len(q) # 0,
           NEW f \in [1 .. Len(q) -> Seq(S)], Grows(f, q, Len(q))
    PROVE  FlattenSeq(q) = f[Len(q)]
  <1> DEFINE n == Len(q)
             chosen == CHOOSE g : g = [i \in 1 .. n |-> IF i = 1 THEN q[i] ELSE g[i - 1] \o q[i]]
  <1>1. FlattenSeq(q) = chosen[n]
    BY DEF FlattenSeq
  <1>2. f = [i \in 1 .. n |-> IF i = 1 THEN q[i] ELSE f[i - 1] \o q[i]]
    BY DEF Grows
  <1>3. chosen = [i \in 1 .. n |-> IF i = 1 THEN q[i] ELSE chosen[i - 1] \o q[i]]
    BY <1>2
  <1> HIDE DEF chosen
  <1>4. Grows(chosen, q, n)
    BY <1>3 DEF Grows
  <1>5. n \in Nat /\ n \in 1 .. n
    OBVIOUS
  <1> HIDE DEF n
  <1>6. f[n] = chosen[n]
    BY <1>4, <1>5, GrowsUnique DEF n
  <1> QED BY <1>1, <1>6 DEF n
\* Nothing makes nothing.
LEMMA FlattenEmpty == FlattenSeq(<< >>) = << >>
  BY DEF FlattenSeq

\* FlattenSeq puts its sequences one behind the other.
LEMMA FlattenStep ==
    ASSUME NEW S, NEW q \in Seq(Seq(S)), NEW k \in 0 .. Len(q) - 1
    PROVE  /\ FlattenSeq(SubSeq(q, 1, k)) \in Seq(S)
           /\ q[k + 1] \in Seq(S)
           /\ FlattenSeq(SubSeq(q, 1, k + 1)) = FlattenSeq(SubSeq(q, 1, k)) \o q[k + 1]
  <1> DEFINE n == Len(q)
  <1>1. k \in Nat /\ k + 1 <= n /\ n \in Nat /\ \A i \in 1 .. n : q[i] \in Seq(S)
    BY ElementOfSeq
  <1>2. PICK f \in [1 .. n -> Seq(S)] : Grows(f, q, n)
    <2>1. n \in 0 .. n
      BY <1>1
    <2> QED BY <2>1, GrowsExists
  <1>3. \A i \in 1 .. n : f[i] = IF i = 1 THEN q[i] ELSE f[i - 1] \o q[i]
    BY <1>2 DEF Grows
  <1>4. ASSUME NEW m \in 1 .. n PROVE FlattenSeq(SubSeq(q, 1, m)) = f[m]
    <2> DEFINE p == SubSeq(q, 1, m)
               g == [i \in 1 .. m |-> f[i]]
    <2>1. m \in Nat /\ m # 0 /\ \A i \in 1 .. m : i \in 1 .. n
      BY <1>1
    <2>2. p \in Seq(Seq(S)) /\ Len(p) = m /\ \A i \in 1 .. m : p[i] = q[i]
      BY <1>1, <2>1, FrontProperties
    <2>3. g \in [1 .. m -> Seq(S)] /\ \A i \in 1 .. m : g[i] = f[i]
      BY <2>1
    <2> HIDE DEF p, g, n
    <2>4. Grows(g, p, m)
      <3> SUFFICES ASSUME NEW i \in 1 .. m
                   PROVE  g[i] = IF i = 1 THEN p[i] ELSE g[i - 1] \o p[i]
        BY DEF Grows
      <3>1. f[i] = IF i = 1 THEN q[i] ELSE f[i - 1] \o q[i]
        BY <1>3, <2>1
      <3>2. i # 1 => i - 1 \in 1 .. m
        BY <2>1
      <3> QED BY <2>2, <2>3, <3>1, <3>2
    <2>5. FlattenSeq(p) = g[m]
      BY <2>1, <2>2, <2>3, <2>4, FlattenIsLast
    <2>6. m \in 1 .. m
      BY <2>1
    <2> QED BY <2>3, <2>5, <2>6 DEF p
  <1>5. SubSeq(q, 1, 0) = << >>
    BY SubSeqEmpty
  <1>6. k + 1 \in 1 .. n /\ q[k + 1] \in Seq(S)
    BY <1>1
  <1>7. FlattenSeq(SubSeq(q, 1, k + 1)) = f[k + 1]
    BY <1>4, <1>6
  <1>8. CASE k = 0
    <2>1. f[k + 1] = q[k + 1]
      <3>1. k + 1 = 1
        BY <1>8
      <3> QED BY <1>3, <1>6, <3>1
    <2>2. FlattenSeq(SubSeq(q, 1, k)) = << >>
      BY <1>5, <1>8, FlattenEmpty
    <2>3. << >> \o q[k + 1] = q[k + 1] /\ << >> \in Seq(S)
      BY <1>6, ConcatEmptySeq, EmptySeq
    <2> QED BY <1>6, <1>7, <2>1, <2>2, <2>3
  <1>9. CASE k # 0
    <2>1. k \in 1 .. n /\ k + 1 # 1 /\ (k + 1) - 1 = k
      BY <1>1, <1>9
    <2>2. f[k + 1] = f[k] \o q[k + 1] /\ f[k] \in Seq(S)
      BY <1>2, <1>3, <1>6, <2>1
    <2>3. FlattenSeq(SubSeq(q, 1, k)) = f[k]
      BY <1>4, <2>1
    <2> QED BY <1>6, <1>7, <2>2, <2>3
  <1> QED BY <1>8, <1>9

\* FlattenSeq yields a sequence, and its first sequences a prefix of it.
LEMMA FlattenPrefix ==
    ASSUME NEW S, NEW q \in Seq(Seq(S))
    PROVE  /\ FlattenSeq(q) \in Seq(S)
           /\ \A k \in 0 .. Len(q) :
                 /\ FlattenSeq(SubSeq(q, 1, k)) \in Seq(S)
                 /\ \E rest \in Seq(S) : FlattenSeq(q) = FlattenSeq(SubSeq(q, 1, k)) \o rest
  <1> DEFINE flat(k) == FlattenSeq(SubSeq(q, 1, k))
             n == Len(q)
  <1>1. n \in Nat /\ SubSeq(q, 1, n) = q
    BY SubSeqFull
  <1>2. \A k \in 0 .. n - 1 : flat(k) \in Seq(S) /\ q[k + 1] \in Seq(S) /\ flat(k + 1) = flat(k) \o q[k + 1]
    BY FlattenStep
  <1>3. flat(0) = << >> /\ flat(n) = FlattenSeq(q)
    <2>1. SubSeq(q, 1, 0) = << >>
      BY SubSeqEmpty
    <2> QED BY <1>1, <2>1, FlattenEmpty
  <1> HIDE DEF n, flat
  <1>4. \A k \in 0 .. n : flat(k) \in Seq(S)
    <2> SUFFICES ASSUME NEW k \in 0 .. n PROVE flat(k) \in Seq(S)
      OBVIOUS
    <2>1. CASE k < n
      <3>1. k \in 0 .. n - 1
        BY <1>1, <2>1
      <3> QED BY <1>2, <3>1
    <2>2. CASE k = 0
      BY <1>3, <2>2, EmptySeq
    <2>3. CASE k = n /\ n # 0
      <3>1. k - 1 \in 0 .. n - 1 /\ (k - 1) + 1 = k
        BY <1>1, <2>3
      <3>2. flat(k) = flat(k - 1) \o q[k] /\ flat(k - 1) \in Seq(S) /\ q[k] \in Seq(S)
        BY <1>2, <3>1
      <3> QED BY <3>2, ConcatProperties
    <2> QED BY <1>1, <2>1, <2>2, <2>3
  <1> DEFINE P == {d \in Nat : d <= n => \E rest \in Seq(S) : flat(n) = flat(n - d) \o rest}
  <1>5. 0 \in P
    <2>1. flat(n) \in Seq(S) /\ << >> \in Seq(S) /\ n - 0 = n
      BY <1>1, <1>4, EmptySeq
    <2>2. flat(n) = flat(n - 0) \o << >>
      BY <2>1, ConcatEmptySeq
    <2> QED BY <2>1, <2>2
  <1>6. ASSUME NEW d \in Nat, d \in P PROVE d + 1 \in P
    <2> SUFFICES ASSUME d + 1 <= n PROVE \E rest \in Seq(S) : flat(n) = flat(n - (d + 1)) \o rest
      OBVIOUS
    <2> DEFINE k == n - (d + 1)
    <2>1. k \in 0 .. n - 1 /\ k + 1 = n - d /\ d <= n
      BY <1>1
    <2>2. PICK rest \in Seq(S) : flat(n) = flat(k + 1) \o rest
      BY <1>6, <2>1
    <2> HIDE DEF k
    <2>3. flat(k + 1) = flat(k) \o q[k + 1] /\ flat(k) \in Seq(S) /\ q[k + 1] \in Seq(S)
      BY <1>2, <2>1
    <2> DEFINE e == q[k + 1]
    <2> HIDE DEF e
    <2>4. flat(n) = (flat(k) \o e) \o rest /\ e \in Seq(S)
      BY <2>2, <2>3 DEF e
    <2>5. flat(n) = flat(k) \o (e \o rest)
      <3>1. flat(k) \in Seq(S) /\ e \in Seq(S) /\ rest \in Seq(S)
        BY <2>3, <2>4
      <3> HIDE DEF flat
      <3>2. (flat(k) \o e) \o rest = flat(k) \o (e \o rest)
        BY SMTT(30), <3>1, ConcatAssociative
      <3> QED BY <2>4, <3>2
    <2>6. e \o rest \in Seq(S)
      BY <2>4, ConcatProperties
    <2> QED BY <2>5, <2>6 DEF k
  <1>7. Nat \subseteq P
    <2> HIDE DEF P
    <2> QED BY <1>5, <1>6, NatByInduction
  <1>8. ASSUME NEW k \in 0 .. n PROVE \E rest \in Seq(S) : flat(n) = flat(k) \o rest
    <2>1. n - k \in Nat /\ n - k <= n /\ n - (n - k) = k
      BY <1>1
    <2>2. n - k \in P
      BY <1>7, <2>1
    <2> QED BY <2>1, <2>2
  <1>9. n \in 0 .. n
    BY <1>1
  <1>10. FlattenSeq(q) \in Seq(S)
    BY <1>3, <1>4, <1>9
  <1> QED BY <1>3, <1>4, <1>8, <1>10 DEF n, flat

-----------------------------------------------------------------------------
(* Searches and trims. *)

\* An unlimited search succeeds with a prefix of the string that is followed
\* by the delimiter, or finds nothing.
LEMMA FindUnlimited ==
    ASSUME NEW S, NEW str \in Seq(S), NEW delim \in Seq(S), NEW r,
           r = TryFindUnlimited(str, delim)
    PROVE  \/ /\ r.error = "NONE"
              /\ r.value \in Seq(S)
              /\ r.offset \in 0 .. Len(str)
              /\ r.offset = Len(r.value) + Len(delim)
           \/ r = NotFound("NOT_FOUND")
  <1> DEFINE all == Occurrences(str, delim)
  <1>1. CASE all = {}
    BY <1>1 DEF TryFindUnlimited
  <1>2. CASE all # {}
    <2>1. all \in SUBSET Nat
      BY DEF Occurrences
    <2>2. Min(all) \in all
      BY <1>2, <2>1, MinProperties
    <2>3. Min(all) \in 0 .. Len(str) - Len(delim)
      BY <2>2 DEF Occurrences
    <2>4. r = Found(SubSeq(str, 1, Min(all)), Min(all) + Len(delim))
      BY <1>2 DEF TryFindUnlimited
    <2>5. SubSeq(str, 1, Min(all)) \in Seq(S) /\ Len(SubSeq(str, 1, Min(all))) = Min(all)
      BY <2>3
    <2> QED BY <2>3, <2>4, <2>5 DEF Found
  <1> QED BY <1>1, <1>2

\* The parts a string is split into are strings.
LEMMA SplitType ==
    ASSUME NEW S, NEW str \in Seq(S), NEW delim \in Seq(S)
    PROVE  /\ TryFindSplitUnlimited(str, delim).head \in Seq(S)
           /\ TryFindSplitUnlimited(str, delim).tail \in Seq(S)
  <1> DEFINE found == TryFindUnlimited(str, delim)
  <1>1. \/ /\ found.error = "NONE"
           /\ found.value \in Seq(S)
           /\ found.offset \in 0 .. Len(str)
        \/ found = NotFound("NOT_FOUND")
    BY FindUnlimited
  <1>2. found.offset \in 0 .. Len(str) => SubSeq(str, found.offset + 1, Len(str)) \in Seq(S)
    OBVIOUS
  <1> QED BY <1>1, <1>2 DEF TryFindSplitUnlimited, NotFound

\* What the trims leave is a string, no longer than before.
LEMMA StripPrefixType ==
    ASSUME NEW S, NEW str \in Seq(S)
    PROVE  StripPrefixWhileWs(str) \in Seq(S) /\ Len(StripPrefixWhileWs(str)) <= Len(str)
  <1> DEFINE kept == {i \in DOMAIN str : ~ IsWs(str[i])}
  <1>1. CASE kept = {}
    BY <1>1 DEF StripPrefixWhileWs
  <1>2. CASE kept # {}
    <2>1. kept \in SUBSET (1 .. Len(str)) /\ kept \in SUBSET Nat /\ Len(str) \in Nat
      OBVIOUS
    <2> HIDE DEF kept
    <2>2. Min(kept) \in kept
      BY <1>2, <2>1, MinProperties
    <2>3. Min(kept) \in 1 .. Len(str)
      BY <2>1, <2>2
    <2>4. /\ SubSeq(str, Min(kept), Len(str)) \in Seq(S)
          /\ Len(SubSeq(str, Min(kept), Len(str))) <= Len(str)
      BY <2>3
    <2> QED BY <1>2, <2>4 DEF StripPrefixWhileWs, kept
  <1> QED BY <1>1, <1>2

\* trim of the end returns a string.
LEMMA StripSuffixType ==
    ASSUME NEW S, NEW str \in Seq(S)
    PROVE  StripSuffixWhileWs(str) \in Seq(S) /\ Len(StripSuffixWhileWs(str)) <= Len(str)
  <1> DEFINE kept == {i \in DOMAIN str : ~ IsWs(str[i])}
  <1>1. CASE kept = {}
    BY <1>1 DEF StripSuffixWhileWs
  <1>2. CASE kept # {}
    <2>1. kept \in SUBSET (1 .. Len(str)) /\ kept \in SUBSET (0 .. Len(str)) /\ Len(str) \in Nat
      OBVIOUS
    <2> HIDE DEF kept
    <2>2. Max(kept) \in kept
      BY <1>2, <2>1, MaxProperties
    <2>3. Max(kept) \in 1 .. Len(str)
      BY <2>1, <2>2
    <2>4. SubSeq(str, 1, Max(kept)) \in Seq(S) /\ Len(SubSeq(str, 1, Max(kept))) <= Len(str)
      BY <2>3
    <2> QED BY <1>2, <2>4 DEF StripSuffixWhileWs, kept
  <1> QED BY <1>1, <1>2

\* trim of both ends returns a string, no longer than before.
LEMMA StripWsType ==
    ASSUME NEW S, NEW str \in Seq(S)
    PROVE  StripWs(str) \in Seq(S) /\ Len(StripWs(str)) <= Len(str)
  <1> DEFINE front == StripPrefixWhileWs(str)
  <1>1. front \in Seq(S) /\ Len(front) <= Len(str)
    BY StripPrefixType
  <1>2. StripSuffixWhileWs(front) \in Seq(S) /\ Len(StripSuffixWhileWs(front)) <= Len(front)
    BY <1>1, StripSuffixType
  <1> HIDE DEF front
  <1>3. Len(StripSuffixWhileWs(front)) \in Nat /\ Len(front) \in Nat /\ Len(str) \in Nat
    BY <1>1, <1>2
  <1> QED BY <1>1, <1>2, <1>3 DEF StripWs, front

-----------------------------------------------------------------------------
(* The buffer. *)

\* view() of a buffer whose offset is within it, element by element.
LEMMA ViewType ==
    ASSUME NEW S, NEW b \in BufferType(S), OffsetInBuffer(b)
    PROVE  /\ View(b) \in Seq(S)
           /\ Len(View(b)) = Len(b.buffer) - b.offset
           /\ \A i \in 1 .. Len(View(b)) : View(b)[i] = b.buffer[b.offset + i]
  BY SMTT(30) DEF BufferType, OffsetInBuffer, View

\* merge() appends to what was not consumed and leaves no consumed byte.
LEMMA MergedView ==
    ASSUME NEW S, NEW b \in BufferType(S), OffsetInBuffer(b), NEW bytes \in Seq(S)
    PROVE  /\ Merged(b, bytes) \in BufferType(S)
           /\ OffsetInBuffer(Merged(b, bytes))
           /\ Merged(b, bytes).buffer = View(b) \o bytes
           /\ View(Merged(b, bytes)) = View(b) \o bytes
  <1>1. View(b) \in Seq(S)
    BY ViewType
  <1>2. Merged(b, bytes).buffer = View(b) \o bytes
    <2>1. CASE Len(b.buffer) = b.offset
      <3>1. View(b) = << >>
        BY <2>1 DEF BufferType, View
      <3>2. << >> \o bytes = bytes
        OBVIOUS
      <3> QED BY <2>1, <3>1, <3>2 DEF Merged
    <2>2. CASE Len(b.buffer) # b.offset
      BY <2>2 DEF Merged
    <2> QED BY <2>1, <2>2
  <1>3. Merged(b, bytes).offset = 0
    BY DEF Merged
  <1>4. View(b) \o bytes \in Seq(S)
    BY <1>1
  <1>5. Merged(b, bytes) \in BufferType(S)
    <2>1. Merged(b, bytes) = [buffer |-> View(b) \o bytes, offset |-> 0]
      BY <1>2 DEF Merged
    <2> QED BY <2>1, <1>4 DEF BufferType
  <1>6. View(Merged(b, bytes)) = View(b) \o bytes
    <2> DEFINE all == View(b) \o bytes
    <2>1. SubSeq(all, 1, Len(all)) = all
      BY <1>4, SubSeqFull
    <2>2. View(Merged(b, bytes)) = SubSeq(all, 0 + 1, Len(all))
      BY <1>2, <1>3 DEF View
    <2> QED BY <2>1, <2>2
  <1> QED BY <1>2, <1>3, <1>4, <1>5, <1>6 DEF OffsetInBuffer

\* add_offset(n) takes the first n bytes of view() and nothing else.
LEMMA AdvancedView ==
    ASSUME NEW S, NEW b \in BufferType(S), OffsetInBuffer(b), NEW n \in 0 .. Len(View(b))
    PROVE  /\ MayAdvance(b, n)
           /\ Advanced(b, n) \in BufferType(S)
           /\ OffsetInBuffer(Advanced(b, n))
           /\ Advanced(b, n).buffer = b.buffer
           /\ View(Advanced(b, n)) = SubSeq(View(b), n + 1, Len(View(b)))
  <1> DEFINE a == Advanced(b, n)
  <1>1. Len(View(b)) = Len(b.buffer) - b.offset /\ View(b) \in Seq(S)
    BY ViewType
  <1>2. a.buffer = b.buffer /\ a.offset = b.offset + n /\ a \in BufferType(S)
    BY <1>1 DEF Advanced, BufferType, OffsetInBuffer
  <1>3. MayAdvance(b, n) /\ OffsetInBuffer(a)
    BY <1>1, <1>2 DEF MayAdvance, OffsetInBuffer, BufferType
  <1>4. View(a) = SubSeq(View(b), n + 1, Len(View(b)))
    <2>1. /\ View(a) \in Seq(S)
          /\ Len(View(a)) = Len(b.buffer) - (b.offset + n)
          /\ \A i \in 1 .. Len(View(a)) : View(a)[i] = b.buffer[b.offset + n + i]
      BY <1>2, <1>3, ViewType
    <2> DEFINE rest == SubSeq(View(b), n + 1, Len(View(b)))
    <2>2. /\ rest \in Seq(S)
          /\ Len(rest) = Len(View(b)) - n
          /\ \A i \in 1 .. Len(rest) : rest[i] = View(b)[n + i]
      BY <1>1
    <2>3. Len(View(a)) = Len(rest)
      BY <1>1, <2>1, <2>2 DEF BufferType
    <2>4. \A i \in 1 .. Len(rest) : View(a)[i] = rest[i]
      <3> SUFFICES ASSUME NEW i \in 1 .. Len(rest) PROVE View(a)[i] = rest[i]
        OBVIOUS
      <3>1. n + i \in 1 .. Len(View(b))
        BY <1>1, <2>2
      <3>2. View(b)[n + i] = b.buffer[b.offset + (n + i)]
        BY <3>1, ViewType
      <3> QED BY <2>1, <2>2, <2>3, <3>1, <3>2 DEF BufferType
    <2> QED BY <2>1, <2>2, <2>3, <2>4, SeqEqual
  <1> QED BY <1>2, <1>3, <1>4

-----------------------------------------------------------------------------
(* Sequences that are joined and split, and recursion along them. *)

\* Induction over the sequences of a set, from the front to the end.
LEMMA SeqByAppending ==
    ASSUME NEW S, NEW T, << >> \in T,
           \A s \in Seq(S) : \A e \in S : s \in T => s \o << e >> \in T
    PROVE  Seq(S) \subseteq T
  <1> DEFINE P == {n \in Nat : \A s \in Seq(S) : Len(s) = n => s \in T}
  <1>1. 0 \in P
    <2> SUFFICES ASSUME NEW s \in Seq(S), Len(s) = 0 PROVE s \in T
      OBVIOUS
    <2>1. s = << >>
      BY EmptySeq
    <2> QED BY <2>1
  <1>2. ASSUME NEW n \in Nat, n \in P PROVE n + 1 \in P
    <2> SUFFICES ASSUME NEW s \in Seq(S), Len(s) = n + 1 PROVE s \in T
      OBVIOUS
    <2> DEFINE front == SubSeq(s, 1, n)
    <2>1. front \in Seq(S) /\ Len(front) = n
      BY FrontProperties
    <2>2. s[n + 1] \in S
      BY ElementOfSeq
    <2>3. s = front \o << s[n + 1] >>
      <3>1. n + 1 \in 1 .. Len(s) /\ 1 \in 1 .. Len(s) /\ n + 1 \in 1 .. n + 1 /\ (n + 1) - 1 = n
        OBVIOUS
      <3>2. SubSeq(s, 1, n + 1) = SubSeq(s, 1, (n + 1) - 1) \o << s[n + 1] >>
        BY <3>1, SubSeqRecursiveSecond
      <3>3. SubSeq(s, 1, n + 1) = s
        BY SubSeqFull
      <3> QED BY <3>1, <3>2, <3>3
    <2> HIDE DEF front
    <2>4. front \in T
      BY <1>2, <2>1
    <2> QED BY <2>1, <2>2, <2>3, <2>4
  <1>3. Nat \subseteq P
    <2> HIDE DEF P
    <2> QED BY <1>1, <1>2, NatByInduction
  <1>4. \A s \in Seq(S) : Len(s) \in Nat
    BY LenProperties
  <1> QED BY <1>3, <1>4

\* The steps of a recursive function over 1 .. N whose value at i depends on
\* its values at later places only; a step makes a function of a function.
IsRecursion(step, N, V) ==
    /\ N \in Nat /\ V # {}
    /\ step \in [[1 .. N -> V] -> [1 .. N -> V]]
    /\ \A f, g \in [1 .. N -> V] : \A i \in 1 .. N :
          (\A j \in i + 1 .. N : f[j] = g[j]) => step[f][i] = step[g][i]

\* f is the function.
IsFixed(f, step, N, V) ==
    f \in [1 .. N -> V] /\ \A i \in 1 .. N : f[i] = step[f][i]

\* There is one.
LEMMA RecursionExists ==
    ASSUME NEW N, NEW V, NEW step, IsRecursion(step, N, V)
    PROVE  \E f : IsFixed(f, step, N, V)
  <1> DEFINE Solves(f, n) == \A i \in 1 .. N : N < i + n => f[i] = step[f][i]
             P == {n \in Nat : \E f \in [1 .. N -> V] : Solves(f, n)}
  <1>0. N \in Nat /\ V # {} /\ step \in [[1 .. N -> V] -> [1 .. N -> V]]
    BY DEF IsRecursion
  <1>1. 0 \in P
    <2>1. PICK v \in V : TRUE
      BY <1>0
    <2> DEFINE f == [i \in 1 .. N |-> v]
    <2>2. f \in [1 .. N -> V]
      OBVIOUS
    <2>3. Solves(f, 0)
      <3>1. \A i \in 1 .. N : ~ (N < i + 0)
        BY <1>0
      <3> QED BY <3>1
    <2> HIDE DEF f
    <2> QED BY <2>2, <2>3
  <1>2. ASSUME NEW n \in Nat, n \in P PROVE n + 1 \in P
    <2>1. PICK f \in [1 .. N -> V] : Solves(f, n)
      BY <1>2
    <2> DEFINE g == step[f]
    <2>2. g \in [1 .. N -> V]
      BY <1>0
    <2>3. \A i \in 1 .. N : g[i] = step[f][i]
      OBVIOUS
    <2> HIDE DEF g
    <2>4. Solves(g, n + 1)
      <3> SUFFICES ASSUME NEW i \in 1 .. N, N < i + (n + 1) PROVE g[i] = step[g][i]
        OBVIOUS
      <3>1. \A j \in i + 1 .. N : f[j] = g[j]
        <4> SUFFICES ASSUME NEW j \in i + 1 .. N PROVE f[j] = g[j]
          OBVIOUS
        <4>1. j \in 1 .. N /\ N < j + n
          BY <1>0
        <4> QED BY <2>1, <2>3, <4>1
      <3>2. step[f][i] = step[g][i]
        BY <2>2, <3>1 DEF IsRecursion
      <3> QED BY <2>3, <3>2
    <2> HIDE DEF Solves
    <2> QED BY <2>2, <2>4
  <1>3. Nat \subseteq P
    <2> HIDE DEF P
    <2> QED BY <1>1, <1>2, NatByInduction
  <1>4. PICK f \in [1 .. N -> V] : Solves(f, N)
    BY <1>0, <1>3
  <1>5. \A i \in 1 .. N : N < i + N
    BY <1>0
  <1> QED BY <1>4, <1>5 DEF IsFixed

\* FlattenSeq, from the front to the end.
LEMMA FlattenAppend ==
    ASSUME NEW S, NEW q \in Seq(Seq(S)), NEW x \in Seq(S)
    PROVE  FlattenSeq(q \o << x >>) = FlattenSeq(q) \o x
  <1> DEFINE r == q \o << x >>
             k == Len(q)
  <1>1. << x >> \in Seq(Seq(S)) /\ Len(<< x >>) = 1 /\ << x >>[1] = x /\ k \in Nat
    OBVIOUS
  <1>2. /\ r \in Seq(Seq(S)) /\ Len(r) = k + 1
        /\ \A i \in 1 .. k + 1 : r[i] = IF i <= k THEN q[i] ELSE << x >>[i - k]
    BY <1>1, ConcatProperties
  <1> HIDE DEF r
  <1>3. r[k + 1] = x
    <2>1. k + 1 \in 1 .. k + 1 /\ ~ (k + 1 <= k) /\ (k + 1) - k = 1
      BY <1>1
    <2> QED BY <1>1, <1>2, <2>1
  <1>4. SubSeq(r, 1, k) = q
    <2>1. k \in 0 .. Len(r)
      BY <1>1, <1>2
    <2>2. /\ SubSeq(r, 1, k) \in Seq(Seq(S)) /\ Len(SubSeq(r, 1, k)) = k
          /\ \A i \in 1 .. k : SubSeq(r, 1, k)[i] = r[i]
      BY <1>2, <2>1, FrontProperties
    <2>3. \A i \in 1 .. k : r[i] = q[i]
      <3> SUFFICES ASSUME NEW i \in 1 .. k PROVE r[i] = q[i]
        OBVIOUS
      <3>1. i \in 1 .. k + 1 /\ i <= k
        BY <1>1
      <3> QED BY <1>2, <3>1
    <2> DEFINE front == SubSeq(r, 1, k)
    <2>4. front \in Seq(Seq(S)) /\ Len(front) = Len(q) /\ \A i \in 1 .. Len(front) : front[i] = q[i]
      BY <2>2, <2>3
    <2> HIDE DEF front, k
    <2>5. front = q
      BY <2>4, SeqEqual
    <2> QED BY <2>5 DEF front
  <1>5. k \in 0 .. Len(r) - 1 /\ k + 1 = Len(r)
    BY <1>1, <1>2
  <1>6. FlattenSeq(SubSeq(r, 1, k + 1)) = FlattenSeq(SubSeq(r, 1, k)) \o r[k + 1]
    BY <1>2, <1>5, FlattenStep
  <1>7. SubSeq(r, 1, k + 1) = r
    BY <1>2, <1>5, SubSeqFull
  <1> QED BY <1>3, <1>4, <1>6, <1>7 DEF r

\* A symbol is in two sequences one behind the other if it is in one of them.
LEMMA ContainsConcat ==
    ASSUME NEW S, NEW a \in Seq(S), NEW b \in Seq(S), NEW d
    PROVE  Contains(a \o b, d) <=> Contains(a, d) \/ Contains(b, d)
  <1> DEFINE m == Len(a)
             n == Len(b)
             s == a \o b
  <1>1. m \in Nat /\ n \in Nat /\ Len(s) = m + n
    BY ConcatProperties, LenProperties
  <1>2. \A i \in 1 .. m + n : s[i] = IF i <= m THEN a[i] ELSE b[i - m]
    BY ConcatProperties
  <1> HIDE DEF s
  <1>3. ASSUME NEW i \in 1 .. m, a[i] = d PROVE \E j \in 1 .. m + n : s[j] = d
    <2>1. i \in 1 .. m + n /\ i <= m
      BY <1>1
    <2> QED BY <1>2, <1>3, <2>1
  <1>4. ASSUME NEW i \in 1 .. n, b[i] = d PROVE \E j \in 1 .. m + n : s[j] = d
    <2>1. m + i \in 1 .. m + n /\ ~ (m + i <= m) /\ (m + i) - m = i
      BY <1>1
    <2> QED BY <1>2, <1>4, <2>1
  <1>5. ASSUME NEW j \in 1 .. m + n, s[j] = d
        PROVE  (\E i \in 1 .. m : a[i] = d) \/ (\E i \in 1 .. n : b[i] = d)
    <2>1. CASE j <= m
      <3>1. j \in 1 .. m
        BY <1>1, <2>1
      <3> QED BY <1>2, <1>5, <2>1, <3>1
    <2>2. CASE ~ (j <= m)
      <3>1. j - m \in 1 .. n
        BY <1>1, <2>2
      <3> QED BY <1>2, <1>5, <2>2, <3>1
    <2> QED BY <2>1, <2>2
  <1>6. Contains(s, d) <=> \E j \in 1 .. m + n : s[j] = d
    BY <1>1 DEF Contains
  <1> QED BY <1>3, <1>4, <1>5, <1>6 DEF Contains, s

\* Two sequences one behind the other can be told apart again.
LEMMA JoinedParts ==
    ASSUME NEW S, NEW a \in Seq(S), NEW b \in Seq(S)
    PROVE  /\ SubSeq(a \o b, 1, Len(a)) = a
           /\ SubSeq(a \o b, Len(a) + 1, Len(a \o b)) = b
  <1> DEFINE m == Len(a)
             n == Len(b)
             str == a \o b
             front == SubSeq(str, 1, m)
             back == SubSeq(str, m + 1, Len(str))
  <1>1. m \in Nat /\ n \in Nat
    BY LenProperties
  <1>2. /\ str \in Seq(S) /\ Len(str) = m + n
        /\ \A i \in 1 .. m + n : str[i] = IF i <= m THEN a[i] ELSE b[i - m]
    BY ConcatProperties
  <1> HIDE DEF str, m, n
  <1>3. front = a
    <2>1. m \in 0 .. Len(str)
      BY <1>1, <1>2
    <2>2. /\ front \in Seq(S) /\ Len(front) = m
          /\ \A i \in 1 .. m : front[i] = str[i]
      BY <1>2, <2>1, FrontProperties
    <2>3. \A i \in 1 .. m : str[i] = a[i]
      BY <1>1, <1>2
    <2>4. front \in Seq(S) /\ Len(front) = Len(a) /\ \A i \in 1 .. Len(front) : front[i] = a[i]
      BY <2>2, <2>3 DEF m
    <2> HIDE DEF front
    <2> QED BY <2>4, SeqEqual
  <1>4. back = b
    <2>1. m \in 0 .. Len(str) /\ Len(str) \in 0 .. Len(str) /\ Len(str) - m = n
      BY <1>1, <1>2
    <2>2. /\ back \in Seq(S) /\ Len(back) = Len(str) - m
          /\ \A i \in 1 .. Len(str) - m : back[i] = str[m + i]
      BY <1>2, <2>1, Piece
    <2>3. \A i \in 1 .. n : str[m + i] = b[i]
      <3> SUFFICES ASSUME NEW i \in 1 .. n PROVE str[m + i] = b[i]
        OBVIOUS
      <3>1. m + i \in 1 .. m + n /\ ~ (m + i <= m) /\ (m + i) - m = i
        BY <1>1
      <3> QED BY <1>2, <3>1
    <2>4. back \in Seq(S) /\ Len(back) = Len(b) /\ \A i \in 1 .. Len(back) : back[i] = b[i]
      BY <2>1, <2>2, <2>3 DEF n
    <2> HIDE DEF back
    <2> QED BY <2>4, SeqEqual
  <1> QED BY <1>3, <1>4 DEF front, back, str, m

\* A string is split at a symbol that is not in what is before it.
LEMMA SplitAt ==
    ASSUME NEW S, NEW a \in Seq(S), NEW d \in S, NEW b \in Seq(S), ~ Contains(a, d)
    PROVE  /\ TryFindSplitUnlimited(a \o (<< d >> \o b), << d >>).head = a
           /\ TryFindSplitUnlimited(a \o (<< d >> \o b), << d >>).tail = b
  <1> DEFINE delim == << d >>
             rest == delim \o b
             str == a \o rest
             all == Occurrences(str, delim)
             m == Len(a)
             n == Len(b)
  <1>1. delim \in Seq(S) /\ Len(delim) = 1 /\ delim[1] = d
    OBVIOUS
  <1>2. m \in Nat /\ n \in Nat
    BY LenProperties
  <1>3. rest \in Seq(S) /\ Len(rest) = n + 1 /\ rest[1] = d
    OBVIOUS
  <1> HIDE DEF rest
  <1>4. /\ str \in Seq(S) /\ Len(str) = m + (n + 1)
        /\ \A i \in 1 .. m + (n + 1) : str[i] = IF i <= m THEN a[i] ELSE rest[i - m]
    <2>1. Len(a) + Len(rest) = m + (n + 1)
      BY <1>3
    <2>2. /\ str \in Seq(S) /\ Len(str) = Len(a) + Len(rest)
          /\ \A i \in 1 .. Len(a) + Len(rest) : str[i] = IF i <= Len(a) THEN a[i] ELSE rest[i - Len(a)]
      BY <1>3, ConcatProperties
    <2> HIDE DEF str, n
    <2> QED BY <2>1, <2>2
  <1> HIDE DEF str
  <1>5. ASSUME NEW i \in 0 .. m + n
        PROVE  SubSeq(str, i + 1, i + 1) = << str[i + 1] >> /\ str[i + 1] \in S
    <2>1. i + 1 \in 1 .. Len(str)
      BY <1>2, <1>4
    <2>2. str[i + 1] \in S
      BY <1>4, <2>1
    <2>3. i + 1 \in i + 1 .. Len(str)
      BY <2>1
    <2>4. SubSeq(str, i + 1, i + 1) = << str[i + 1] >>
      <3> DEFINE j == i + 1
      <3>1. j \in 1 .. Len(str) /\ j \in j .. Len(str) /\ j - 1 < j /\ j \in Int /\ j - 1 \in Int
        BY <2>1
      <3> HIDE DEF j
      <3>2. SubSeq(str, j, j) = SubSeq(str, j, j - 1) \o << str[j] >>
        BY <1>4, <3>1, SubSeqRecursiveSecond
      <3>3. SubSeq(str, j, j - 1) = << >>
        BY <3>1, SubSeqEmpty
      <3>4. << str[j] >> \in Seq(S)
        BY <2>2 DEF j
      <3>5. << >> \o << str[j] >> = << str[j] >>
        BY <3>4, ConcatEmptySeq
      <3> QED BY <3>2, <3>3, <3>5 DEF j
    <2> QED BY <2>2, <2>4
  <1>6. m \in all
    <2>1. m \in 0 .. Len(str) - Len(delim) /\ m \in 0 .. m + n
      BY <1>1, <1>2, <1>4
    <2>2. str[m + 1] = d
      <3>1. m + 1 \in 1 .. m + (n + 1) /\ ~ (m + 1 <= m) /\ (m + 1) - m = 1
        BY <1>2
      <3> QED BY <1>3, <1>4, <3>1
    <2>3. SubSeq(str, m + 1, m + 1) = << d >>
      BY <1>5, <2>1, <2>2
    <2>4. SubSeq(str, m + 1, m + Len(delim)) = delim
      <3> HIDE DEF m
      <3> QED BY <1>1, <2>3
    <2> HIDE DEF m, delim
    <2> QED BY <2>1, <2>4 DEF Occurrences
  <1>7. \A i \in all : m <= i
    <2> SUFFICES ASSUME NEW i \in all, i < m PROVE FALSE
      BY <1>2, <1>1, <1>4 DEF Occurrences
    <2>1. i \in 0 .. Len(str) - Len(delim) /\ SubSeq(str, i + 1, i + Len(delim)) = delim
      BY DEF Occurrences
    <2>2. i \in 0 .. m + n
      BY <1>1, <1>2, <1>4, <2>1
    <2>3. << str[i + 1] >> = << d >>
      <3> HIDE DEF m, n
      <3> QED BY <1>1, <1>5, <2>1, <2>2
    <2>4. str[i + 1] = a[i + 1]
      <3>1. i + 1 \in 1 .. m + (n + 1) /\ i + 1 <= m
        BY <1>2, <2>2
      <3> QED BY <1>4, <3>1
    <2>5. str[i + 1] = d
      BY <2>3
    <2>6. i + 1 \in 1 .. Len(a)
      BY <1>2, <2>2
    <2> QED BY <2>4, <2>5, <2>6 DEF Contains
  <1>8. Min(all) = m
    <2>1. all \in SUBSET Nat
      BY DEF Occurrences
    <2> HIDE DEF all, m
    <2>2. Min(all) \in all /\ \A x \in all : Min(all) <= x
      BY <1>6, <2>1, MinProperties
    <2>3. Min(all) <= m /\ m <= Min(all)
      BY <1>6, <1>7, <2>2
    <2>4. Min(all) \in Nat /\ m \in Nat
      BY <1>6, <2>1, <2>2
    <2> QED BY <2>3, <2>4
  <1> DEFINE found == TryFindUnlimited(str, delim)
  <1>9. found = Found(SubSeq(str, 1, m), m + 1)
    <2> HIDE DEF all, m, delim
    <2> QED BY <1>1, <1>6, <1>8 DEF TryFindUnlimited, all
  <1>10. SubSeq(str, 1, m) = a
    BY <1>3, JoinedParts DEF str
  <1>11. SubSeq(str, m + 2, Len(str)) = b
    <2> DEFINE head == a \o delim
    <2>1. head \in Seq(S) /\ Len(head) = m + 1
      BY <1>1, ConcatProperties
    <2>2. str = head \o b
      BY <1>1, ConcatAssociative DEF str, rest
    <2> HIDE DEF head
    <2>3. SubSeq(str, Len(head) + 1, Len(str)) = b
      BY <2>1, <2>2, JoinedParts
    <2>4. Len(head) + 1 = m + 2
      BY <1>2, <2>1
    <2> QED BY <2>3, <2>4
  <1>12. found.error = "NONE" /\ found.value = a /\ found.offset + 1 = m + 2
    <2> HIDE DEF found
    <2> QED BY <1>2, <1>9, <1>10 DEF Found
  <1> HIDE DEF found
  <1>13. TryFindSplitUnlimited(str, delim) = [head |-> a, tail |-> b]
    <2> HIDE DEF delim, m
    <2> QED BY <1>11, <1>12 DEF TryFindSplitUnlimited, found
  <1> DEFINE split == TryFindSplitUnlimited(str, delim)
  <1>14. split.head = a /\ split.tail = b
    <2> HIDE DEF split
    <2> QED BY <1>13 DEF split
  <1> QED BY <1>14 DEF str, rest

\* Where the symbol does not occur, the whole string is the first part.
LEMMA SplitNowhere ==
    ASSUME NEW S, NEW a \in Seq(S), NEW d \in S, ~ Contains(a, d)
    PROVE  /\ TryFindSplitUnlimited(a, << d >>).head = a
           /\ TryFindSplitUnlimited(a, << d >>).tail = << >>
  <1> DEFINE delim == << d >>
  <1>1. Len(delim) = 1 /\ delim[1] = d
    OBVIOUS
  <1>2. Occurrences(a, delim) = {}
    <2> SUFFICES ASSUME NEW i \in Occurrences(a, delim) PROVE FALSE
      OBVIOUS
    <2>1. i \in 0 .. Len(a) - Len(delim) /\ SubSeq(a, i + 1, i + Len(delim)) = delim
      BY DEF Occurrences
    <2>2. i + 1 \in 1 .. Len(a)
      BY <1>1, <2>1
    <2>3. SubSeq(a, i + 1, i + 1)[1] = a[i + 1]
      BY <2>2
    <2>4. a[i + 1] = d
      <3> HIDE DEF delim
      <3> QED BY <1>1, <2>1, <2>3
    <2> QED BY <2>2, <2>4 DEF Contains
  <1> HIDE DEF delim
  <1>3. TryFindUnlimited(a, delim).error = "NOT_FOUND"
    BY <1>2 DEF TryFindUnlimited, NotFound
  <1> QED BY <1>3 DEF TryFindSplitUnlimited, delim

Associates(a, b, c) == (a \o b) \o c = a \o (b \o c)

\* Concatenation is associative.
LEMMA Associate ==
    ASSUME NEW S, NEW a \in Seq(S), NEW b \in Seq(S), NEW c \in Seq(S)
    PROVE  Associates(a, b, c)
  BY ConcatAssociative DEF Associates

\* A sequence of sequences that is put together in two goes.
LEMMA FlattenRest ==
    ASSUME NEW S, NEW q \in Seq(Seq(S)), NEW r \in Seq(Seq(S)), NEW k \in Nat,
           Len(q) = k + Len(r), \A i \in 1 .. Len(r) : q[k + i] = r[i]
    PROVE  FlattenSeq(q) = FlattenSeq(SubSeq(q, 1, k)) \o FlattenSeq(r)
  <1> DEFINE front(j) == FlattenSeq(SubSeq(q, 1, j))
             flat(j) == FlattenSeq(SubSeq(r, 1, j))
             n == Len(r)
             Splits(j) == front(k + j) = front(k) \o flat(j)
             P == {j \in Nat : j <= n => Splits(j)}
  <1>1. n \in Nat /\ Len(q) \in Nat /\ Len(q) = k + n
    BY LenProperties
  <1>2. \A j \in 0 .. n : flat(j) \in Seq(S)
    BY FlattenPrefix
  <1>3. \A j \in 0 .. n : front(k + j) \in Seq(S)
    <2> SUFFICES ASSUME NEW j \in 0 .. n PROVE front(k + j) \in Seq(S)
      OBVIOUS
    <2>1. k + j \in 0 .. Len(q)
      BY <1>1
    <2> QED BY <2>1, FlattenPrefix
  <1>4. front(k) \in Seq(S)
    <2>1. 0 \in 0 .. n /\ k + 0 = k
      BY <1>1
    <2> QED BY <1>3, <2>1
  <1>5. 0 \in P
    <2>1. flat(0) = << >>
      <3>1. SubSeq(r, 1, 0) = << >>
        BY SubSeqEmpty
      <3> QED BY <3>1, FlattenEmpty
    <2>2. k + 0 = k
      OBVIOUS
    <2> HIDE DEF front, flat
    <2>3. front(k) \o << >> = front(k)
      BY <1>4, ConcatEmptySeq
    <2> QED BY <2>1, <2>2, <2>3
  <1>6. ASSUME NEW j \in Nat, j \in P PROVE j + 1 \in P
    <2>0. ASSUME j + 1 <= n PROVE Splits(j + 1)
      <3>1. /\ j \in 0 .. Len(r) - 1 /\ j \in 0 .. n /\ j + 1 \in 1 .. n
            /\ k + j \in 0 .. Len(q) - 1
            /\ k + (j + 1) = (k + j) + 1
        BY <1>1, <2>0
      <3>2. flat(j + 1) = flat(j) \o r[j + 1] /\ r[j + 1] \in Seq(S)
        BY <3>1, FlattenStep
      <3>3. front((k + j) + 1) = front(k + j) \o q[(k + j) + 1]
        <4> DEFINE m == k + j
        <4>1. m \in 0 .. Len(q) - 1
          BY <3>1
        <4> HIDE DEF m
        <4>2. front(m + 1) = front(m) \o q[m + 1]
          BY <4>1, FlattenStep
        <4> QED BY <4>2 DEF m
      <3>4. q[(k + j) + 1] = r[j + 1]
        BY <3>1
      <3>5. front(k + j) = front(k) \o flat(j)
        BY SMTT(30), <1>6, <3>1
      <3>6. flat(j) \in Seq(S)
        BY <1>2, <3>1
      <3> HIDE DEF front, flat
      <3> DEFINE a == front(k)
                 b == flat(j)
                 c == r[j + 1]
      <3>7. a \in Seq(S) /\ b \in Seq(S) /\ c \in Seq(S)
        BY <1>4, <3>2, <3>6
      <3> HIDE DEF a, b, c
      <3>8. (a \o b) \o c = a \o (b \o c)
        <4>1. Associates(a, b, c)
          BY <3>7, Associate
        <4> QED BY <4>1 DEF Associates
      <3>9. front(k + (j + 1)) = (a \o b) \o c
        BY <3>1, <3>3, <3>4, <3>5 DEF a, b, c
      <3>10. flat(j + 1) = b \o c
        BY <3>2 DEF b, c
      <3> QED BY <3>8, <3>9, <3>10 DEF a
    <2> HIDE DEF Splits
    <2>1. j + 1 \in Nat
      OBVIOUS
    <2> QED BY <2>0, <2>1
  <1>7. n \in P
    <2> HIDE DEF P
    <2> QED BY <1>1, <1>5, <1>6, NatByInduction
  <1>8. SubSeq(q, 1, k + n) = q /\ SubSeq(r, 1, n) = r
    BY <1>1, SubSeqFull
  <1>9. front(k + n) = front(k) \o flat(n)
    <2> HIDE DEF front, flat
    <2>1. n <= n
      BY <1>1
    <2> QED BY <1>7, <2>1
  <1> QED BY <1>1, <1>8, <1>9

\* What is put together from the first sequence only is that sequence,
LEMMA FlattenFirst ==
    ASSUME NEW S, NEW q \in Seq(Seq(S)), Len(q) >= 1
    PROVE  FlattenSeq(SubSeq(q, 1, 1)) = q[1]
  <1>1. 0 \in 0 .. Len(q) - 1 /\ 0 + 1 = 1
    BY LenProperties
  <1>2. FlattenSeq(SubSeq(q, 1, 0 + 1)) = FlattenSeq(SubSeq(q, 1, 0)) \o q[0 + 1] /\ q[0 + 1] \in Seq(S)
    BY <1>1, FlattenStep
  <1>3. FlattenSeq(SubSeq(q, 1, 0)) = << >>
    <2>1. SubSeq(q, 1, 0) = << >>
      BY SubSeqEmpty
    <2> QED BY <2>1, FlattenEmpty
  <1> DEFINE x == q[1]
  <1>4. FlattenSeq(SubSeq(q, 1, 1)) = << >> \o x /\ x \in Seq(S)
    BY <1>1, <1>2, <1>3
  <1> HIDE DEF x
  <1>5. << >> \o x = x
    BY <1>4, ConcatEmptySeq
  <1> QED BY <1>4, <1>5 DEF x

\* and two empty ones behind it add nothing.
LEMMA FlattenOneOfThree ==
    ASSUME NEW S, NEW q \in Seq(Seq(S)), Len(q) >= 3, q[2] = << >>, q[3] = << >>
    PROVE  FlattenSeq(SubSeq(q, 1, 3)) = q[1]
  <1>1. Len(q) >= 1 /\ 1 \in 0 .. Len(q) - 1 /\ 2 \in 0 .. Len(q) - 1 /\ 1 + 1 = 2 /\ 2 + 1 = 3
    BY LenProperties
  <1>2. FlattenSeq(SubSeq(q, 1, 1)) = q[1]
    BY <1>1, FlattenFirst
  <1>3. /\ FlattenSeq(SubSeq(q, 1, 1)) \in Seq(S)
        /\ FlattenSeq(SubSeq(q, 1, 1 + 1)) = FlattenSeq(SubSeq(q, 1, 1)) \o q[1 + 1]
    BY <1>1, FlattenStep
  <1>4. FlattenSeq(SubSeq(q, 1, 2 + 1)) = FlattenSeq(SubSeq(q, 1, 2)) \o q[2 + 1]
    BY <1>1, FlattenStep
  <1> DEFINE x == q[1]
  <1>5. x \in Seq(S)
    BY <1>2, <1>3
  <1> HIDE DEF x
  <1>6. x \o << >> = x
    BY <1>5, ConcatEmptySeq
  <1>7. FlattenSeq(SubSeq(q, 1, 2)) = x
    BY <1>1, <1>2, <1>3, <1>6 DEF x
  <1>8. FlattenSeq(SubSeq(q, 1, 3)) = x
    BY <1>1, <1>4, <1>6, <1>7
  <1> QED BY <1>8 DEF x

\* A sequence with one symbol in it.
LEMMA OneSymbol ==
    ASSUME NEW S, NEW c \in S
    PROVE  << c >> \in Seq(S) /\ Len(<< c >>) = 1 /\ \A d : Contains(<< c >>, d) <=> d = c
  <1>1. << c >> \in Seq(S) /\ Len(<< c >>) = 1
    OBVIOUS
  <1>2. \A d : Contains(<< c >>, d) <=> d = c
    BY DEF Contains
  <1> QED BY <1>1, <1>2

\* The part before the first delimiter has none in it, and begins as the whole.
LEMMA SplitHead ==
    ASSUME NEW S, NEW str \in Seq(S), NEW d \in S
    PROVE  /\ ~ Contains(TryFindSplitUnlimited(str, << d >>).head, d)
           /\ str # << >> /\ str[1] # d =>
                 /\ TryFindSplitUnlimited(str, << d >>).head # << >>
                 /\ TryFindSplitUnlimited(str, << d >>).head[1] = str[1]
  <1> DEFINE delim == << d >>
             all == Occurrences(str, delim)
             head == TryFindSplitUnlimited(str, delim).head
  <1>1. Len(str) \in Nat /\ Len(delim) = 1 /\ delim[1] = d
    BY LenProperties
  <1>2. \A i \in 0 .. Len(str) - 1 : i \in all <=> str[i + 1] = d
    <2> SUFFICES ASSUME NEW i \in 0 .. Len(str) - 1 PROVE i \in all <=> str[i + 1] = d
      OBVIOUS
    <2>1. SubSeq(str, i + 1, i + 1) = << str[i + 1] >>
      <3> DEFINE piece == SubSeq(str, i + 1, i + 1)
                 one == << str[i + 1] >>
      <3>1. i + 1 \in 0 .. Len(str) /\ i \in 0 .. i + 1 /\ (i + 1) - i = 1
        BY <1>1
      <3>2. piece \in Seq(S) /\ Len(piece) = 1 /\ \A j \in 1 .. 1 : piece[j] = str[i + j]
        BY <3>1, Piece
      <3>3. str[i + 1] \in S
        BY <1>1
      <3>4. one \in Seq(S) /\ Len(one) = 1 /\ one[1] = str[i + 1]
        BY <3>3
      <3>5. \A j \in 1 .. Len(piece) : piece[j] = one[j]
        <4> HIDE DEF piece, one
        <4> SUFFICES ASSUME NEW j \in 1 .. Len(piece) PROVE piece[j] = one[j]
          OBVIOUS
        <4>1. j = 1
          BY <3>2
        <4> QED BY <3>2, <3>4, <4>1
      <3> HIDE DEF piece, one
      <3>6. piece = one
        BY <3>2, <3>4, <3>5, SeqEqual
      <3> QED BY <3>6 DEF piece, one
    <2>2. i \in all <=> SubSeq(str, i + 1, i + Len(delim)) = delim
      <3> HIDE DEF delim
      <3> QED BY <1>1 DEF Occurrences
    <2>3. SubSeq(str, i + 1, i + Len(delim)) = << str[i + 1] >>
      <3> HIDE DEF delim
      <3> QED BY <1>1, <2>1
    <2>4. << str[i + 1] >> = delim <=> str[i + 1] = d
      OBVIOUS
    <2> HIDE DEF all, delim
    <2> QED BY <2>2, <2>3, <2>4
  <1>3. CASE all = {}
    <2>1. head = str
      <3> HIDE DEF delim
      <3>1. TryFindUnlimited(str, delim).error = "NOT_FOUND"
        BY <1>3 DEF TryFindUnlimited, NotFound
      <3> QED BY <3>1 DEF TryFindSplitUnlimited
    <2> HIDE DEF head, all
    <2>2. ~ Contains(str, d)
      <3> SUFFICES ASSUME NEW i \in 1 .. Len(str), str[i] = d PROVE FALSE
        BY DEF Contains
      <3>1. i - 1 \in 0 .. Len(str) - 1 /\ (i - 1) + 1 = i
        BY <1>1
      <3>2. str[(i - 1) + 1] = d
        BY <3>1
      <3> QED BY <1>2, <1>3, <3>1, <3>2
    <2> QED BY <2>1, <2>2 DEF head
  <1>4. CASE all # {}
    <2> DEFINE m == Min(all)
    <2>1. all \in SUBSET (0 .. Len(str) - 1)
      <3> HIDE DEF delim
      <3> QED BY <1>1 DEF Occurrences
    <2> HIDE DEF all
    <2>2. m \in all /\ \A i \in all : m <= i
      BY <1>1, <1>4, <2>1, MinProperties
    <2>3. m \in 0 .. Len(str) - 1 /\ m \in 0 .. Len(str)
      <3> HIDE DEF m
      <3>1. m \in 0 .. Len(str) - 1
        BY <2>1, <2>2
      <3> QED BY <1>1, <3>1
    <2>4. head = SubSeq(str, 1, m)
      <3> HIDE DEF delim
      <3>1. TryFindUnlimited(str, delim) = Found(SubSeq(str, 1, m), m + Len(delim))
        BY <1>4 DEF TryFindUnlimited, all
      <3> DEFINE found == TryFindUnlimited(str, delim)
                 front == SubSeq(str, 1, m)
      <3> HIDE DEF front
      <3>2. found = Found(front, m + Len(delim))
        BY <3>1 DEF front
      <3> HIDE DEF found
      <3>3. found.error = "NONE" /\ found.value = front
        BY <3>2 DEF Found
      <3> QED BY <3>3 DEF TryFindSplitUnlimited, found, front
    <2> HIDE DEF head, m
    <2>5. Len(head) = m /\ \A i \in 1 .. m : head[i] = str[i]
      BY <2>3, <2>4, FrontProperties
    <2>6. ~ Contains(head, d)
      <3> SUFFICES ASSUME NEW i \in 1 .. m, head[i] = d PROVE FALSE
        BY <2>5 DEF Contains
      <3>1. i - 1 \in 0 .. Len(str) - 1 /\ (i - 1) + 1 = i /\ ~ (m <= i - 1) /\ i \in 1 .. Len(str)
        BY <1>1, <2>3
      <3>2. str[(i - 1) + 1] = d
        BY <2>5, <3>1
      <3> QED BY <1>2, <2>2, <3>1, <3>2
    <2>7. str # << >> /\ str[1] # d => head # << >> /\ head[1] = str[1]
      <3> SUFFICES ASSUME str # << >>, str[1] # d PROVE head # << >> /\ head[1] = str[1]
        OBVIOUS
      <3>1. m # 0
        BY <1>2, <2>2, <2>3
      <3>2. 1 \in 1 .. m
        BY <2>3, <3>1
      <3>3. Len(head) # 0
        BY <2>5, <3>1
      <3> QED BY <2>5, <3>2, <3>3
    <2> QED BY <2>6, <2>7 DEF head
  <1> QED BY <1>3, <1>4

\* What it is for a string to begin with a symbol.
LEMMA BeginsWith ==
    ASSUME NEW S, NEW str \in Seq(S), NEW d \in S
    PROVE  IsPrefix(<< d >>, str) <=> str # << >> /\ str[1] = d
  <1> DEFINE delim == << d >>
  <1>1. Len(str) \in Nat /\ Len(delim) = 1 /\ delim[1] = d /\ delim \in Seq(S)
    BY LenProperties
  <1>2. str # << >> <=> Len(str) >= 1
    BY <1>1, EmptySeq
  <1>3. SubSeq(delim, 1, 1) = delim
    <2> HIDE DEF delim
    <2> QED BY <1>1, SubSeqFull
  <1>4. ASSUME Len(str) >= 1 PROVE SubSeq(str, 1, 1) \in Seq(S) /\ Len(SubSeq(str, 1, 1)) = 1 /\ SubSeq(str, 1, 1)[1] = str[1]
    <2>1. 1 \in 0 .. Len(str)
      BY <1>1, <1>4
    <2> QED BY <2>1, FrontProperties
  <1> HIDE DEF delim
  <1>5. ASSUME Len(str) >= 1, str[1] = d PROVE SubSeq(str, 1, 1) = delim
    <2> DEFINE front == SubSeq(str, 1, 1)
    <2>1. front \in Seq(S) /\ Len(front) = 1 /\ front[1] = d
      BY <1>4, <1>5
    <2> HIDE DEF front
    <2>2. \A i \in 1 .. Len(front) : front[i] = delim[i]
      BY <1>1, <2>1
    <2>3. front = delim
      BY <1>1, <2>1, <2>2, SeqEqual
    <2> QED BY <2>3 DEF front
  <1>6. ASSUME Len(str) >= 1, SubSeq(str, 1, 1) = delim PROVE str[1] = d
    BY <1>1, <1>4, <1>6
  <1> QED BY <1>1, <1>2, <1>3, <1>5, <1>6 DEF IsPrefix, delim

\* A piece has the symbols of the whole.
LEMMA FrontAvoids ==
    ASSUME NEW S, NEW str \in Seq(S), NEW d, ~ Contains(str, d), NEW n \in 0 .. Len(str)
    PROVE  ~ Contains(SubSeq(str, 1, n), d)
  <1> DEFINE front == SubSeq(str, 1, n)
  <1>1. Len(front) = n /\ \A i \in 1 .. n : front[i] = str[i]
    BY FrontProperties
  <1> HIDE DEF front
  <1>2. \A i \in 1 .. n : i \in 1 .. Len(str)
    BY LenProperties
  <1>3. ~ Contains(front, d)
    BY <1>1, <1>2 DEF Contains
  <1> QED BY <1>3 DEF front

\* A string has what is at its beginning.
LEMMA PrefixPart ==
    ASSUME NEW S, NEW str \in Seq(S), NEW p \in Seq(S), IsPrefix(p, str)
    PROVE  /\ Len(p) <= Len(str)
           /\ \A i \in 1 .. Len(p) : str[i] = p[i]
           /\ \A d : Contains(p, d) => Contains(str, d)
  <1>1. Len(p) \in Nat /\ Len(str) \in Nat /\ Len(p) <= Len(str)
    BY LenProperties DEF IsPrefix
  <1>2. SubSeq(p, 1, Len(p)) = SubSeq(str, 1, Len(p)) /\ SubSeq(p, 1, Len(p)) = p
    BY SubSeqFull DEF IsPrefix
  <1>3. \A i \in 1 .. Len(p) : SubSeq(str, 1, Len(p))[i] = str[i]
    <2>1. Len(p) \in 0 .. Len(str)
      BY <1>1
    <2> QED BY <2>1, FrontProperties
  <1>4. \A i \in 1 .. Len(p) : str[i] = p[i]
    BY <1>2, <1>3
  <1>5. \A i \in 1 .. Len(p) : i \in 1 .. Len(str)
    BY <1>1
  <1> QED BY <1>1, <1>4, <1>5 DEF Contains

-----------------------------------------------------------------------------
(* A string that begins another one. *)

\* What a search finds, it finds as early in a longer string that begins alike.
LEMMA FoundEarly ==
    ASSUME NEW S, NEW str \in Seq(S), NEW long \in Seq(S), NEW delim \in Seq(S),
           Len(str) <= Len(long), \A i \in 1 .. Len(str) : long[i] = str[i],
           TryFindUnlimited(str, delim).error # "NOT_FOUND"
    PROVE  TryFindUnlimited(long, delim) = TryFindUnlimited(str, delim)
  <1> DEFINE all(s) == Occurrences(s, delim)
             last == Len(str) - Len(delim)
  <1>1. Len(str) \in Nat /\ Len(long) \in Nat /\ Len(delim) \in Nat
    BY LenProperties
  <1>2. \A i \in 0 .. last : SubSeq(long, i + 1, i + Len(delim)) = SubSeq(str, i + 1, i + Len(delim))
    <2> SUFFICES ASSUME NEW i \in 0 .. last
                 PROVE  SubSeq(long, i + 1, i + Len(delim)) = SubSeq(str, i + 1, i + Len(delim))
      OBVIOUS
    <2> DEFINE b == i + Len(delim)
    <2>1. b \in 0 .. Len(str) /\ b \in 0 .. Len(long) /\ i \in 0 .. b
      BY <1>1
    <2> HIDE DEF b
    <2>2. /\ SubSeq(str, i + 1, b) \in Seq(S) /\ SubSeq(long, i + 1, b) \in Seq(S)
          /\ Len(SubSeq(str, i + 1, b)) = b - i /\ Len(SubSeq(long, i + 1, b)) = b - i
          /\ \A k \in 1 .. b - i : SubSeq(str, i + 1, b)[k] = str[i + k]
          /\ \A k \in 1 .. b - i : SubSeq(long, i + 1, b)[k] = long[i + k]
      BY <2>1, Piece
    <2>3. \A k \in 1 .. b - i : str[i + k] = long[i + k]
      BY SMTT(30), <1>1, <2>1
    <2>4. SubSeq(long, i + 1, b) = SubSeq(str, i + 1, b)
      <3> DEFINE one == SubSeq(str, i + 1, b)
                 two == SubSeq(long, i + 1, b)
      <3>1. one \in Seq(S) /\ two \in Seq(S) /\ Len(two) = Len(one)
        BY <2>2
      <3>2. \A k \in 1 .. Len(two) : two[k] = one[k]
        BY <2>2, <2>3
      <3> HIDE DEF one, two
      <3>3. two = one
        BY <3>1, <3>2, SeqEqual
      <3> QED BY <3>3 DEF one, two
    <2> QED BY <2>4 DEF b
  <1>3. \A i \in 0 .. last : i \in all(long) <=> i \in all(str)
    <2> SUFFICES ASSUME NEW i \in 0 .. last PROVE i \in all(long) <=> i \in all(str)
      OBVIOUS
    <2>1. SubSeq(long, i + 1, i + Len(delim)) = SubSeq(str, i + 1, i + Len(delim))
      BY <1>2
    <2>2. i \in 0 .. Len(str) - Len(delim) /\ i \in 0 .. Len(long) - Len(delim)
      BY <1>1
    <2> QED BY <2>1, <2>2 DEF Occurrences
  <1>4. all(str) # {} /\ all(str) \subseteq 0 .. last /\ all(long) \in SUBSET Nat
    <2>1. all(str) # {}
      BY DEF TryFindUnlimited, NotFound
    <2>2. all(str) \subseteq 0 .. last /\ all(long) \in SUBSET Nat
      BY <1>1 DEF Occurrences
    <2> QED BY <2>1, <2>2
  <1> HIDE DEF all
  <1>5. all(str) \in SUBSET Nat /\ all(long) # {}
    BY <1>3, <1>4
  <1>6. /\ Min(all(str)) \in all(str) /\ \A x \in all(str) : Min(all(str)) <= x
        /\ Min(all(long)) \in all(long) /\ \A x \in all(long) : Min(all(long)) <= x
    BY <1>4, <1>5, MinProperties
  <1> DEFINE it == Min(all(str))
             il == Min(all(long))
  <1>7. it \in 0 .. last /\ it \in all(long) /\ il \in Nat /\ il <= it
    BY <1>3, <1>4, <1>5, <1>6
  <1>8. il \in all(str)
    BY <1>1, <1>3, <1>6, <1>7
  <1>9. il = it
    BY <1>1, <1>6, <1>7, <1>8
  <1>10. SubSeq(long, 1, it) = SubSeq(str, 1, it)
    <2>1. it \in 0 .. Len(str) /\ it \in 0 .. Len(long)
      BY <1>1, <1>7
    <2> HIDE DEF it
    <2>2. /\ SubSeq(str, 1, it) \in Seq(S) /\ SubSeq(long, 1, it) \in Seq(S)
          /\ Len(SubSeq(str, 1, it)) = it /\ Len(SubSeq(long, 1, it)) = it
          /\ \A k \in 1 .. it : SubSeq(str, 1, it)[k] = str[k] /\ SubSeq(long, 1, it)[k] = long[k]
      BY <2>1, FrontProperties
    <2>3. \A k \in 1 .. it : str[k] = long[k]
      BY <2>1
    <2> QED BY <2>2, <2>3, SeqEqual
  <1> QED BY <1>4, <1>5, <1>9, <1>10 DEF TryFindUnlimited, all

\* Cutting two sequences one behind the other, within the first one
LEMMA CutInFirst ==
    ASSUME NEW S, NEW a \in Seq(S), NEW b \in Seq(S), NEW n \in 0 .. Len(a)
    PROVE  /\ SubSeq(a \o b, 1, n) = SubSeq(a, 1, n)
           /\ SubSeq(a \o b, n + 1, Len(a \o b)) = SubSeq(a, n + 1, Len(a)) \o b
  <1> DEFINE c == a \o b
             rest == SubSeq(a, n + 1, Len(a))
  <1>1. /\ c \in Seq(S) /\ Len(a) \in Nat /\ Len(b) \in Nat /\ Len(c) = Len(a) + Len(b)
        /\ \A i \in 1 .. Len(a) : c[i] = a[i]
        /\ \A i \in Len(a) + 1 .. Len(a) + Len(b) : c[i] = b[i - Len(a)]
    BY ConcatProperties, LenProperties
  <1> HIDE DEF c
  <1>2. SubSeq(c, 1, n) = SubSeq(a, 1, n)
    <2>1. n \in 0 .. Len(c)
      BY <1>1
    <2>2. /\ SubSeq(a, 1, n) \in Seq(S) /\ SubSeq(c, 1, n) \in Seq(S)
          /\ Len(SubSeq(a, 1, n)) = n /\ Len(SubSeq(c, 1, n)) = n
          /\ \A i \in 1 .. n : SubSeq(a, 1, n)[i] = a[i] /\ SubSeq(c, 1, n)[i] = c[i]
      BY <1>1, <2>1, FrontProperties
    <2>3. \A i \in 1 .. n : SubSeq(c, 1, n)[i] = SubSeq(a, 1, n)[i]
      BY <1>1, <2>2
    <2> QED BY <2>2, <2>3, SeqEqual
  <1>3. SubSeq(c, n + 1, Len(c)) = rest \o b
    <2>1. /\ rest \in Seq(S) /\ Len(rest) = Len(a) - n
          /\ \A i \in 1 .. Len(a) - n : rest[i] = a[n + i]
      BY <1>1, Piece
    <2> HIDE DEF rest
    <2>2. /\ rest \o b \in Seq(S) /\ Len(rest \o b) = Len(a) - n + Len(b)
          /\ \A i \in 1 .. Len(a) - n : (rest \o b)[i] = a[n + i]
          /\ \A i \in Len(a) - n + 1 .. Len(a) - n + Len(b) : (rest \o b)[i] = b[i - (Len(a) - n)]
      <3>1. /\ rest \o b \in Seq(S) /\ Len(rest \o b) = Len(rest) + Len(b)
            /\ \A i \in 1 .. Len(rest) : (rest \o b)[i] = rest[i]
            /\ \A i \in Len(rest) + 1 .. Len(rest) + Len(b) : (rest \o b)[i] = b[i - Len(rest)]
        <4>1. Len(rest) \in Nat /\ Len(b) \in Nat
          BY <2>1, LenProperties
        <4>2. /\ rest \o b \in Seq(S) /\ Len(rest \o b) = Len(rest) + Len(b)
              /\ \A i \in 1 .. Len(rest) + Len(b) :
                    (rest \o b)[i] = IF i <= Len(rest) THEN rest[i] ELSE b[i - Len(rest)]
          BY <2>1, ConcatProperties
        <4> DEFINE rb == rest \o b
        <4> HIDE DEF rb
        <4>3. /\ rb \in Seq(S) /\ Len(rb) = Len(rest) + Len(b)
              /\ \A i \in 1 .. Len(rest) + Len(b) :
                    rb[i] = IF i <= Len(rest) THEN rest[i] ELSE b[i - Len(rest)]
          BY <4>2 DEF rb
        <4>4. /\ \A i \in 1 .. Len(rest) : rb[i] = rest[i]
              /\ \A i \in Len(rest) + 1 .. Len(rest) + Len(b) : rb[i] = b[i - Len(rest)]
          BY <4>1, <4>3
        <4> QED BY <4>3, <4>4 DEF rb
      <3> QED BY <2>1, <3>1
    <2>3. /\ SubSeq(c, n + 1, Len(c)) \in Seq(S)
          /\ Len(SubSeq(c, n + 1, Len(c))) = Len(a) - n + Len(b)
          /\ \A i \in 1 .. Len(a) - n + Len(b) : SubSeq(c, n + 1, Len(c))[i] = c[n + i]
      <3>1. n \in 0 .. Len(c) /\ Len(c) \in 0 .. Len(c) /\ Len(c) - n = Len(a) - n + Len(b)
        BY <1>1
      <3> QED BY <1>1, <3>1, Piece
    <2>4. \A i \in 1 .. Len(a) - n + Len(b) : SubSeq(c, n + 1, Len(c))[i] = (rest \o b)[i]
      <3> SUFFICES ASSUME NEW i \in 1 .. Len(a) - n + Len(b)
                   PROVE  SubSeq(c, n + 1, Len(c))[i] = (rest \o b)[i]
        OBVIOUS
      <3>1. CASE i <= Len(a) - n
        <4>1. i \in 1 .. Len(a) - n /\ n + i \in 1 .. Len(a)
          BY <1>1, <3>1
        <4> QED BY <1>1, <2>2, <2>3, <4>1
      <3>2. CASE ~ (i <= Len(a) - n)
        <4>1. /\ i \in Len(a) - n + 1 .. Len(a) - n + Len(b)
              /\ n + i \in Len(a) + 1 .. Len(a) + Len(b)
              /\ n + i - Len(a) = i - (Len(a) - n)
          BY <1>1, <3>2
        <4>2. c[n + i] = b[n + i - Len(a)]
          BY <1>1, <4>1
        <4> QED BY <2>2, <2>3, <4>1, <4>2
      <3> QED BY <3>1, <3>2
    <2> QED BY <2>2, <2>3, <2>4, SeqEqual
  <1> QED BY <1>2, <1>3 DEF c

\* (a piece of the first one)
LEMMA PieceOfFirst ==
    ASSUME NEW S, NEW a \in Seq(S), NEW b \in Seq(S), NEW n \in 0 .. Len(a), NEW m \in 0 .. n
    PROVE  SubSeq(a \o b, m + 1, n) = SubSeq(a, m + 1, n)
  <1> DEFINE c == a \o b
  <1>1. c \in Seq(S) /\ Len(a) \in Nat /\ Len(b) \in Nat /\ Len(c) = Len(a) + Len(b)
        /\ \A i \in 1 .. Len(a) : c[i] = a[i]
    BY ConcatProperties, LenProperties
  <1> HIDE DEF c
  <1>2. n \in 0 .. Len(c)
    BY <1>1
  <1>3. /\ SubSeq(a, m + 1, n) \in Seq(S) /\ SubSeq(c, m + 1, n) \in Seq(S)
        /\ Len(SubSeq(a, m + 1, n)) = n - m /\ Len(SubSeq(c, m + 1, n)) = n - m
        /\ \A i \in 1 .. n - m : SubSeq(a, m + 1, n)[i] = a[m + i] /\ SubSeq(c, m + 1, n)[i] = c[m + i]
    BY <1>1, <1>2, Piece
  <1>4. \A i \in 1 .. n - m : m + i \in 1 .. Len(a)
    BY <1>1
  <1>5. SubSeq(c, m + 1, n) = SubSeq(a, m + 1, n)
    BY <1>1, <1>3, <1>4, SeqEqual
  <1> QED BY <1>5 DEF c

\* and within the second one.
LEMMA CutInSecond ==
    ASSUME NEW S, NEW a \in Seq(S), NEW b \in Seq(S), NEW n \in 0 .. Len(b)
    PROVE  /\ SubSeq(a \o b, 1, Len(a) + n) = a \o SubSeq(b, 1, n)
           /\ SubSeq(a \o b, Len(a) + n + 1, Len(a \o b)) = SubSeq(b, n + 1, Len(b))
  <1> DEFINE front == SubSeq(b, 1, n)
             rest  == SubSeq(b, n + 1, Len(b))
             ab    == a \o front
  <1>1. front \in Seq(S) /\ rest \in Seq(S) /\ Len(front) = n /\ b = front \o rest
    BY FrontAndRest, FrontProperties
  <1> HIDE DEF front, rest
  <1>2. a \o b = ab \o rest
    BY SMTT(30), <1>1, Associate DEF Associates
  <1>3. ab \in Seq(S) /\ Len(ab) = Len(a) + n
    BY <1>1, ConcatProperties
  <1> HIDE DEF ab
  <1>4. /\ SubSeq(ab \o rest, 1, Len(ab)) = ab
        /\ SubSeq(ab \o rest, Len(ab) + 1, Len(ab \o rest)) = rest
    BY <1>1, <1>3, JoinedParts
  <1> QED BY <1>2, <1>3, <1>4 DEF ab, front, rest

\* A delimiter is found behind a text that does not have its first symbol.
LEMMA FirstFound ==
    ASSUME NEW S, NEW text \in Seq(S), NEW delim \in Seq(S), NEW rest \in Seq(S),
           delim # << >>, ~ Contains(text, delim[1])
    PROVE  TryFindUnlimited(text \o (delim \o rest), delim) = Found(text, Len(text) + Len(delim))
  <1> DEFINE m == Len(text)
             k == Len(delim)
             back == delim \o rest
             str == text \o back
             all == Occurrences(str, delim)
  <1>1. m \in Nat /\ k \in Nat /\ Len(rest) \in Nat /\ k # 0
    BY LenProperties, EmptySeq
  <1>2. back \in Seq(S) /\ Len(back) = k + Len(rest) /\ SubSeq(back, 1, k) = delim
    BY ConcatProperties, JoinedParts
  <1> HIDE DEF back
  <1>3. str \in Seq(S) /\ Len(str) = m + (k + Len(rest)) /\ \A i \in 1 .. m : str[i] = text[i]
    <2> HIDE DEF m, k
    <2>1. str \in Seq(S) /\ Len(str) = Len(text) + Len(back)
      BY <1>2, ConcatProperties
    <2>2. \A i \in 1 .. Len(text) + Len(back) : str[i] = IF i <= Len(text) THEN text[i] ELSE back[i - Len(text)]
      BY <1>2, ConcatProperties
    <2>3. \A i \in 1 .. Len(text) : i \in 1 .. Len(text) + Len(back) /\ i <= Len(text)
      BY <1>2, LenProperties
    <2>4. \A i \in 1 .. Len(text) : str[i] = text[i]
      BY <2>2, <2>3
    <2> QED BY <1>2, <2>1, <2>4 DEF m
  <1>4. SubSeq(str, 1, m) = text
    BY <1>2, JoinedParts
  <1>5. SubSeq(str, m + 1, m + k) = delim
    <2> DEFINE e == m + k
    <2>1. 0 + k = k /\ k \in 0 .. Len(back)
      BY <1>1, <1>2
    <2>2. SubSeq(str, 1, m + k) = text \o delim
      <3>1. SubSeq(text \o back, 1, Len(text) + k) = text \o SubSeq(back, 1, k)
        <4> HIDE DEF k
        <4> QED BY <1>2, <2>1, CutInSecond
      <3> QED BY <1>2, <3>1
    <2>3. /\ text \o delim \in Seq(S) /\ Len(text \o delim) = e
          /\ SubSeq(text \o delim, m + 1, Len(text \o delim)) = delim
      BY ConcatProperties, JoinedParts
    <2>4. e \in 0 .. Len(str) /\ m \in 0 .. e /\ e \in Nat
      BY <1>1, <1>3
    <2> HIDE DEF e, str
    <2>5. SubSeq(str, 1, e) = text \o delim
      BY <2>2 DEF e
    <2>6. SubSeq(SubSeq(str, 0 + 1, e), m + 1, e - 0) = SubSeq(str, 0 + m + 1, e)
      <3>1. 0 \in 0 .. e /\ m \in 0 .. e - 0
        BY <2>4
      <3> QED BY <1>3, <2>4, <3>1, PieceShrinks
    <2>7. 0 + 1 = 1 /\ e - 0 = e /\ 0 + m + 1 = m + 1
      BY <1>1, <2>4
    <2>8. SubSeq(str, m + 1, e) = delim
      BY <2>3, <2>5, <2>6, <2>7
    <2> QED BY <2>8 DEF e
  <1> HIDE DEF str
  <1>6. m \in all
    <2>1. m \in 0 .. Len(str) - Len(delim)
      BY <1>1, <1>3
    <2> QED BY <1>5, <2>1 DEF Occurrences
  <1>7. \A i \in all : m <= i
    <2> SUFFICES ASSUME NEW i \in all, ~ (m <= i) PROVE FALSE
      OBVIOUS
    <2>1. i \in 0 .. Len(str) - Len(delim) /\ SubSeq(str, i + 1, i + Len(delim)) = delim
      BY DEF Occurrences
    <2> DEFINE e == i + k
    <2>2. i \in Nat /\ i < m /\ e \in 0 .. Len(str) /\ i \in 0 .. e /\ e - i = k /\ 1 \in 1 .. k
      BY <1>1, <1>3, <2>1
    <2>3. SubSeq(str, i + 1, e)[1] = str[i + 1]
      <3> HIDE DEF e
      <3>1. \A j \in 1 .. e - i : SubSeq(str, i + 1, e)[j] = str[i + j]
        BY <1>3, <2>2, Piece
      <3> QED BY <2>2, <3>1
    <2>4. i + 1 \in 1 .. m
      BY <1>1, <2>2
    <2>5. text[i + 1] = delim[1]
      BY <1>3, <2>1, <2>3, <2>4
    <2> QED BY <2>4, <2>5 DEF Contains
  <1>8. all \in SUBSET Nat /\ all # {}
    <2>1. all \in SUBSET Nat
      BY DEF Occurrences
    <2> QED BY <1>6, <2>1
  <1>9. Min(all) = m
    <2> HIDE DEF all, m
    <2>1. Min(all) \in all /\ \A x \in all : Min(all) <= x
      BY <1>8, MinProperties
    <2> DEFINE a == Min(all)
    <2>2. a <= m /\ m <= a /\ a \in Nat /\ m \in Nat
      BY <1>1, <1>6, <1>7, <1>8, <2>1
    <2> HIDE DEF a
    <2>3. a = m
      BY <2>2
    <2> QED BY <2>3 DEF a
  <1>10. TryFindUnlimited(str, delim) = Found(SubSeq(str, 1, m), m + k)
    BY <1>8, <1>9 DEF TryFindUnlimited
  <1> QED BY <1>4, <1>10 DEF str, back
=============================================================================
