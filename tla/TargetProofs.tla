---------------------------- MODULE TargetProofs ----------------------------
(***************************************************************************)
(* What is proved of the targets: whatever is read is well-formed, and a   *)
(* well-formed target is written so that it fits into what is reserved for *)
(* it, is one token and is read as itself.  On the way: what Decode,       *)
(* DeserializeQuery, Decimal and NumeralValue compute, which are recursive *)
(* functions, for every string and every number.                           *)
(***************************************************************************)
EXTENDS TargetRelay, BytesLemmas

\* Each of the texts behind each of the characters.
Prepend(chars, rests) == {Cons(c, rest) : c \in chars, rest \in rests}
PrependOne(char, rests) == {Cons(char, rest) : rest \in rests}

\* What a character stands for that begins no escape.
Plain(c, spaces) == IF c \in spaces THEN " " ELSE c

\* What is read from position i on, when f is what is read from later ones:
\* the body of the function that Decode defines.
DecodeFrom(f, encoded, spaces, i) ==
    IF i > Len(encoded) THEN {<< >>}
    ELSE IF encoded[i] # "%"
    THEN PrependOne(Plain(encoded[i], spaces), f[i + 1])
    ELSE IF i + 2 > Len(encoded) THEN Null
    ELSE Prepend(DecodeByte(encoded[i + 1], encoded[i + 2]), f[i + 3])

Decodes(f, encoded, spaces) ==
    \A i \in 1 .. Len(encoded) + 1 : f[i] = DecodeFrom(f, encoded, spaces, i)

\* What is read from a position on depends on the rest of the string only.
LEMMA DecodeRest ==
    ASSUME NEW S, NEW encoded \in Seq(S), NEW rest \in Seq(S), NEW k \in Nat, NEW spaces,
           Len(encoded) = k + Len(rest),
           \A i \in 1 .. Len(rest) : encoded[k + i] = rest[i],
           NEW f, Decodes(f, encoded, spaces), NEW g, Decodes(g, rest, spaces)
    PROVE  \A i \in 1 .. Len(rest) + 1 : f[k + i] = g[i]
  <1> DEFINE n == Len(rest)
             P == {d \in Nat : \A i \in 1 .. n + 1 : n + 1 <= i + d => f[k + i] = g[i]}
  <1>0. n \in Nat
    BY LenProperties
  <1>1. ASSUME NEW i \in 1 .. n + 1,
               \A j \in 1 .. n + 1 : i < j => f[k + j] = g[j]
        PROVE  f[k + i] = g[i]
    <2>1. /\ k + i \in 1 .. Len(encoded) + 1
          /\ i > n <=> k + i > Len(encoded)
          /\ i + 2 > n <=> (k + i) + 2 > Len(encoded)
      BY <1>0
    <2>2. f[k + i] = DecodeFrom(f, encoded, spaces, k + i) /\ g[i] = DecodeFrom(g, rest, spaces, i)
      BY <2>1 DEF Decodes
    <2>3. i <= n => rest[i] = encoded[k + i]
      BY <1>0
    <2>4. i + 2 <= n => rest[i + 1] = encoded[(k + i) + 1] /\ rest[i + 2] = encoded[(k + i) + 2]
      <3>1. i + 2 <= n => i + 1 \in 1 .. n /\ i + 2 \in 1 .. n
        BY <1>0
      <3>2. k + (i + 1) = (k + i) + 1 /\ k + (i + 2) = (k + i) + 2
        OBVIOUS
      <3> QED BY <3>1, <3>2
    <2>5. i <= n => f[(k + i) + 1] = g[i + 1]
      <3>1. i <= n => i + 1 \in 1 .. n + 1 /\ i < i + 1
        BY <1>0
      <3>2. k + (i + 1) = (k + i) + 1
        OBVIOUS
      <3> QED BY <1>1, <3>1, <3>2
    <2>6. i + 2 <= n => f[(k + i) + 3] = g[i + 3]
      <3>1. i + 2 <= n => i + 3 \in 1 .. n + 1 /\ i < i + 3
        BY <1>0
      <3>2. k + (i + 3) = (k + i) + 3
        OBVIOUS
      <3> QED BY <1>1, <3>1, <3>2
    <2>7. i <= n => i \in 1 .. n
      BY <1>0
    <2>8. DecodeFrom(f, encoded, spaces, k + i) = DecodeFrom(g, rest, spaces, i)
      <3> DEFINE j == k + i
      <3> HIDE DEF j
      <3>1. i > n <=> j > Len(encoded)
        BY <2>1 DEF j
      <3>2. i + 2 > n <=> j + 2 > Len(encoded)
        BY <2>1 DEF j
      <3>3. ~ (i > n) => rest[i] = encoded[j] /\ f[j + 1] = g[i + 1]
        BY <1>0, <2>3, <2>5 DEF j
      <3>4. ~ (i + 2 > n) => rest[i + 1] = encoded[j + 1] /\ rest[i + 2] = encoded[j + 2] /\ f[j + 3] = g[i + 3]
        BY <1>0, <2>4, <2>6 DEF j
      <3>5. DecodeFrom(f, encoded, spaces, j) = DecodeFrom(g, rest, spaces, i)
        BY <3>1, <3>2, <3>3, <3>4 DEF DecodeFrom
      <3> QED BY <3>5 DEF j
    <2> QED BY <2>2, <2>8
  <1>2. 0 \in P
    <2> SUFFICES ASSUME NEW i \in 1 .. n + 1, n + 1 <= i + 0 PROVE f[k + i] = g[i]
      OBVIOUS
    <2>1. \A j \in 1 .. n + 1 : ~ (i < j)
      BY <1>0
    <2> QED BY <1>1, <2>1
  <1>3. ASSUME NEW d \in Nat, d \in P PROVE d + 1 \in P
    <2> SUFFICES ASSUME NEW i \in 1 .. n + 1, n + 1 <= i + (d + 1) PROVE f[k + i] = g[i]
      OBVIOUS
    <2>1. \A j \in 1 .. n + 1 : i < j => n + 1 <= j + d
      BY <1>0
    <2>2. \A j \in 1 .. n + 1 : i < j => f[k + j] = g[j]
      BY <1>3, <2>1
    <2> QED BY <1>1, <2>2
  <1>4. Nat \subseteq P
    <2> HIDE DEF P
    <2> QED BY <1>2, <1>3, NatByInduction
  <1>5. ASSUME NEW i \in 1 .. n + 1 PROVE f[k + i] = g[i]
    <2>1. n + 1 \in Nat /\ n + 1 <= i + (n + 1)
      BY <1>0
    <2>2. n + 1 \in P
      BY <1>4, <2>1
    <2> QED BY <2>1, <2>2
  <1> QED BY <1>5

\* What the sets of symbols have to do with each other.
LEMMA CharTypes ==
    /\ \A n \in 0 .. 255 : CharOf[n] \in TargetByte
    /\ {" ", "%", "+", "/", ":", "?", "&", "=", "*", "http", "https"} \subseteq TargetByte
    /\ \A v \in 0 .. 15 : HexChars[v + 1] \in TargetByte
    /\ \A c \in DOMAIN Digit : Digit[c] \in 0 .. 15
  <1>1. \A n \in 0 .. 255 : CharOf[n] \in Range(CharOf)
    <2>1. DOMAIN CharOf = 0 .. 255
      BY TargetsAssumption
    <2> QED BY <2>1 DEF Range
  <1>2. {" ", "%", "+", "/", ":", "?", "&", "=", "*"} \subseteq TargetByte
    BY TargetsAssumption DEF TargetByte
  <1>3. {"http", "https"} \subseteq TargetByte
    BY TargetsAssumption DEF TargetByte
  <1>4. \A v \in 0 .. 15 : HexChars[v + 1] \in TargetByte
    BY TargetsAssumption DEF TargetByte
  <1>5. \A n \in 0 .. 255 : CharOf[n] \in TargetByte
    BY <1>1 DEF TargetByte
  <1> QED BY <1>2, <1>3, <1>4, <1>5, StringsAssumption

\* Two digits are one byte.
LEMMA DecodeByteType ==
    ASSUME NEW high, NEW low
    PROVE  DecodeByte(high, low) \in SUBSET TargetByte
  <1> SUFFICES ASSUME {high, low} \subseteq DOMAIN Digit
               PROVE  CharOf[16 * Digit[high] + Digit[low]] \in TargetByte
    BY DEF DecodeByte, Null
  <1>1. Digit[high] \in 0 .. 15 /\ Digit[low] \in 0 .. 15
    BY CharTypes
  <1>2. 16 * Digit[high] + Digit[low] \in 0 .. 255
    BY <1>1
  <1> QED BY <1>2, CharTypes

\* A sequence with one more symbol in front,
LEMMA ConsType ==
    ASSUME NEW S, NEW c \in S, NEW rest \in Seq(S)
    PROVE  Cons(c, rest) \in Seq(S) /\ Len(Cons(c, rest)) = Len(rest) + 1
  <1>1. << c >> \in Seq(S) /\ Len(<< c >>) = 1 /\ Len(rest) \in Nat
    OBVIOUS
  <1> QED BY <1>1, ConcatProperties DEF Cons

\* Membership in what is prepended,
LEMMA PrependMember ==
    ASSUME NEW chars, NEW rests, NEW x
    PROVE  x \in Prepend(chars, rests) <=> \E c \in chars : \E rest \in rests : x = Cons(c, rest)
  BY SMT DEF Prepend

\* A maybe of an S.
IsMaybe(m, S) == m = Null \/ \E x \in S : m = {x}

\* and that it is a maybe, too: by a maybe of characters
LEMMA PrependMaybe ==
    ASSUME NEW S, NEW chars, IsMaybe(chars, S), NEW rests, IsMaybe(rests, Seq(S))
    PROVE  IsMaybe(Prepend(chars, rests), Seq(S))
  <1>1. CASE chars = Null \/ rests = Null
    <2>1. Prepend(chars, rests) = Null
      BY <1>1, PrependMember DEF Null
    <2> QED BY <2>1 DEF IsMaybe
  <1>2. CASE \E c \in S, rest \in Seq(S) : chars = {c} /\ rests = {rest}
    <2>1. PICK c \in S, rest \in Seq(S) : chars = {c} /\ rests = {rest}
      BY <1>2
    <2>2. Prepend(chars, rests) = {Cons(c, rest)}
      BY <2>1, PrependMember
    <2>3. Cons(c, rest) \in Seq(S)
      BY ConsType
    <2> QED BY <2>2, <2>3 DEF IsMaybe
  <1> QED BY <1>1, <1>2 DEF IsMaybe

\* or by one character.
LEMMA PrependOneMaybe ==
    ASSUME NEW S, NEW c \in S, NEW rests, IsMaybe(rests, Seq(S))
    PROVE  IsMaybe(PrependOne(c, rests), Seq(S))
  <1>1. CASE rests = Null
    <2>1. PrependOne(c, rests) = Null
      BY <1>1 DEF PrependOne, Null
    <2> QED BY <2>1 DEF IsMaybe
  <1>2. CASE \E rest \in Seq(S) : rests = {rest}
    <2>1. PICK rest \in Seq(S) : rests = {rest}
      BY <1>2
    <2>2. PrependOne(c, rests) = {Cons(c, rest)}
      BY <2>1 DEF PrependOne
    <2>3. Cons(c, rest) \in Seq(S)
      BY ConsType
    <2> QED BY <2>2, <2>3 DEF IsMaybe
  <1> QED BY <1>1, <1>2 DEF IsMaybe

\* Two digits are one byte, or nothing.
LEMMA DecodeByteMaybe ==
    ASSUME NEW high, NEW low
    PROVE  IsMaybe(DecodeByte(high, low), TargetByte)
  <1>1. DecodeByte(high, low) \in SUBSET TargetByte
    BY DecodeByteType
  <1> DEFINE c == CharOf[16 * Digit[high] + Digit[low]]
  <1> HIDE DEF c
  <1>2. DecodeByte(high, low) = {c} \/ DecodeByte(high, low) = Null
    BY DEF DecodeByte, c
  <1> QED BY <1>1, <1>2 DEF IsMaybe

\* The maybes of an S.
Maybes(S) == {Null} \cup {{x} : x \in S}

\* The maybes of a set.
LEMMA MaybesAre ==
    ASSUME NEW S, NEW m
    PROVE  m \in Maybes(S) <=> IsMaybe(m, S)
  BY DEF Maybes, IsMaybe

\* Decode is the value of such a function.
LEMMA DecodeSolved ==
    ASSUME NEW encoded \in Seq(TargetByte), NEW spaces
    PROVE  \E f : /\ Decodes(f, encoded, spaces)
                 /\ Decode(encoded, spaces) = f[1]
                 /\ \A i \in 1 .. Len(encoded) + 1 : f[i] \in Maybes(Seq(TargetByte))
  <1> DEFINE L == Len(encoded)
             N == L + 1
             V == Maybes(Seq(TargetByte))
             step == [f \in [1 .. N -> V] |-> [i \in 1 .. N |-> DecodeFrom(f, encoded, spaces, i)]]
             chosen == CHOOSE f : f = [i \in 1 .. N |-> DecodeFrom(f, encoded, spaces, i)]
  <1>0. L \in Nat /\ N \in Nat /\ V # {}
    <2>1. Null \in V
      BY DEF Maybes
    <2>2. L \in Nat
      BY LenProperties
    <2> HIDE DEF V
    <2> QED BY <2>1, <2>2
  <1>1. ASSUME NEW f \in [1 .. N -> V], NEW i \in 1 .. N
        PROVE  DecodeFrom(f, encoded, spaces, i) \in V
    <2>1. CASE i > L
      <3>1. {<< >>} \in V
        BY EmptySeq DEF Maybes
      <3> QED BY <2>1, <3>1 DEF DecodeFrom
    <2>2. CASE i <= L /\ encoded[i] # "%"
      <3>1. f[i + 1] \in V
        BY <1>0, <2>2
      <3> DEFINE c == Plain(encoded[i], spaces)
      <3>2. c \in TargetByte
        <4>1. encoded[i] \in TargetByte
          BY <1>0, <2>2
        <4> QED BY <4>1, CharTypes DEF Plain
      <3> HIDE DEF c, V
      <3>3. PrependOne(c, f[i + 1]) \in V
        BY <3>1, <3>2, PrependOneMaybe, MaybesAre DEF V
      <3>4. DecodeFrom(f, encoded, spaces, i) = PrependOne(c, f[i + 1])
        BY <1>0, <2>2 DEF DecodeFrom, c
      <3> QED BY <3>3, <3>4
    <2>3. CASE i <= L /\ encoded[i] = "%" /\ i + 2 > L
      <3>1. Null \in V
        BY DEF Maybes
      <3> QED BY <1>0, <2>3, <3>1 DEF DecodeFrom
    <2>4. CASE i <= L /\ encoded[i] = "%" /\ ~ (i + 2 > L)
      <3>1. f[i + 3] \in V
        BY <1>0, <2>4
      <3> HIDE DEF V
      <3>2. Prepend(DecodeByte(encoded[i + 1], encoded[i + 2]), f[i + 3]) \in V
        BY <3>1, DecodeByteMaybe, PrependMaybe, MaybesAre DEF V
      <3> QED BY <1>0, <2>4, <3>2 DEF DecodeFrom
    <2> QED BY <1>0, <2>1, <2>2, <2>3, <2>4
  <1> HIDE DEF V
  <1>2. step \in [[1 .. N -> V] -> [1 .. N -> V]]
    <2>1. \A f \in [1 .. N -> V] : [i \in 1 .. N |-> DecodeFrom(f, encoded, spaces, i)] \in [1 .. N -> V]
      BY <1>1
    <2> QED BY <2>1
  <1>3. \A f \in [1 .. N -> V] : \A i \in 1 .. N : step[f][i] = DecodeFrom(f, encoded, spaces, i)
    OBVIOUS
  <1> HIDE DEF step
  <1>4. ASSUME NEW f \in [1 .. N -> V], NEW g \in [1 .. N -> V], NEW i \in 1 .. N,
               \A j \in i + 1 .. N : f[j] = g[j]
        PROVE  DecodeFrom(f, encoded, spaces, i) = DecodeFrom(g, encoded, spaces, i)
    <2>1. ~ (i > L) => f[i + 1] = g[i + 1]
      BY <1>0, <1>4
    <2>2. ~ (i > L) /\ ~ (i + 2 > L) => f[i + 3] = g[i + 3]
      BY <1>0, <1>4
    <2> QED BY <2>1, <2>2 DEF DecodeFrom
  <1>5. PICK f \in [1 .. N -> V] : \A i \in 1 .. N : f[i] = DecodeFrom(f, encoded, spaces, i)
    <2>1. IsRecursion(step, N, V)
      <3> SUFFICES ASSUME NEW f \in [1 .. N -> V], NEW g \in [1 .. N -> V], NEW i \in 1 .. N,
                          \A j \in i + 1 .. N : f[j] = g[j]
                   PROVE  step[f][i] = step[g][i]
        BY <1>0, <1>2 DEF IsRecursion
      <3> QED BY <1>3, <1>4
    <2>2. PICK f : IsFixed(f, step, N, V)
      <3> HIDE DEF N
      <3> QED BY <2>1, RecursionExists
    <2> QED BY <1>3, <2>2 DEF IsFixed
  <1>6. f = [i \in 1 .. N |-> DecodeFrom(f, encoded, spaces, i)]
    BY <1>5
  <1>7. chosen = [i \in 1 .. N |-> DecodeFrom(chosen, encoded, spaces, i)]
    BY <1>6
  <1>8. Decode(encoded, spaces) = chosen[1]
    BY DEF Decode, DecodeFrom, Prepend, PrependOne, Plain, Cons
  <1> HIDE DEF chosen
  <1>9. Decodes(f, encoded, spaces) /\ Decodes(chosen, encoded, spaces)
    <2>1. \A i \in 1 .. N : chosen[i] = DecodeFrom(chosen, encoded, spaces, i)
      BY <1>7
    <2> QED BY <1>5, <2>1 DEF Decodes
  <1>10. \A i \in 1 .. N : chosen[i] = f[i]
    <2>1. Len(encoded) = 0 + Len(encoded)
      BY <1>0
    <2>2. \A i \in 1 .. Len(encoded) : encoded[0 + i] = encoded[i]
      OBVIOUS
    <2>3. \A i \in 1 .. N : chosen[0 + i] = f[i]
      BY <1>9, <2>1, <2>2, DecodeRest
    <2> QED BY <2>3
  <1>11. \A i \in 1 .. N : chosen[i] \in V
    BY <1>5, <1>10
  <1> QED BY <1>8, <1>9, <1>11 DEF V

\* symbol by symbol.
LEMMA ConsAt ==
    ASSUME NEW S, NEW c \in S, NEW rest \in Seq(S)
    PROVE  /\ Cons(c, rest)[1] = c
           /\ \A i \in 1 .. Len(rest) : Cons(c, rest)[i + 1] = rest[i]
  <1>1. << c >> \in Seq(S) /\ Len(<< c >>) = 1 /\ << c >>[1] = c /\ Len(rest) \in Nat
    OBVIOUS
  <1> DEFINE front == << c >>
  <1>2. /\ Len(front \o rest) = Len(front) + Len(rest)
        /\ \A i \in 1 .. Len(front) + Len(rest) :
              (front \o rest)[i] = IF i <= Len(front) THEN front[i] ELSE rest[i - Len(front)]
    BY <1>1, ConcatProperties
  <1> HIDE DEF front
  <1>3. Len(front) = 1 /\ front[1] = c
    BY <1>1 DEF front
  <1>4. (front \o rest)[1] = c
    BY <1>1, <1>2, <1>3
  <1>5. ASSUME NEW i \in 1 .. Len(rest) PROVE (front \o rest)[i + 1] = rest[i]
    <2>1. i + 1 \in 1 .. 1 + Len(rest) /\ ~ (i + 1 <= 1) /\ (i + 1) - 1 = i
      BY <1>1
    <2> QED BY <1>2, <1>3, <2>1
  <1> QED BY <1>4, <1>5 DEF Cons, front

\* s is rest with c in front.
IsCons(s, c, rest) ==
    /\ Len(s) = Len(rest) + 1 /\ Len(rest) \in Nat
    /\ s[1] = c
    /\ \A i \in 1 .. Len(rest) : s[i + 1] = rest[i]

\* What Cons makes, and nothing else.
LEMMA ConsIs ==
    ASSUME NEW S, NEW c \in S, NEW rest \in Seq(S)
    PROVE  Cons(c, rest) \in Seq(S) /\ IsCons(Cons(c, rest), c, rest)
  <1>1. Len(rest) \in Nat
    BY LenProperties
  <1>2. Cons(c, rest) \in Seq(S) /\ Len(Cons(c, rest)) = Len(rest) + 1
    BY ConsType
  <1>3. Cons(c, rest)[1] = c /\ \A i \in 1 .. Len(rest) : Cons(c, rest)[i + 1] = rest[i]
    BY ConsAt
  <1> QED BY <1>1, <1>2, <1>3 DEF IsCons

\* Nothing is read as nothing.
LEMMA DecodeEmpty ==
    ASSUME NEW spaces
    PROVE  Decode(<< >>, spaces) = {<< >>}
  <1>1. << >> \in Seq(TargetByte) /\ Len(<< >>) = 0
    BY EmptySeq
  <1> DEFINE none == << >>
  <1>2. none \in Seq(TargetByte) /\ Len(none) = 0
    BY <1>1
  <1> HIDE DEF none
  <1>3. PICK f : Decodes(f, none, spaces) /\ Decode(none, spaces) = f[1]
    BY <1>2, DecodeSolved
  <1>4. f[1] = DecodeFrom(f, none, spaces, 1)
    BY <1>2, <1>3 DEF Decodes
  <1>5. f[1] = {<< >>}
    BY <1>2, <1>4 DEF DecodeFrom
  <1> QED BY <1>3, <1>5 DEF none

\* The first step of Decode, and what Decode makes of a rest of the string.
LEMMA DecodeFirst ==
    ASSUME NEW encoded \in Seq(TargetByte), NEW spaces
    PROVE  \E f : /\ Decode(encoded, spaces) = DecodeFrom(f, encoded, spaces, 1)
                 /\ \A rest \in Seq(TargetByte), k \in Nat :
                       /\ Len(encoded) = k + Len(rest)
                       /\ \A i \in 1 .. Len(rest) : encoded[k + i] = rest[i]
                       => f[k + 1] = Decode(rest, spaces)
  <1>1. PICK f : Decodes(f, encoded, spaces) /\ Decode(encoded, spaces) = f[1]
    BY DecodeSolved
  <1>2. Decode(encoded, spaces) = DecodeFrom(f, encoded, spaces, 1)
    <2>1. 1 \in 1 .. Len(encoded) + 1
      BY LenProperties
    <2> QED BY <1>1, <2>1 DEF Decodes
  <1>3. ASSUME NEW rest \in Seq(TargetByte), NEW k \in Nat,
               Len(encoded) = k + Len(rest),
               \A i \in 1 .. Len(rest) : encoded[k + i] = rest[i]
        PROVE  f[k + 1] = Decode(rest, spaces)
    <2>1. PICK g : Decodes(g, rest, spaces) /\ Decode(rest, spaces) = g[1]
      BY DecodeSolved
    <2>2. \A i \in 1 .. Len(rest) + 1 : f[k + i] = g[i]
      BY <1>1, <1>3, <2>1, DecodeRest
    <2>3. 1 \in 1 .. Len(rest) + 1
      BY LenProperties
    <2> QED BY <2>1, <2>2, <2>3
  <1> QED BY <1>2, <1>3

\* A character that begins no escape is read as what it stands for.
LEMMA DecodePlain ==
    ASSUME NEW c \in TargetByte, c # "%", NEW rest \in Seq(TargetByte), NEW spaces
    PROVE  Decode(Cons(c, rest), spaces) = PrependOne(Plain(c, spaces), Decode(rest, spaces))
  <1> DEFINE encoded == Cons(c, rest)
  <1>0. encoded = Cons(c, rest)
    OBVIOUS
  <1> HIDE DEF encoded
  <1>a. /\ encoded \in Seq(TargetByte) /\ Len(encoded) = Len(rest) + 1 /\ Len(rest) \in Nat
        /\ encoded[1] = c /\ \A i \in 1 .. Len(rest) : encoded[i + 1] = rest[i]
    <2>1. encoded \in Seq(TargetByte) /\ IsCons(encoded, c, rest)
      BY <1>0, ConsIs
    <2> QED BY <2>1 DEF IsCons
  <1>1. /\ encoded \in Seq(TargetByte) /\ Len(encoded) = 1 + Len(rest) /\ Len(rest) \in Nat
        /\ encoded[1] = c /\ \A i \in 1 .. Len(rest) : encoded[1 + i] = rest[i]
    <2>1. \A i \in 1 .. Len(rest) : 1 + i = i + 1
      OBVIOUS
    <2> QED BY <1>a, <2>1
  <1>2. PICK f : /\ Decode(encoded, spaces) = DecodeFrom(f, encoded, spaces, 1)
                 /\ \A part \in Seq(TargetByte), k \in Nat :
                       /\ Len(encoded) = k + Len(part)
                       /\ \A i \in 1 .. Len(part) : encoded[k + i] = part[i]
                       => f[k + 1] = Decode(part, spaces)
    BY <1>1, DecodeFirst
  <1>3. f[1 + 1] = Decode(rest, spaces)
    BY <1>1, <1>2
  <1>4. ~ (1 > Len(encoded))
    BY <1>1
  <1> QED BY <1>1, <1>2, <1>3, <1>4 DEF DecodeFrom, encoded

\* An escape is read as its byte.
LEMMA DecodeEscape ==
    ASSUME NEW high \in TargetByte, NEW low \in TargetByte, NEW rest \in Seq(TargetByte), NEW spaces
    PROVE  Decode(Cons("%", Cons(high, Cons(low, rest))), spaces)
             = Prepend(DecodeByte(high, low), Decode(rest, spaces))
  <1> DEFINE part1 == Cons(low, rest)
             part2 == Cons(high, part1)
             encoded == Cons("%", part2)
  <1>0. "%" \in TargetByte
    BY CharTypes
  <1>a. part1 = Cons(low, rest) /\ part2 = Cons(high, part1) /\ encoded = Cons("%", part2)
    OBVIOUS
  <1> HIDE DEF part1, part2, encoded
  <1>1. /\ part1 \in Seq(TargetByte) /\ Len(part1) = Len(rest) + 1 /\ Len(rest) \in Nat
        /\ part1[1] = low /\ \A i \in 1 .. Len(rest) : part1[i + 1] = rest[i]
    <2>1. part1 \in Seq(TargetByte) /\ IsCons(part1, low, rest)
      BY <1>a, ConsIs
    <2> QED BY <2>1 DEF IsCons
  <1>2. /\ part2 \in Seq(TargetByte) /\ Len(part2) = Len(part1) + 1
        /\ part2[1] = high /\ \A i \in 1 .. Len(part1) : part2[i + 1] = part1[i]
    <2>1. part2 \in Seq(TargetByte) /\ IsCons(part2, high, part1)
      BY <1>a, <1>1, ConsIs
    <2> QED BY <2>1 DEF IsCons
  <1>b. /\ encoded \in Seq(TargetByte) /\ Len(encoded) = Len(part2) + 1
        /\ encoded[1] = "%" /\ \A i \in 1 .. Len(part2) : encoded[i + 1] = part2[i]
    <2>1. encoded \in Seq(TargetByte) /\ IsCons(encoded, "%", part2)
      BY <1>0, <1>a, <1>2, ConsIs
    <2> QED BY <2>1 DEF IsCons
  <1>3. /\ encoded \in Seq(TargetByte) /\ Len(encoded) = 3 + Len(rest)
        /\ encoded[1] = "%" /\ \A i \in 1 .. Len(part2) : encoded[i + 1] = part2[i]
    BY <1>1, <1>2, <1>b
  <1>4. encoded[1 + 1] = high /\ encoded[1 + 2] = low
    <2>1. encoded[1 + 1] = part2[1] /\ encoded[2 + 1] = part2[2]
      BY <1>1, <1>2, <1>3
    <2>2. part2[1 + 1] = part1[1]
      BY <1>1, <1>2
    <2> QED BY <1>1, <1>2, <2>1, <2>2
  <1>5. ASSUME NEW i \in 1 .. Len(rest) PROVE encoded[3 + i] = rest[i]
    <2>1. i + 1 \in 1 .. Len(part1) /\ (i + 1) + 1 \in 1 .. Len(part2) /\ ((i + 1) + 1) + 1 = 3 + i
      BY <1>1, <1>2
    <2>2. encoded[((i + 1) + 1) + 1] = part2[(i + 1) + 1]
      BY <1>3, <2>1
    <2>3. part2[(i + 1) + 1] = part1[i + 1]
      BY <1>2, <2>1
    <2> QED BY <1>1, <2>1, <2>2, <2>3
  <1>6. PICK f : /\ Decode(encoded, spaces) = DecodeFrom(f, encoded, spaces, 1)
                 /\ \A part \in Seq(TargetByte), k \in Nat :
                       /\ Len(encoded) = k + Len(part)
                       /\ \A i \in 1 .. Len(part) : encoded[k + i] = part[i]
                       => f[k + 1] = Decode(part, spaces)
    BY <1>3, DecodeFirst
  <1>7. f[3 + 1] = Decode(rest, spaces)
    BY <1>3, <1>5, <1>6
  <1>8. ~ (1 > Len(encoded)) /\ ~ (1 + 2 > Len(encoded)) /\ 3 + 1 = 1 + 3
    BY <1>1, <1>3
  <1>9. Decode(encoded, spaces) = Prepend(DecodeByte(high, low), Decode(rest, spaces))
    BY <1>3, <1>4, <1>6, <1>7, <1>8 DEF DecodeFrom
  <1> QED BY <1>9 DEF encoded, part2, part1

\* A sequence that is not empty has a first element.
LEMMA ConsSplit ==
    ASSUME NEW S, NEW s \in Seq(S), s # << >>
    PROVE  \E c \in S : \E rest \in Seq(S) : s = Cons(c, rest) /\ Len(s) = Len(rest) + 1
  <1> DEFINE rest == Tail(s)
             n == Len(s)
  <1>1. rest \in Seq(S) /\ Len(rest) = n - 1 /\ \A i \in 1 .. Len(rest) : rest[i] = s[i + 1]
    BY HeadTailProperties
  <1>2. n \in Nat /\ n # 0
    BY LenProperties, EmptySeq
  <1>3. s[1] \in S
    BY <1>2, ElementOfSeq
  <1> DEFINE c == s[1]
  <1> HIDE DEF rest, n
  <1>4. Cons(c, rest) \in Seq(S) /\ IsCons(Cons(c, rest), c, rest)
    BY <1>1, <1>3, ConsIs
  <1> DEFINE joined == Cons(c, rest)
  <1>5. joined \in Seq(S) /\ Len(joined) = Len(s)
    BY <1>1, <1>2, <1>4 DEF IsCons, n
  <1>6. \A i \in 1 .. Len(joined) : joined[i] = s[i]
    <2> SUFFICES ASSUME NEW i \in 1 .. Len(joined) PROVE joined[i] = s[i]
      OBVIOUS
    <2> HIDE DEF joined
    <2>1. CASE i = 1
      BY <1>4, <2>1 DEF IsCons, joined
    <2>2. CASE i # 1
      <3>1. i - 1 \in 1 .. Len(rest) /\ (i - 1) + 1 = i
        BY <1>1, <1>2, <1>5, <2>2 DEF n
      <3>2. joined[(i - 1) + 1] = rest[i - 1]
        BY <1>4, <3>1 DEF IsCons, joined
      <3>3. rest[i - 1] = s[(i - 1) + 1]
        BY <1>1, <3>1
      <3> QED BY <3>1, <3>2, <3>3
    <2> QED BY <2>1, <2>2
  <1> HIDE DEF joined
  <1>7. joined = s
    BY <1>5, <1>6, SeqEqual
  <1> HIDE DEF c
  <1>8. c \in S /\ rest \in Seq(S) /\ s = Cons(c, rest) /\ Len(s) = Len(rest) + 1
    BY <1>1, <1>2, <1>3, <1>7 DEF joined, c, n
  <1> QED BY <1>8

\* Decoding yields one string or none.
LEMMA DecodeType ==
    ASSUME NEW spaces, NEW encoded \in Seq(TargetByte)
    PROVE  IsMaybe(Decode(encoded, spaces), Seq(TargetByte))
  <1>1. PICK f : /\ Decode(encoded, spaces) = f[1]
                 /\ \A i \in 1 .. Len(encoded) + 1 : f[i] \in Maybes(Seq(TargetByte))
    BY DecodeSolved
  <1>2. 1 \in 1 .. Len(encoded) + 1
    BY LenProperties
  <1> QED BY <1>1, <1>2, MaybesAre

-----------------------------------------------------------------------------
(* Writing a string character by character. *)

\* What a serializer writes for s, given what it writes for each character.
Spell(unit, s) == FlattenSeq([i \in DOMAIN s |-> unit[s[i]]])

Units == [TargetByte -> Seq(TargetByte)]

\* For nothing, nothing is written.
LEMMA SpellEmpty ==
    ASSUME NEW unit
    PROVE  Spell(unit, << >>) = << >>
  <1>1. [i \in DOMAIN << >> |-> unit[<< >>[i]]] = << >>
    OBVIOUS
  <1> QED BY <1>1, FlattenEmpty DEF Spell

\* r is q with x at the end.
IsAppended(r, q, x) ==
    /\ Len(r) = Len(q) + 1 /\ Len(q) \in Nat
    /\ r[Len(q) + 1] = x
    /\ \A i \in 1 .. Len(q) : r[i] = q[i]

\* Appending does so,
LEMMA AppendedIs ==
    ASSUME NEW S, NEW q \in Seq(S), NEW x \in S
    PROVE  q \o << x >> \in Seq(S) /\ IsAppended(q \o << x >>, q, x)
  <1>1. q \o << x >> = Append(q, x)
    BY AppendIsConcat
  <1>2. Append(q, x) \in Seq(S) /\ IsAppended(Append(q, x), q, x)
    BY AppendProperties, LenProperties DEF IsAppended
  <1> QED BY <1>1, <1>2

\* and nothing else does.
LEMMA AppendedSame ==
    ASSUME NEW S, NEW q \in Seq(S), NEW x \in S, NEW r \in Seq(S), IsAppended(r, q, x)
    PROVE  r = q \o << x >>
  <1> DEFINE joined == q \o << x >>
  <1>1. joined \in Seq(S) /\ IsAppended(joined, q, x)
    BY AppendedIs
  <1> HIDE DEF joined
  <1>2. Len(r) = Len(joined)
    BY <1>1 DEF IsAppended
  <1>3. \A i \in 1 .. Len(r) : r[i] = joined[i]
    <2> SUFFICES ASSUME NEW i \in 1 .. Len(r) PROVE r[i] = joined[i]
      OBVIOUS
    <2>1. CASE i \in 1 .. Len(q)
      BY <1>1, <2>1 DEF IsAppended
    <2>2. CASE i \notin 1 .. Len(q)
      <3>1. i = Len(q) + 1
        BY <2>2 DEF IsAppended
      <3> QED BY <1>1, <3>1 DEF IsAppended
    <2> QED BY <2>1, <2>2
  <1>4. r = joined
    BY <1>1, <1>2, <1>3, SeqEqual
  <1> QED BY <1>4 DEF joined

\* One more character in the string is one more unit in the text.
LEMMA SpellAppend ==
    ASSUME NEW D, NEW T, NEW unit \in [D -> Seq(T)], NEW s \in Seq(D), NEW c \in D
    PROVE  Spell(unit, s \o << c >>) = Spell(unit, s) \o unit[c]
  <1> DEFINE n == Len(s)
             long == s \o << c >>
             q == [i \in DOMAIN s |-> unit[s[i]]]
             r == [i \in DOMAIN long |-> unit[long[i]]]
             x == unit[c]
  <1>1. n \in Nat /\ DOMAIN s = 1 .. n /\ \A i \in 1 .. n : s[i] \in D
    BY LenProperties, ElementOfSeq
  <1>2. long \in Seq(D) /\ IsAppended(long, s, c)
    BY AppendedIs
  <1> HIDE DEF long
  <1>3. /\ Len(long) = n + 1 /\ DOMAIN long = 1 .. n + 1 /\ \A i \in 1 .. n + 1 : long[i] \in D
        /\ long[n + 1] = c /\ \A i \in 1 .. n : long[i] = s[i]
    BY <1>2, LenProperties, ElementOfSeq DEF IsAppended
  <1>4. x \in Seq(T)
    OBVIOUS
  <1>5. q \in Seq(Seq(T)) /\ Len(q) = n /\ \A i \in 1 .. n : q[i] = unit[s[i]]
    <2>1. q \in [1 .. n -> Seq(T)] /\ DOMAIN q = 1 .. n
      BY <1>1
    <2> QED BY <1>1, <2>1, SeqDef
  <1>6. r \in Seq(Seq(T)) /\ Len(r) = n + 1 /\ \A i \in 1 .. n + 1 : r[i] = unit[long[i]]
    <2>1. r \in [1 .. n + 1 -> Seq(T)] /\ DOMAIN r = 1 .. n + 1
      BY <1>3
    <2> QED BY <1>1, <1>3, <2>1, SeqDef
  <1> HIDE DEF q, r, n
  <1>7. IsAppended(r, q, x)
    <2>1. n + 1 \in 1 .. n + 1 /\ \A i \in 1 .. n : i \in 1 .. n + 1
      BY <1>1
    <2> QED BY <1>1, <1>3, <1>5, <1>6, <2>1 DEF IsAppended
  <1> HIDE DEF x
  <1>8. r = q \o << x >>
    BY <1>4, <1>5, <1>6, <1>7, AppendedSame
  <1>9. FlattenSeq(q \o << x >>) = FlattenSeq(q) \o x
    BY <1>4, <1>5, FlattenAppend
  <1> QED BY <1>8, <1>9 DEF Spell, q, r, x, long

\* The text is a sequence of what the units are made of.
LEMMA SpellType ==
    ASSUME NEW D, NEW T, NEW unit \in [D -> Seq(T)], NEW str \in Seq(D)
    PROVE  Spell(unit, str) \in Seq(T)
  <1> DEFINE Q == {s \in Seq(D) : Spell(unit, s) \in Seq(T)}
  <1>1. << >> \in Q
    BY SpellEmpty, EmptySeq
  <1>2. ASSUME NEW s \in Seq(D), NEW c \in D, s \in Q
        PROVE  s \o << c >> \in Q
    <2>1. s \o << c >> \in Seq(D)
      OBVIOUS
    <2>2. unit[c] \in Seq(T)
      OBVIOUS
    <2>3. Spell(unit, s) \o unit[c] \in Seq(T)
      BY <1>2, <2>2, ConcatProperties
    <2>4. Spell(unit, s \o << c >>) = Spell(unit, s) \o unit[c]
      BY SpellAppend
    <2> QED BY <2>1, <2>3, <2>4
  <1> HIDE DEF Q
  <1>3. Seq(D) \subseteq Q
    BY <1>1, <1>2, SeqByAppending
  <1> QED BY <1>3 DEF Q

\* A symbol that is in what is written for no character is not in the text.
LEMMA SpellAvoids ==
    ASSUME NEW unit \in Units, NEW d, \A c \in TargetByte : ~ Contains(unit[c], d),
           NEW str \in Seq(TargetByte)
    PROVE  ~ Contains(Spell(unit, str), d)
  <1> DEFINE T == {s \in Seq(TargetByte) : ~ Contains(Spell(unit, s), d)}
  <1>1. << >> \in T
    <2>1. ~ Contains(<< >>, d)
      BY EmptySeq DEF Contains
    <2> QED BY <2>1, SpellEmpty, EmptySeq
  <1>2. ASSUME NEW s \in Seq(TargetByte), NEW c \in TargetByte, s \in T
        PROVE  s \o << c >> \in T
    <2>1. s \o << c >> \in Seq(TargetByte)
      OBVIOUS
    <2>2. unit[c] \in Seq(TargetByte) /\ Spell(unit, s) \in Seq(TargetByte)
      BY SpellType DEF Units
    <2>3. ~ Contains(Spell(unit, s) \o unit[c], d)
      BY <1>2, <2>2, ContainsConcat
    <2> QED BY <2>1, <2>3, SpellAppend DEF Units
  <1> HIDE DEF T
  <1>3. Seq(TargetByte) \subseteq T
    BY <1>1, <1>2, SeqByAppending
  <1> QED BY <1>3 DEF T

\* Each of the strings behind s.
Ahead(s, rests) == {s \o rest : rest \in rests}

\* What is written for a character is read as this character.
DecodesEach(unit, spaces) ==
    \A c \in TargetByte : \A x \in Seq(TargetByte) :
        Decode(unit[c] \o x, spaces) = PrependOne(c, Decode(x, spaces))

\* Then what is written for a string is read as this string.
LEMMA SpellDecodes ==
    ASSUME NEW unit \in Units, NEW spaces, DecodesEach(unit, spaces), NEW str \in Seq(TargetByte)
    PROVE  Decode(Spell(unit, str), spaces) = {str}
  <1> DEFINE Reads(s) == \A x \in Seq(TargetByte) :
                            Decode(Spell(unit, s) \o x, spaces) = Ahead(s, Decode(x, spaces))
             T == {s \in Seq(TargetByte) : Reads(s)}
  <1>1. << >> \in T
    <2> SUFFICES ASSUME NEW x \in Seq(TargetByte)
                 PROVE  Decode(Spell(unit, << >>) \o x, spaces) = Ahead(<< >>, Decode(x, spaces))
      BY EmptySeq
    <2>1. Spell(unit, << >>) \o x = x
      BY SpellEmpty, ConcatEmptySeq
    <2> DEFINE ys == Decode(x, spaces)
    <2>2. ys \in SUBSET Seq(TargetByte)
      BY DecodeType DEF IsMaybe, Null
    <2> HIDE DEF ys
    <2>3. \A y \in ys : << >> \o y = y
      BY <2>2, ConcatEmptySeq
    <2>4. Ahead(<< >>, ys) = ys
      BY <2>3 DEF Ahead
    <2> QED BY <2>1, <2>4 DEF ys
  <1>2. ASSUME NEW s \in Seq(TargetByte), NEW c \in TargetByte, s \in T
        PROVE  s \o << c >> \in T
    <2> DEFINE end == << c >>
    <2>0. end \in Seq(TargetByte)
      OBVIOUS
    <2> HIDE DEF end
    <2>1. s \o end \in Seq(TargetByte)
      BY <2>0, ConcatProperties
    <2>2. ASSUME NEW x \in Seq(TargetByte)
          PROVE  Decode(Spell(unit, s \o end) \o x, spaces) = Ahead(s \o end, Decode(x, spaces))
      <3> DEFINE ys == Decode(x, spaces)
                 u == unit[c]
                 w == Spell(unit, s)
      <3>1. ys \in SUBSET Seq(TargetByte)
        BY DecodeType DEF IsMaybe, Null
      <3>2. u \in Seq(TargetByte) /\ w \in Seq(TargetByte)
        BY SpellType DEF Units
      <3>3. Spell(unit, s \o end) = w \o u
        BY SpellAppend DEF end, Units
      <3>4. Decode(u \o x, spaces) = PrependOne(c, ys)
        BY DEF DecodesEach
      <3> HIDE DEF ys, u, w
      <3>5. (w \o u) \o x = w \o (u \o x) /\ u \o x \in Seq(TargetByte)
        BY SMTT(30), <3>2, ConcatAssociative, ConcatProperties
      <3>6. Decode(w \o (u \o x), spaces) = Ahead(s, PrependOne(c, ys))
        BY <1>2, <3>4, <3>5 DEF w
      <3>7. Ahead(s, PrependOne(c, ys)) = Ahead(s \o end, ys)
        <4>1. \A y \in ys : s \o Cons(c, y) = (s \o end) \o y
          <5> SUFFICES ASSUME NEW y \in ys PROVE s \o (end \o y) = (s \o end) \o y
            BY DEF Cons, end
          <5>1. y \in Seq(TargetByte)
            BY <3>1
          <5>2. (s \o end) \o y = s \o (end \o y)
            BY SMTT(30), <2>0, <5>1, ConcatAssociative
          <5> QED BY <5>2
        <4> QED BY <4>1, Zenon DEF Ahead, PrependOne
      <3> QED BY <3>3, <3>5, <3>6, <3>7 DEF ys
    <2> QED BY <2>1, <2>2 DEF end
  <1>3. Seq(TargetByte) \subseteq T
    <2> HIDE DEF T
    <2> QED BY <1>1, <1>2, SeqByAppending
  <1> DEFINE none == << >>
             w == Spell(unit, str)
  <1>4. none \in Seq(TargetByte) /\ Decode(none, spaces) = {none} /\ str \o none = str
    BY EmptySeq, DecodeEmpty, ConcatEmptySeq
  <1>5. w \in Seq(TargetByte) /\ w \o none = w
    BY SpellType, ConcatEmptySeq DEF Units
  <1> HIDE DEF none
  <1>6. Decode(w \o none, spaces) = Ahead(str, {none})
    BY <1>3, <1>4
  <1>7. Ahead(str, {none}) = {str}
    BY <1>4 DEF Ahead
  <1> QED BY <1>5, <1>6, <1>7

\* The places of the characters for which three are written.
Wide(unit, s) == {i \in DOMAIN s : Len(unit[s[i]]) = 3}

\* When what is written for a symbol has one character or three, the length
\* is that of the string and two more for each wide symbol.
LEMMA SpellLength ==
    ASSUME NEW unit \in Units, \A c \in TargetByte : Len(unit[c]) \in {1, 3},
           NEW str \in Seq(TargetByte)
    PROVE  /\ IsFiniteSet(Wide(unit, str)) /\ Cardinality(Wide(unit, str)) \in Nat
           /\ Len(Spell(unit, str)) = Len(str) + 2 * Cardinality(Wide(unit, str))
  <1> DEFINE Q(s) == /\ IsFiniteSet(Wide(unit, s)) /\ Cardinality(Wide(unit, s)) \in Nat
                     /\ Len(Spell(unit, s)) = Len(s) + 2 * Cardinality(Wide(unit, s))
             T == {s \in Seq(TargetByte) : Q(s)}
  <1>1. << >> \in T
    <2>1. Wide(unit, << >>) = {}
      BY DEF Wide
    <2> DEFINE none == << >>
    <2>2. Spell(unit, none) = none /\ none \in Seq(TargetByte) /\ Len(none) = 0
      BY SpellEmpty, EmptySeq
    <2>3. IsFiniteSet({}) /\ Cardinality({}) = 0
      BY FS_EmptySet
    <2>4. Wide(unit, none) = {}
      BY <2>1
    <2> HIDE DEF none
    <2>5. Q(none)
      BY <2>2, <2>3, <2>4
    <2> HIDE DEF Q
    <2> QED BY <2>2, <2>5 DEF none
  <1>2. ASSUME NEW s \in Seq(TargetByte), NEW c \in TargetByte, s \in T
        PROVE  s \o << c >> \in T
    <2> DEFINE long == s \o << c >>
               n == Len(s)
               old == Wide(unit, s)
               new == Wide(unit, long)
               w == Spell(unit, s)
    <2>1. long \in Seq(TargetByte) /\ IsAppended(long, s, c)
      BY AppendedIs
    <2> HIDE DEF long
    <2>2. /\ n \in Nat /\ Len(long) = n + 1 /\ DOMAIN long = 1 .. n + 1 /\ DOMAIN s = 1 .. n
          /\ long[n + 1] = c /\ \A i \in 1 .. n : long[i] = s[i]
      BY <2>1, LenProperties DEF IsAppended
    <2>3. Spell(unit, long) = w \o unit[c] /\ w \in Seq(TargetByte) /\ unit[c] \in Seq(TargetByte)
      BY SpellAppend, SpellType DEF long, Units
    <2>4. /\ IsFiniteSet(old) /\ Cardinality(old) \in Nat
          /\ Len(w) = n + 2 * Cardinality(old)
      BY <1>2
    <2>5. Len(Spell(unit, long)) = Len(w) + Len(unit[c])
      BY <2>3, ConcatProperties
    <2> HIDE DEF n, w
    <2>6. \A i : i \in old <=> i \in 1 .. n /\ Len(unit[s[i]]) = 3
      BY <2>2 DEF Wide
    <2>7. \A i : i \in new <=> i \in 1 .. n + 1 /\ Len(unit[long[i]]) = 3
      BY <2>2 DEF Wide
    <2> HIDE DEF old, new
    <2>8. n + 1 \notin old
      BY <2>2, <2>6
    <2>9. \A i : i \in 1 .. n + 1 <=> i \in 1 .. n \/ i = n + 1
      BY <2>2
    <2>10. CASE Len(unit[c]) = 3
      <3>1. new = old \cup {n + 1}
        BY <2>2, <2>6, <2>7, <2>9, <2>10
      <3>2. IsFiniteSet(new) /\ Cardinality(new) = Cardinality(old) + 1
        BY <2>4, <2>8, <3>1, FS_AddElement
      <3>3. Len(Spell(unit, long)) = Len(long) + 2 * Cardinality(new) /\ Cardinality(new) \in Nat
        BY <2>2, <2>4, <2>5, <2>10, <3>2
      <3> QED BY <2>1, <3>2, <3>3 DEF long, new
    <2>11. CASE Len(unit[c]) # 3
      <3>0. \A i : i \in new <=> i \in old
        BY <2>2, <2>6, <2>7, <2>9, <2>11
      <3>1. new = old
        BY <3>0
      <3>2. Len(unit[c]) = 1
        BY <2>11
      <3>3. Len(Spell(unit, long)) = Len(long) + 2 * Cardinality(new) /\ Cardinality(new) \in Nat
        BY <2>2, <2>4, <2>5, <3>1, <3>2
      <3> QED BY <2>1, <2>4, <3>1, <3>3 DEF long, new
    <2> QED BY <2>10, <2>11
  <1>3. Seq(TargetByte) \subseteq T
    <2> HIDE DEF T
    <2> QED BY <1>1, <1>2, SeqByAppending
  <1> QED BY <1>3

-----------------------------------------------------------------------------
(* Paths and queries. *)

\* percent_encode::append writes a percent sign and two digits that are read
\* as the character.
LEMMA EscapeIs ==
    ASSUME NEW c \in TargetByte, c \notin AlphaNum
    PROVE  \E high, low \in AlphaNum : /\ Escape(c) = << "%", high, low >>
                                      /\ DecodeByte(high, low) = {c}
  <1>1. \E n \in 0 .. 255 : CharOf[n] = c
    <2>1. c \in Range(CharOf) /\ DOMAIN CharOf = 0 .. 255
      BY TargetsAssumption DEF TargetByte
    <2> QED BY <2>1 DEF Range
  <1> DEFINE n == Code(c)
  <1>2. n \in 0 .. 255 /\ CharOf[n] = c
    BY <1>1 DEF Code
  <1> DEFINE hi == n \div 16
             lo == n % 16
  <1>3. Escape(c) = << "%", HexChars[hi + 1], HexChars[lo + 1] >>
    BY DEF Escape
  <1> HIDE DEF n
  <1>4. hi \in 0 .. 15 /\ lo \in 0 .. 15 /\ 16 * hi + lo = n
    BY <1>2
  <1> HIDE DEF hi, lo
  <1> DEFINE high == HexChars[hi + 1]
             low == HexChars[lo + 1]
  <1>5. /\ high \in AlphaNum /\ high \in DOMAIN Digit /\ Digit[high] = hi
        /\ low \in AlphaNum /\ low \in DOMAIN Digit /\ Digit[low] = lo
    BY <1>4, TargetsAssumption
  <1>6. DecodeByte(high, low) = {c}
    BY <1>2, <1>4, <1>5 DEF DecodeByte
  <1> QED BY <1>3, <1>5, <1>6

\* An escape is its three symbols in front of what follows.
LEMMA EscapeInFront ==
    ASSUME NEW S, NEW a \in S, NEW b \in S, NEW c \in S, NEW rest \in Seq(S)
    PROVE  << a, b, c >> \o rest = Cons(a, Cons(b, Cons(c, rest)))
  <1>1. << a >> \in Seq(S) /\ << b >> \in Seq(S) /\ << c >> \in Seq(S)
    OBVIOUS
  <1>2. << a, b, c >> = << a >> \o (<< b >> \o << c >>) /\ << b >> \o << c >> \in Seq(S)
    <2>1. << a, b, c >> = << a, b >> \o << c >>
      <3>1. << a, b >> \in Seq(S) /\ << a, b, c >> \in Seq(S) /\ IsAppended(<< a, b, c >>, << a, b >>, c)
        BY DEF IsAppended
      <3> QED BY <3>1, AppendedSame
    <2>2. << a, b >> = << a >> \o << b >>
      <3>1. << a, b >> \in Seq(S) /\ IsAppended(<< a, b >>, << a >>, b)
        BY DEF IsAppended
      <3> QED BY <1>1, <3>1, AppendedSame
    <2>3. (<< a >> \o << b >>) \o << c >> = << a >> \o (<< b >> \o << c >>)
      BY <1>1, ConcatAssociative
    <2>4. << b >> \o << c >> \in Seq(S)
      BY <1>1, ConcatProperties
    <2> QED BY <2>1, <2>2, <2>3, <2>4
  <1> DEFINE x == << a >>
             y == << b >>
             z == << c >>
  <1> HIDE DEF x, y, z
  <1>3. x \in Seq(S) /\ y \in Seq(S) /\ z \in Seq(S) /\ y \o z \in Seq(S)
    BY <1>1, <1>2 DEF x, y, z
  <1>4. (x \o (y \o z)) \o rest = x \o ((y \o z) \o rest)
    BY SMTT(30), <1>3, ConcatAssociative
  <1>5. (y \o z) \o rest = y \o (z \o rest)
    BY SMTT(30), <1>3, ConcatAssociative
  <1> QED BY <1>2, <1>4, <1>5 DEF Cons, x, y, z

PathUnits == [c \in TargetByte |-> IF IsPathSafe(c) THEN << c >> ELSE Escape(c)]

QueryUnits == [c \in TargetByte |-> IF IsUnreserved(c) THEN << c >>
                                    ELSE IF c = " " THEN << "+" >>
                                    ELSE Escape(c)]

\* What an escape is to the proofs about units.
LEMMA EscapeUnit ==
    ASSUME NEW c \in TargetByte, c \notin AlphaNum
    PROVE  /\ Escape(c) \in Seq(TargetByte) /\ Len(Escape(c)) = 3
           /\ \A d : d # "%" /\ d \notin AlphaNum => ~ Contains(Escape(c), d)
           /\ \A x \in Seq(TargetByte) : \A spaces :
                 Decode(Escape(c) \o x, spaces) = PrependOne(c, Decode(x, spaces))
  <1>1. PICK high \in AlphaNum, low \in AlphaNum :
            Escape(c) = << "%", high, low >> /\ DecodeByte(high, low) = {c}
    BY EscapeIs
  <1>2. "%" \in TargetByte /\ high \in TargetByte /\ low \in TargetByte
    BY CharTypes DEF TargetByte
  <1>3. << "%", high, low >> \in Seq(TargetByte) /\ Len(<< "%", high, low >>) = 3
    BY <1>2
  <1>4. \A d : d # "%" /\ d \notin AlphaNum => ~ Contains(<< "%", high, low >>, d)
    BY DEF Contains
  <1>5. ASSUME NEW x \in Seq(TargetByte), NEW spaces
        PROVE  Decode(Escape(c) \o x, spaces) = PrependOne(c, Decode(x, spaces))
    <2>1. Escape(c) \o x = Cons("%", Cons(high, Cons(low, x)))
      BY <1>1, <1>2, EscapeInFront
    <2>2. Decode(Escape(c) \o x, spaces) = Prepend({c}, Decode(x, spaces))
      <3>1. DecodeByte(high, low) = {c}
        BY <1>1
      <3>2. Decode(Cons("%", Cons(high, Cons(low, x))), spaces) = Prepend(DecodeByte(high, low), Decode(x, spaces))
        BY <1>2, DecodeEscape
      <3> QED BY <2>1, <3>1, <3>2
    <2>3. Prepend({c}, Decode(x, spaces)) = PrependOne(c, Decode(x, spaces))
      <3> DEFINE ys == Decode(x, spaces)
      <3> HIDE DEF ys
      <3>1. ASSUME NEW z
            PROVE  z \in Prepend({c}, ys) <=> \E d \in {c} : \E rest \in ys : z = Cons(d, rest)
        BY SMT DEF Prepend
      <3>3. \A z : z \in PrependOne(c, ys) <=> \E rest \in ys : z = Cons(c, rest)
        BY DEF PrependOne
      <3>4. \A z : z \in Prepend({c}, ys) <=> z \in PrependOne(c, ys)
        BY <3>1, <3>3, Zenon
      <3>2. Prepend({c}, ys) = PrependOne(c, ys)
        BY <3>4
      <3> QED BY <3>2 DEF ys
    <2> QED BY <2>2, <2>3
  <1> QED BY <1>1, <1>3, <1>4, <1>5

\* A character that is written as another one, or as itself.
LEMMA PlainUnit ==
    ASSUME NEW c \in TargetByte
    PROVE  /\ << c >> \in Seq(TargetByte) /\ Len(<< c >>) = 1
           /\ \A d : d # c => ~ Contains(<< c >>, d)
           /\ \A x \in Seq(TargetByte) : \A spaces : c # "%" =>
                 Decode(<< c >> \o x, spaces) = PrependOne(Plain(c, spaces), Decode(x, spaces))
  <1>1. << c >> \in Seq(TargetByte) /\ Len(<< c >>) = 1
    OBVIOUS
  <1>2. \A d : d # c => ~ Contains(<< c >>, d)
    BY DEF Contains
  <1>3. \A x \in Seq(TargetByte) : \A spaces : c # "%" =>
            Decode(Cons(c, x), spaces) = PrependOne(Plain(c, spaces), Decode(x, spaces))
    BY DecodePlain
  <1> QED BY <1>1, <1>2, <1>3 DEF Cons

\* The characters that stand for themselves are no delimiters.
LEMMA SafeChars ==
    /\ \A c \in AlphaNum : c \notin {" ", "%", "+", "/", ":", "?", "&", "=", "*", "CR", "LF"}
    /\ \A c : IsPathSafe(c) => c \notin {"%", "?", " ", "CR", "LF"}
    /\ \A c : IsUnreserved(c) => c \notin {"%", "?", "&", "=", "+", " ", "CR", "LF", "/"}
    /\ \A c : IsUnreserved(c) => IsPathSafe(c)
    /\ \A c \in AlphaNum : IsUnreserved(c)
    /\ IsPathSafe("/")
  <1>1. \A c \in AlphaNum : c \notin {" ", "%", "+", "/", ":", "?", "&", "=", "*", "CR", "LF"}
    <2>1. {" ", "%", "+", "/", ":", "?", "&", "=", "*"} \cap AlphaNum = {}
      <3>1. {" ", "%", "+", "/", ":", "?", "&", "=", "*"} \subseteq Range(CharOf) \ AlphaNum
        BY TargetsAssumption, Zenon
      <3> QED BY <3>1
    <2>2. {"CR", "LF"} \cap AlphaNum = {}
      BY TargetsAssumption, Zenon
    <2> QED BY <2>1, <2>2
  <1> QED BY <1>1 DEF IsPathSafe, IsUnreserved

\* Both ways of writing a string are units.
LEMMA UnitsTyped == PathUnits \in Units /\ QueryUnits \in Units
  <1>1. ASSUME NEW c \in TargetByte PROVE PathUnits[c] \in Seq(TargetByte)
    <2>1. CASE IsPathSafe(c)
      BY <2>1, PlainUnit DEF PathUnits
    <2>2. CASE ~ IsPathSafe(c)
      <3>1. c \notin AlphaNum
        BY <2>2, SafeChars
      <3> QED BY <2>2, <3>1, EscapeUnit DEF PathUnits
    <2> QED BY <2>1, <2>2
  <1>2. ASSUME NEW c \in TargetByte PROVE QueryUnits[c] \in Seq(TargetByte)
    <2>1. CASE IsUnreserved(c)
      BY <2>1, PlainUnit DEF QueryUnits
    <2>2. CASE ~ IsUnreserved(c) /\ c = " "
      <3>1. "+" \in TargetByte
        BY CharTypes
      <3> QED BY <2>2, <3>1, PlainUnit DEF QueryUnits
    <2>3. CASE ~ IsUnreserved(c) /\ c # " "
      <3>1. c \notin AlphaNum
        BY <2>3, SafeChars
      <3> QED BY <2>3, <3>1, EscapeUnit DEF QueryUnits
    <2> QED BY <2>1, <2>2, <2>3
  <1> QED BY <1>1, <1>2 DEF Units, PathUnits, QueryUnits

\* A character of a path is read as it was written.
LEMMA PathDecodes == DecodesEach(PathUnits, {})
  <1> SUFFICES ASSUME NEW c \in TargetByte, NEW x \in Seq(TargetByte)
               PROVE  Decode(PathUnits[c] \o x, {}) = PrependOne(c, Decode(x, {}))
    BY DEF DecodesEach
  <1>1. CASE IsPathSafe(c)
    <2>1. PathUnits[c] = << c >>
      BY <1>1 DEF PathUnits
    <2>2. c # "%"
      BY <1>1, SafeChars
    <2>3. Decode(<< c >> \o x, {}) = PrependOne(Plain(c, {}), Decode(x, {}))
      BY <2>2, PlainUnit
    <2>4. Plain(c, {}) = c
      BY DEF Plain
    <2> QED BY <2>1, <2>3, <2>4
  <1>2. CASE ~ IsPathSafe(c)
    <2>1. PathUnits[c] = Escape(c)
      BY <1>2 DEF PathUnits
    <2>2. c \notin AlphaNum
      BY <1>2, SafeChars
    <2> QED BY <2>1, <2>2, EscapeUnit
  <1> QED BY <1>1, <1>2

\* And so is a character of a part of a query.
LEMMA QueryDecodes == DecodesEach(QueryUnits, {"+"})
  <1> SUFFICES ASSUME NEW c \in TargetByte, NEW x \in Seq(TargetByte)
               PROVE  Decode(QueryUnits[c] \o x, {"+"}) = PrependOne(c, Decode(x, {"+"}))
    BY DEF DecodesEach
  <1>1. CASE IsUnreserved(c)
    <2>1. QueryUnits[c] = << c >>
      BY <1>1 DEF QueryUnits
    <2>2. c # "%" /\ c # "+"
      BY <1>1, SafeChars
    <2>3. Decode(<< c >> \o x, {"+"}) = PrependOne(Plain(c, {"+"}), Decode(x, {"+"}))
      BY <2>2, PlainUnit
    <2>4. Plain(c, {"+"}) = c
      BY <2>2 DEF Plain
    <2> QED BY <2>1, <2>3, <2>4
  <1>2. CASE ~ IsUnreserved(c) /\ c = " "
    <2>1. QueryUnits[c] = << "+" >>
      BY <1>2 DEF QueryUnits
    <2>2. "+" \in TargetByte
      BY CharTypes
    <2>3. Decode(<< "+" >> \o x, {"+"}) = PrependOne(Plain("+", {"+"}), Decode(x, {"+"}))
      BY <2>2, PlainUnit
    <2>4. Plain("+", {"+"}) = c
      BY <1>2 DEF Plain
    <2> QED BY <2>1, <2>3, <2>4
  <1>3. CASE ~ IsUnreserved(c) /\ c # " "
    <2>1. QueryUnits[c] = Escape(c)
      BY <1>3 DEF QueryUnits
    <2>2. c \notin AlphaNum
      BY <1>3, SafeChars
    <2> QED BY <2>1, <2>2, EscapeUnit
  <1> QED BY <1>1, <1>2, <1>3

\* A path as text is one token before the query, and read as it is.
LEMMA PathText ==
    ASSUME NEW path \in Seq(TargetByte)
    PROVE  /\ SerializePath(path) = Spell(PathUnits, path)
           /\ SerializePath(path) \in Seq(TargetByte)
           /\ DecodeStr(SerializePath(path)) = {path}
           /\ \A d \in {" ", "CR", "LF", "?"} : ~ Contains(SerializePath(path), d)
  <1>1. SerializePath(path) = Spell(PathUnits, path)
    <2>1. \A i \in DOMAIN path : path[i] \in TargetByte
      BY ElementOfSeq
    <2>2. \A i \in DOMAIN path :
              (IF IsPathSafe(path[i]) THEN << path[i] >> ELSE Escape(path[i])) = PathUnits[path[i]]
      BY <2>1 DEF PathUnits
    <2>3. [i \in DOMAIN path |-> IF IsPathSafe(path[i]) THEN << path[i] >> ELSE Escape(path[i])]
            = [i \in DOMAIN path |-> PathUnits[path[i]]]
      BY <2>2
    <2> QED BY <2>3 DEF SerializePath, Spell
  <1>2. Spell(PathUnits, path) \in Seq(TargetByte)
    BY UnitsTyped, SpellType DEF Units
  <1>3. Decode(Spell(PathUnits, path), {}) = {path}
    BY UnitsTyped, PathDecodes, SpellDecodes
  <1>4. ASSUME NEW d \in {" ", "CR", "LF", "?"} PROVE ~ Contains(Spell(PathUnits, path), d)
    <2>1. ASSUME NEW c \in TargetByte PROVE ~ Contains(PathUnits[c], d)
      <3>1. CASE IsPathSafe(c)
        <4>1. d # c
          BY <3>1, SafeChars
        <4> QED BY <3>1, <4>1, PlainUnit DEF PathUnits
      <3>2. CASE ~ IsPathSafe(c)
        <4>1. c \notin AlphaNum /\ d \notin AlphaNum /\ d # "%"
          BY <3>2, SafeChars
        <4> QED BY <3>2, <4>1, EscapeUnit DEF PathUnits
      <3> QED BY <3>1, <3>2
    <2> QED BY <2>1, UnitsTyped, SpellAvoids
  <1> QED BY <1>1, <1>2, <1>3, <1>4 DEF DecodeStr

\* A key or a value as text has no delimiter of the query, and is read as it is.
LEMMA PartText ==
    ASSUME NEW str \in Seq(TargetByte)
    PROVE  /\ SerializeQueryPart(str) = Spell(QueryUnits, str)
           /\ SerializeQueryPart(str) \in Seq(TargetByte)
           /\ DecodeQueryPart(SerializeQueryPart(str)) = {str}
           /\ \A d \in {" ", "CR", "LF", "&", "="} : ~ Contains(SerializeQueryPart(str), d)
  <1>1. SerializeQueryPart(str) = Spell(QueryUnits, str)
    <2>1. \A i \in DOMAIN str : str[i] \in TargetByte
      BY ElementOfSeq
    <2>2. \A i \in DOMAIN str :
              (IF IsUnreserved(str[i]) THEN << str[i] >>
               ELSE IF str[i] = " " THEN << "+" >> ELSE Escape(str[i])) = QueryUnits[str[i]]
      BY <2>1 DEF QueryUnits
    <2>3. [i \in DOMAIN str |-> IF IsUnreserved(str[i]) THEN << str[i] >>
                                ELSE IF str[i] = " " THEN << "+" >> ELSE Escape(str[i])]
            = [i \in DOMAIN str |-> QueryUnits[str[i]]]
      BY <2>2
    <2> QED BY <2>3 DEF SerializeQueryPart, Spell
  <1>2. Spell(QueryUnits, str) \in Seq(TargetByte)
    BY UnitsTyped, SpellType DEF Units
  <1>3. Decode(Spell(QueryUnits, str), {"+"}) = {str}
    BY UnitsTyped, QueryDecodes, SpellDecodes
  <1>4. ASSUME NEW d \in {" ", "CR", "LF", "&", "="} PROVE ~ Contains(Spell(QueryUnits, str), d)
    <2>1. ASSUME NEW c \in TargetByte PROVE ~ Contains(QueryUnits[c], d)
      <3>1. CASE IsUnreserved(c)
        <4>1. d # c
          BY <3>1, SafeChars
        <4> QED BY <3>1, <4>1, PlainUnit DEF QueryUnits
      <3>2. CASE ~ IsUnreserved(c) /\ c = " "
        <4>1. d # "+" /\ "+" \in TargetByte
          BY CharTypes
        <4> QED BY <3>2, <4>1, PlainUnit DEF QueryUnits
      <3>3. CASE ~ IsUnreserved(c) /\ c # " "
        <4>1. c \notin AlphaNum /\ d \notin AlphaNum /\ d # "%"
          BY <3>3, SafeChars
        <4> QED BY <3>3, <4>1, EscapeUnit DEF QueryUnits
      <3> QED BY <3>1, <3>2, <3>3
    <2> QED BY <2>1, UnitsTyped, SpellAvoids
  <1> QED BY <1>1, <1>2, <1>3, <1>4 DEF DecodeQueryPart

\* The text of a path or part takes the space that is reserved for it.
LEMMA SizesOfParts ==
    ASSUME NEW str \in Seq(TargetByte)
    PROVE  /\ PathSize(str) = Len(SerializePath(str)) /\ PathSize(str) \in Nat
           /\ QueryPartSize(str) = Len(SerializeQueryPart(str)) /\ QueryPartSize(str) \in Nat
  <1>1. \A i \in DOMAIN str : str[i] \in TargetByte
    BY ElementOfSeq
  <1>2. ASSUME NEW c \in TargetByte
        PROVE  /\ Len(PathUnits[c]) = IF IsPathSafe(c) THEN 1 ELSE 3
               /\ Len(QueryUnits[c]) = IF ~ IsUnreserved(c) /\ c # " " THEN 3 ELSE 1
    <2>1. Len(PathUnits[c]) = IF IsPathSafe(c) THEN 1 ELSE 3
      <3>1. CASE IsPathSafe(c)
        BY <3>1, PlainUnit DEF PathUnits
      <3>2. CASE ~ IsPathSafe(c)
        <4>1. c \notin AlphaNum
          BY <3>2, SafeChars
        <4> QED BY <3>2, <4>1, EscapeUnit DEF PathUnits
      <3> QED BY <3>1, <3>2
    <2>2. Len(QueryUnits[c]) = IF ~ IsUnreserved(c) /\ c # " " THEN 3 ELSE 1
      <3>1. CASE IsUnreserved(c)
        BY <3>1, PlainUnit DEF QueryUnits
      <3>2. CASE ~ IsUnreserved(c) /\ c = " "
        <4>1. Len(<< "+" >>) = 1
          OBVIOUS
        <4> QED BY <3>2, <4>1 DEF QueryUnits
      <3>3. CASE ~ IsUnreserved(c) /\ c # " "
        <4>1. c \notin AlphaNum
          BY <3>3, SafeChars
        <4> QED BY <3>3, <4>1, EscapeUnit DEF QueryUnits
      <3> QED BY <3>1, <3>2, <3>3
    <2> QED BY <2>1, <2>2
  <1>3. PathSize(str) = Len(Spell(PathUnits, str)) /\ PathSize(str) \in Nat
    <2> DEFINE wide == {i \in DOMAIN str : ~ IsPathSafe(str[i])}
    <2>1. Wide(PathUnits, str) = wide
      <3>1. ASSUME NEW i \in DOMAIN str PROVE Len(PathUnits[str[i]]) = 3 <=> ~ IsPathSafe(str[i])
        <4> DEFINE c == str[i]
        <4>1. c \in TargetByte
          BY <1>1
        <4> HIDE DEF c
        <4>2. Len(PathUnits[c]) = IF IsPathSafe(c) THEN 1 ELSE 3
          BY <1>2, <4>1
        <4>3. CASE IsPathSafe(c)
          BY <4>2, <4>3 DEF c
        <4>4. CASE ~ IsPathSafe(c)
          BY <4>2, <4>4 DEF c
        <4> QED BY <4>3, <4>4
      <3>2. Wide(PathUnits, str) = {i \in DOMAIN str : Len(PathUnits[str[i]]) = 3}
        BY DEF Wide
      <3> QED BY <3>1, <3>2
    <2>2. PathSize(str) = Len(str) + 2 * Cardinality(wide)
      BY DEF PathSize, Quantify
    <2>3. /\ Cardinality(Wide(PathUnits, str)) \in Nat
          /\ Len(Spell(PathUnits, str)) = Len(str) + 2 * Cardinality(Wide(PathUnits, str))
      BY <1>2, UnitsTyped, SpellLength
    <2>4. Len(str) \in Nat
      BY LenProperties
    <2> HIDE DEF wide
    <2> QED BY <2>1, <2>2, <2>3, <2>4
  <1>4. QueryPartSize(str) = Len(Spell(QueryUnits, str)) /\ QueryPartSize(str) \in Nat
    <2> DEFINE wide == {i \in DOMAIN str : ~ IsUnreserved(str[i]) /\ str[i] # " "}
    <2>1. Wide(QueryUnits, str) = wide
      <3>1. ASSUME NEW i \in DOMAIN str PROVE Len(QueryUnits[str[i]]) = 3 <=> ~ IsUnreserved(str[i]) /\ str[i] # " "
        <4> DEFINE c == str[i]
        <4>1. c \in TargetByte
          BY <1>1
        <4> HIDE DEF c
        <4>2. Len(QueryUnits[c]) = IF ~ IsUnreserved(c) /\ c # " " THEN 3 ELSE 1
          BY <1>2, <4>1
        <4>3. CASE ~ IsUnreserved(c) /\ c # " "
          BY <4>2, <4>3 DEF c
        <4>4. CASE ~ (~ IsUnreserved(c) /\ c # " ")
          <5>1. Len(QueryUnits[c]) = 1
            BY <4>2, <4>4
          <5>2. ~ (Len(QueryUnits[c]) = 3)
            BY <5>1
          <5> QED BY <4>4, <5>2, Zenon DEF c
        <4> QED BY <4>3, <4>4
      <3>2. Wide(QueryUnits, str) = {i \in DOMAIN str : Len(QueryUnits[str[i]]) = 3}
        BY DEF Wide
      <3> QED BY <3>1, <3>2
    <2>2. QueryPartSize(str) = Len(str) + 2 * Cardinality(wide)
      BY DEF QueryPartSize, Quantify
    <2>3. /\ Cardinality(Wide(QueryUnits, str)) \in Nat
          /\ Len(Spell(QueryUnits, str)) = Len(str) + 2 * Cardinality(Wide(QueryUnits, str))
      BY <1>2, UnitsTyped, SpellLength
    <2>4. Len(str) \in Nat
      BY LenProperties
    <2> HIDE DEF wide
    <2> QED BY <2>1, <2>2, <2>3, <2>4
  <1> QED BY <1>3, <1>4, PathText, PartText

-----------------------------------------------------------------------------
(* The pairs of a query. *)

\* The first pair of what is at i and behind it.
FirstPair(str, i) == TryFindSplitUnlimited(SubSeq(str, i, Len(str)), << "&" >>).head

\* What is read from position i on, when f is what is read from later ones.
QueryFrom(f, str, i) ==
    IF i > Len(str) THEN {<< >>}
    ELSE IF FirstPair(str, i) = << >> THEN f[i + 1]
    ELSE Prepend(DeserializePair(FirstPair(str, i)), f[i + Len(FirstPair(str, i)) + 1])

ReadsQuery(f, str) == \A i \in 1 .. Len(str) + 2 : f[i] = QueryFrom(f, str, i)

\* A pair ends inside of the string.
LEMMA PairEnds ==
    ASSUME NEW S, "&" \in S, NEW str \in Seq(S), NEW i \in 1 .. Len(str)
    PROVE  /\ FirstPair(str, i) \in Seq(S)
           /\ Len(FirstPair(str, i)) \in 0 .. Len(str) + 1 - i
  <1> DEFINE rest == SubSeq(str, i, Len(str))
             delim == << "&" >>
             found == TryFindUnlimited(rest, delim)
  <1>1. rest \in Seq(S) /\ Len(rest) = Len(str) + 1 - i /\ Len(str) \in Nat
    <2>1. i - 1 \in 0 .. Len(str) /\ (i - 1) + 1 = i /\ Len(str) - (i - 1) = Len(str) + 1 - i /\ Len(str) \in Nat
      BY LenProperties
    <2> DEFINE a == i - 1
    <2> HIDE DEF a
    <2>2. SubSeq(str, a + 1, Len(str)) \in Seq(S) /\ Len(SubSeq(str, a + 1, Len(str))) = Len(str) - a
      BY <2>1, FrontAndRest DEF a
    <2> QED BY <2>1, <2>2 DEF a
  <1>2. delim \in Seq(S) /\ Len(delim) = 1
    OBVIOUS
  <1> HIDE DEF rest, delim
  <1>3. \/ /\ found.error = "NONE" /\ found.value \in Seq(S) /\ found.offset \in 0 .. Len(rest)
           /\ found.offset = Len(found.value) + Len(delim)
        \/ found = NotFound("NOT_FOUND")
    <2> HIDE DEF found
    <2>1. found = TryFindUnlimited(rest, delim)
      BY DEF found
    <2> QED BY ZenonT(60), <1>1, <1>2, <2>1, FindUnlimited
  <1>4. CASE found.error = "NONE" /\ found # NotFound("NOT_FOUND")
    <2>1. FirstPair(str, i) = found.value
      BY <1>4 DEF FirstPair, TryFindSplitUnlimited, rest, delim
    <2>2. Len(found.value) \in Nat
      BY <1>3, <1>4, LenProperties
    <2> QED BY <1>1, <1>2, <1>3, <1>4, <2>1, <2>2
  <1>5. CASE found = NotFound("NOT_FOUND")
    <2>1. FirstPair(str, i) = rest
      BY <1>5 DEF FirstPair, TryFindSplitUnlimited, NotFound, rest, delim
    <2> QED BY <1>1, <2>1, LenProperties
  <1> QED BY <1>3, <1>4, <1>5

\* f is g, k places further on.
SameFrom(f, k, g, n) == \A i \in 1 .. n : f[k + i] = g[i]

\* What is read from a position on depends on the rest of the string only.
LEMMA QueryRest ==
    ASSUME NEW S, "&" \in S, NEW str \in Seq(S), NEW k \in 0 .. Len(str),
           NEW rest, rest = SubSeq(str, k + 1, Len(str)),
           NEW f, ReadsQuery(f, str), NEW g, ReadsQuery(g, rest)
    PROVE  SameFrom(f, k, g, Len(rest) + 2)
  <1> DEFINE n == Len(rest)
             P == {d \in Nat : \A i \in 1 .. n + 2 : n + 2 <= i + d => f[k + i] = g[i]}
  <1>0. n \in Nat /\ Len(str) = k + n /\ k \in Nat /\ rest \in Seq(S)
    BY FrontAndRest, LenProperties
  <1>1. ASSUME NEW i \in 1 .. n + 2,
               \A j \in 1 .. n + 2 : i < j => f[k + j] = g[j]
        PROVE  f[k + i] = g[i]
    <2> DEFINE j == k + i
    <2>1. /\ j \in 1 .. Len(str) + 2
          /\ i > n <=> j > Len(str)
      BY <1>0
    <2>2. f[j] = QueryFrom(f, str, j) /\ g[i] = QueryFrom(g, rest, i)
      BY <2>1 DEF ReadsQuery
    <2>3. CASE i > n
      BY <2>1, <2>2, <2>3 DEF QueryFrom
    <2>4. CASE i <= n
      <3> DEFINE p == FirstPair(rest, i)
      <3>1. FirstPair(str, j) = p
        <4>1. SubSeq(rest, (i - 1) + 1, n) = SubSeq(str, k + (i - 1) + 1, Len(str))
          <5>1. Len(str) \in 0 .. Len(str) /\ i - 1 \in 0 .. Len(str) - k /\ n = Len(str) - k /\ k \in 0 .. Len(str)
            BY <1>0, <2>4
          <5>2. SubSeq(SubSeq(str, k + 1, Len(str)), (i - 1) + 1, Len(str) - k) = SubSeq(str, k + (i - 1) + 1, Len(str))
            BY <5>1, PieceShrinks
          <5> QED BY <5>1, <5>2
        <4>2. (i - 1) + 1 = i /\ k + (i - 1) + 1 = j
          BY <1>0
        <4> QED BY <4>1, <4>2 DEF FirstPair
      <3>2. Len(p) \in 0 .. n + 1 - i
        <4>1. i \in 1 .. Len(rest)
          BY <1>0, <2>4
        <4>2. Len(FirstPair(rest, i)) \in 0 .. Len(rest) + 1 - i
          BY <1>0, <4>1, PairEnds
        <4> QED BY <4>2
      <3> DEFINE m == Len(p)
      <3>3. /\ i + 1 \in 1 .. n + 2 /\ i < i + 1 /\ k + (i + 1) = j + 1
            /\ i + m + 1 \in 1 .. n + 2 /\ i < i + m + 1 /\ k + (i + m + 1) = j + m + 1
        BY <1>0, <2>4, <3>2
      <3>4. f[j + 1] = g[i + 1]
        BY <1>1, <3>3
      <3>5. f[j + m + 1] = g[i + m + 1]
        BY <1>1, <3>3
      <3> HIDE DEF j, p
      <3>6. ~ (i > n) /\ ~ (j > Len(str))
        BY <1>0, <2>1, <2>4
      <3>7. QueryFrom(f, str, j) = IF p = << >> THEN f[j + 1] ELSE Prepend(DeserializePair(p), f[j + m + 1])
        BY <3>1, <3>6 DEF QueryFrom
      <3>8. QueryFrom(g, rest, i) = IF p = << >> THEN g[i + 1] ELSE Prepend(DeserializePair(p), g[i + m + 1])
        BY <3>6 DEF QueryFrom, p
      <3>9. f[j] = g[i]
        BY <2>2, <3>4, <3>5, <3>7, <3>8
      <3> QED BY <3>9 DEF j
    <2> QED BY <1>0, <2>3, <2>4
  <1>2. 0 \in P
    <2> SUFFICES ASSUME NEW i \in 1 .. n + 2, n + 2 <= i + 0 PROVE f[k + i] = g[i]
      OBVIOUS
    <2>1. \A j \in 1 .. n + 2 : ~ (i < j)
      BY <1>0
    <2> QED BY <1>1, <2>1
  <1>3. ASSUME NEW d \in Nat, d \in P PROVE d + 1 \in P
    <2> SUFFICES ASSUME NEW i \in 1 .. n + 2, n + 2 <= i + (d + 1) PROVE f[k + i] = g[i]
      OBVIOUS
    <2>1. \A j \in 1 .. n + 2 : i < j => n + 2 <= j + d
      BY <1>0
    <2>2. \A j \in 1 .. n + 2 : i < j => f[k + j] = g[j]
      BY <1>3, <2>1
    <2> QED BY <1>1, <2>2
  <1>4. Nat \subseteq P
    <2> HIDE DEF P
    <2> QED BY <1>2, <1>3, NatByInduction
  <1>5. ASSUME NEW i \in 1 .. n + 2 PROVE f[k + i] = g[i]
    <2>1. n + 2 \in Nat /\ n + 2 <= i + (n + 2)
      BY <1>0
    <2>2. n + 2 \in P
      BY <1>4, <2>1
    <2> QED BY <2>1, <2>2
  <1> QED BY <1>5 DEF SameFrom

\* A pair has one key and one value, or none.
LEMMA PairType ==
    ASSUME NEW pair \in Seq(TargetByte)
    PROVE  IsMaybe(DeserializePair(pair), Param)
  <1> DEFINE split == TryFindSplitUnlimited(pair, << "=" >>)
             keys == DecodeQueryPart(split.head)
             values == DecodeQueryPart(split.tail)
  <1>1. split.head \in Seq(TargetByte) /\ split.tail \in Seq(TargetByte)
    <2>1. << "=" >> \in Seq(TargetByte)
      <3>1. "=" \in TargetByte
        BY CharTypes
      <3> QED BY <3>1, PlainUnit
    <2> QED BY <2>1, SplitType
  <1>2. IsMaybe(keys, Seq(TargetByte)) /\ IsMaybe(values, Seq(TargetByte))
    BY <1>1, DecodeType DEF DecodeQueryPart
  <1>3. DeserializePair(pair) = {[key |-> key, value |-> value] : key \in keys, value \in values}
    BY DEF DeserializePair
  <1> HIDE DEF keys, values
  <1>4. CASE keys = Null \/ values = Null
    BY <1>3, <1>4 DEF IsMaybe, Null
  <1>5. CASE keys # Null /\ values # Null
    <2>1. PICK key \in Seq(TargetByte), value \in Seq(TargetByte) : keys = {key} /\ values = {value}
      BY <1>2, <1>5 DEF IsMaybe
    <2>2. DeserializePair(pair) = {[key |-> key, value |-> value]}
      BY <1>3, <2>1
    <2>3. [key |-> key, value |-> value] \in Param
      BY DEF Param
    <2> QED BY <2>2, <2>3 DEF IsMaybe
  <1> QED BY <1>4, <1>5

\* DeserializeQuery is the value of such a function.
LEMMA QuerySolved ==
    ASSUME NEW str \in Seq(TargetByte)
    PROVE  \E f : /\ ReadsQuery(f, str)
                 /\ DeserializeQuery(str) = f[1]
                 /\ \A i \in 1 .. Len(str) + 2 : f[i] \in Maybes(Seq(Param))
  <1> DEFINE L == Len(str)
             N == L + 2
             V == Maybes(Seq(Param))
             step == [f \in [1 .. N -> V] |-> [i \in 1 .. N |-> QueryFrom(f, str, i)]]
             chosen == CHOOSE f : f = [i \in 1 .. N |-> QueryFrom(f, str, i)]
  <1>0. L \in Nat /\ N \in Nat /\ V # {}
    <2>1. Null \in V
      BY DEF Maybes
    <2>2. L \in Nat
      BY LenProperties
    <2> HIDE DEF V
    <2> QED BY <2>1, <2>2
  <1>1. ASSUME NEW i \in 1 .. L
        PROVE  /\ FirstPair(str, i) \in Seq(TargetByte)
               /\ i + 1 \in i + 1 .. N
               /\ i + Len(FirstPair(str, i)) + 1 \in i + 1 .. N
    <2>1. "&" \in TargetByte
      BY CharTypes
    <2>2. FirstPair(str, i) \in Seq(TargetByte) /\ Len(FirstPair(str, i)) \in 0 .. L + 1 - i
      BY <2>1, PairEnds
    <2> QED BY <1>0, <2>2
  <1>2. ASSUME NEW f \in [1 .. N -> V], NEW i \in 1 .. N
        PROVE  QueryFrom(f, str, i) \in V
    <2>1. CASE i > L
      <3>1. {<< >>} \in V
        BY EmptySeq DEF Maybes
      <3> QED BY <2>1, <3>1 DEF QueryFrom
    <2>2. CASE i <= L
      <3> DEFINE p == FirstPair(str, i)
                 next == i + Len(p) + 1
      <3>1. p \in Seq(TargetByte) /\ i + 1 \in 1 .. N /\ next \in 1 .. N
        BY <1>0, <1>1, <2>2
      <3> HIDE DEF V, next
      <3>2. f[i + 1] \in V /\ f[next] \in V
        BY <3>1
      <3>3. Prepend(DeserializePair(p), f[next]) \in V
        BY <3>1, <3>2, PairType, PrependMaybe, MaybesAre DEF V
      <3>4. ~ (i > L)
        BY <1>0, <2>2
      <3> QED BY <3>2, <3>3, <3>4 DEF QueryFrom, next
    <2> QED BY <1>0, <2>1, <2>2
  <1> HIDE DEF V
  <1>3. step \in [[1 .. N -> V] -> [1 .. N -> V]]
    <2>1. \A f \in [1 .. N -> V] : [i \in 1 .. N |-> QueryFrom(f, str, i)] \in [1 .. N -> V]
      BY <1>2
    <2> QED BY <2>1
  <1>4. \A f \in [1 .. N -> V] : \A i \in 1 .. N : step[f][i] = QueryFrom(f, str, i)
    OBVIOUS
  <1> HIDE DEF step
  <1>5. ASSUME NEW f \in [1 .. N -> V], NEW g \in [1 .. N -> V], NEW i \in 1 .. N,
               \A j \in i + 1 .. N : f[j] = g[j]
        PROVE  QueryFrom(f, str, i) = QueryFrom(g, str, i)
    <2>1. ~ (i > L) => f[i + 1] = g[i + 1] /\ f[i + Len(FirstPair(str, i)) + 1] = g[i + Len(FirstPair(str, i)) + 1]
      BY <1>0, <1>1, <1>5
    <2> QED BY <2>1 DEF QueryFrom
  <1>6. PICK f \in [1 .. N -> V] : \A i \in 1 .. N : f[i] = QueryFrom(f, str, i)
    <2>1. IsRecursion(step, N, V)
      <3> SUFFICES ASSUME NEW f \in [1 .. N -> V], NEW g \in [1 .. N -> V], NEW i \in 1 .. N,
                          \A j \in i + 1 .. N : f[j] = g[j]
                   PROVE  step[f][i] = step[g][i]
        BY <1>0, <1>3 DEF IsRecursion
      <3> QED BY <1>4, <1>5
    <2>2. PICK f : IsFixed(f, step, N, V)
      <3> HIDE DEF N
      <3> QED BY <2>1, RecursionExists
    <2> QED BY <1>4, <2>2 DEF IsFixed
  <1>7. f = [i \in 1 .. N |-> QueryFrom(f, str, i)]
    BY <1>6
  <1>8. chosen = [i \in 1 .. N |-> QueryFrom(chosen, str, i)]
    BY <1>7
  <1>9. DeserializeQuery(str) = chosen[1]
    BY DEF DeserializeQuery, QueryFrom, FirstPair, Prepend, Cons
  <1> HIDE DEF chosen
  <1>10. ReadsQuery(f, str) /\ ReadsQuery(chosen, str)
    <2>1. \A i \in 1 .. N : chosen[i] = QueryFrom(chosen, str, i)
      BY <1>8
    <2> QED BY <1>6, <2>1 DEF ReadsQuery
  <1>11. \A i \in 1 .. N : chosen[i] = f[i]
    <2>1. str = SubSeq(str, 0 + 1, Len(str))
      <3>1. SubSeq(str, 1, Len(str)) = str
        BY SubSeqFull
      <3> QED BY <3>1
    <2>3. 0 \in 0 .. Len(str) /\ "&" \in TargetByte
      <3>1. "&" \in TargetByte
        BY CharTypes
      <3> QED BY <1>0, <3>1
    <2>2. SameFrom(chosen, 0, f, Len(str) + 2)
      BY <1>10, <2>1, <2>3, QueryRest
    <2> QED BY <2>2 DEF SameFrom
  <1>12. \A i \in 1 .. N : chosen[i] \in V
    BY <1>6, <1>11
  <1> QED BY <1>9, <1>10, <1>12 DEF V

\* Reading a query yields one sequence of pairs or none.
LEMMA QueryType ==
    ASSUME NEW str \in Seq(TargetByte)
    PROVE  IsMaybe(DeserializeQuery(str), Seq(Param))
  <1>1. PICK f : /\ DeserializeQuery(str) = f[1]
                 /\ \A i \in 1 .. Len(str) + 2 : f[i] \in Maybes(Seq(Param))
    BY QuerySolved
  <1>2. 1 \in 1 .. Len(str) + 2
    BY LenProperties
  <1> QED BY <1>1, <1>2, MaybesAre

\* The text of a pair.
PairText(p) == SerializeQueryPart(p.key) \o (<< "=" >> \o SerializeQueryPart(p.value))

\* It has no delimiter between pairs and is read as the pair.
LEMMA PairTextIs ==
    ASSUME NEW p \in Param
    PROVE  /\ PairText(p) \in Seq(TargetByte)
           /\ PairText(p) # << >>
           /\ DeserializePair(PairText(p)) = {p}
           /\ \A d \in {" ", "CR", "LF", "&"} : ~ Contains(PairText(p), d)
           /\ Len(PairText(p)) = QueryPartSize(p.key) + QueryPartSize(p.value) + 1
  <1> DEFINE key == p.key
             value == p.value
  <1>1. key \in Seq(TargetByte) /\ value \in Seq(TargetByte) /\ p = [key |-> key, value |-> value]
    BY DEF Param
  <1> DEFINE k == SerializeQueryPart(key)
             v == SerializeQueryPart(value)
             eq == << "=" >>
             rest == eq \o v
             spelled == k \o rest
  <1> HIDE DEF key, value
  <1>2. "=" \in TargetByte /\ eq \in Seq(TargetByte) /\ Len(eq) = 1 /\ \A d : Contains(eq, d) <=> d = "="
    <2>1. "=" \in TargetByte
      BY CharTypes
    <2> QED BY <2>1, OneSymbol
  <1>3. /\ k \in Seq(TargetByte) /\ DecodeQueryPart(k) = {key}
        /\ \A d \in {" ", "CR", "LF", "&", "="} : ~ Contains(k, d)
        /\ Len(k) = QueryPartSize(key) /\ Len(k) \in Nat
    BY <1>1, PartText, SizesOfParts
  <1>4. /\ v \in Seq(TargetByte) /\ DecodeQueryPart(v) = {value}
        /\ \A d \in {" ", "CR", "LF", "&", "="} : ~ Contains(v, d)
        /\ Len(v) = QueryPartSize(value) /\ Len(v) \in Nat
    BY <1>1, PartText, SizesOfParts
  <1>5. PairText(p) = spelled
    BY DEF PairText, key, value
  <1> DEFINE split == TryFindSplitUnlimited(spelled, eq)
  <1>6. split.head = k /\ split.tail = v
    BY <1>2, <1>3, <1>4, SplitAt
  <1>7. DeserializePair(spelled) = {[key |-> a, value |-> b] : a \in DecodeQueryPart(split.head), b \in DecodeQueryPart(split.tail)}
    BY DEF DeserializePair
  <1> HIDE DEF k, v, eq
  <1>8. rest \in Seq(TargetByte) /\ Len(rest) = 1 + Len(v)
    BY ZenonT(60), <1>2, <1>4, ConcatProperties
  <1> HIDE DEF split
  <1>9. DeserializePair(spelled) = {p}
    <2> DEFINE keys == DecodeQueryPart(split.head)
               values == DecodeQueryPart(split.tail)
    <2>1. keys = {key} /\ values = {value}
      BY <1>3, <1>4, <1>6
    <2>2. DeserializePair(spelled) = {[key |-> a, value |-> b] : a \in keys, b \in values}
      BY <1>7
    <2> HIDE DEF keys, values
    <2>3. DeserializePair(spelled) = {[key |-> key, value |-> value]}
      BY <2>1, <2>2
    <2> QED BY <1>1, <2>3
  <1>10. spelled \in Seq(TargetByte) /\ Len(spelled) = Len(k) + Len(rest)
    BY <1>3, <1>8, ConcatProperties
  <1>11. ASSUME NEW d \in {" ", "CR", "LF", "&"} PROVE ~ Contains(spelled, d)
    <2>1. ~ Contains(k, d) /\ ~ Contains(eq, d) /\ ~ Contains(v, d)
      BY <1>2, <1>3, <1>4
    <2>2. ~ Contains(rest, d)
      BY <1>2, <1>4, <2>1, ContainsConcat
    <2>3. k \in Seq(TargetByte)
      BY <1>3
    <2> HIDE DEF rest
    <2> QED BY <1>8, <2>1, <2>2, <2>3, ContainsConcat
  <1>14. Len(k) = QueryPartSize(key) /\ Len(v) = QueryPartSize(value) /\ Len(k) \in Nat /\ Len(v) \in Nat
    BY <1>3, <1>4
  <1>15. Len(spelled) = Len(k) + (1 + Len(v))
    BY <1>8, <1>10
  <1> HIDE DEF spelled, rest
  <1>12. spelled # << >>
    <2>1. Len(spelled) # 0
      BY <1>14, <1>15
    <2> QED BY <2>1
  <1>13. Len(spelled) = QueryPartSize(key) + QueryPartSize(value) + 1
    BY <1>14, <1>15
  <1> QED BY <1>5, <1>9, <1>10, <1>11, <1>12, <1>13 DEF key, value

\* The first step of reading a query.
LEMMA QueryFirst ==
    ASSUME NEW pair \in Seq(TargetByte), pair # << >>, ~ Contains(pair, "&")
    PROVE  /\ DeserializeQuery(pair) = Prepend(DeserializePair(pair), {<< >>})
           /\ \A x \in Seq(TargetByte) :
                 DeserializeQuery(pair \o (<< "&" >> \o x)) = Prepend(DeserializePair(pair), DeserializeQuery(x))
  <1> DEFINE m == Len(pair)
             amp == << "&" >>
  <1>0. "&" \in TargetByte /\ amp \in Seq(TargetByte) /\ Len(amp) = 1
    <2>1. "&" \in TargetByte
      BY CharTypes
    <2> QED BY <2>1, OneSymbol
  <1>1. m \in Nat /\ m # 0
    BY LenProperties, EmptySeq
  <1>2. DeserializeQuery(pair) = Prepend(DeserializePair(pair), {<< >>})
    <2>1. PICK f : ReadsQuery(f, pair) /\ DeserializeQuery(pair) = f[1]
      BY QuerySolved
    <2>2. FirstPair(pair, 1) = pair
      <3>1. SubSeq(pair, 1, Len(pair)) = pair
        BY SubSeqFull
      <3> QED BY <1>0, <3>1, SplitNowhere DEF FirstPair
    <2>3. f[1] = QueryFrom(f, pair, 1) /\ f[m + 2] = QueryFrom(f, pair, m + 2)
      <3>1. 1 \in 1 .. Len(pair) + 2 /\ m + 2 \in 1 .. Len(pair) + 2
        BY <1>1
      <3> QED BY <2>1, <3>1 DEF ReadsQuery
    <2>4. f[m + 2] = {<< >>}
      <3>1. m + 2 > Len(pair)
        BY <1>1
      <3> QED BY <2>3, <3>1 DEF QueryFrom
    <2>5. ~ (1 > Len(pair)) /\ 1 + Len(pair) + 1 = m + 2
      BY <1>1
    <2>6. f[1] = Prepend(DeserializePair(pair), f[1 + Len(pair) + 1])
      BY <2>2, <2>3, <2>5 DEF QueryFrom
    <2> QED BY <2>1, <2>4, <2>5, <2>6
  <1>3. ASSUME NEW x \in Seq(TargetByte)
        PROVE  DeserializeQuery(pair \o (amp \o x)) = Prepend(DeserializePair(pair), DeserializeQuery(x))
    <2> DEFINE str == pair \o (amp \o x)
               front == pair \o amp
    <2>1. front \in Seq(TargetByte) /\ Len(front) = m + 1 /\ str = front \o x
      <3> HIDE DEF amp
      <3>1. front \in Seq(TargetByte) /\ Len(front) = Len(pair) + Len(amp)
        BY <1>0, ConcatProperties
      <3>2. str = front \o x
        <4>1. Associates(pair, amp, x)
          BY <1>0, Associate
        <4> QED BY <4>1 DEF Associates
      <3> QED BY <1>0, <3>1, <3>2
    <2>2. str \in Seq(TargetByte) /\ Len(str) = m + 1 + Len(x) /\ Len(x) \in Nat
      <3> HIDE DEF str, front
      <3> QED BY ZenonT(60), <2>1, ConcatProperties, LenProperties
    <2>3. SubSeq(str, (m + 1) + 1, Len(str)) = x
      <3> HIDE DEF str, front
      <3>1. SubSeq(str, Len(front) + 1, Len(str)) = x
        BY <2>1, JoinedParts
      <3> QED BY <2>1, <3>1
    <2>4. FirstPair(str, 1) = pair
      <3>1. SubSeq(str, 1, Len(str)) = str
        BY <2>2, SubSeqFull
      <3>2. TryFindSplitUnlimited(str, amp).head = pair
        BY <1>0, SplitAt
      <3> HIDE DEF str
      <3> QED BY <3>1, <3>2 DEF FirstPair
    <2> HIDE DEF str, front
    <2>5. PICK f : ReadsQuery(f, str) /\ DeserializeQuery(str) = f[1]
      BY <2>2, QuerySolved
    <2>6. PICK g : ReadsQuery(g, x) /\ DeserializeQuery(x) = g[1]
      BY QuerySolved
    <2>7. f[(m + 1) + 1] = g[1]
      <3>1. m + 1 \in 0 .. Len(str) /\ 1 \in 1 .. Len(x) + 2
        BY <1>1, <2>2
      <3>2. \A i \in 1 .. Len(x) + 2 : f[(m + 1) + i] = g[i]
        <4> DEFINE k == m + 1
        <4> HIDE DEF k
        <4>1. k \in 0 .. Len(str) /\ x = SubSeq(str, k + 1, Len(str)) /\ str \in Seq(TargetByte) /\ "&" \in TargetByte
          BY <1>0, <2>2, <2>3, <3>1 DEF k
        <4>2. SameFrom(f, k, g, Len(x) + 2)
          BY <2>5, <2>6, <4>1, QueryRest
        <4> QED BY <4>2 DEF k, SameFrom
      <3> QED BY <3>1, <3>2
    <2>8. 1 \in 1 .. Len(str) + 2 /\ ~ (1 > Len(str)) /\ 1 + m + 1 = (m + 1) + 1
      BY <1>1, <2>2
    <2>9. f[1] = QueryFrom(f, str, 1)
      BY <2>5, <2>8 DEF ReadsQuery
    <2>10. f[1] = Prepend(DeserializePair(pair), f[1 + m + 1])
      BY <2>4, <2>8, <2>9 DEF QueryFrom
    <2>11. DeserializeQuery(str) = Prepend(DeserializePair(pair), DeserializeQuery(x))
      BY <2>5, <2>6, <2>7, <2>8, <2>10
    <2> QED BY <2>11 DEF str
  <1> QED BY <1>2, <1>3

\* What is written for the pair at i.
QueryPiece(i, p) ==
    << IF i = 1 THEN "?" ELSE "&" >> \o SerializeQueryPart(p.key) \o << "=" >> \o SerializeQueryPart(p.value)

PieceChar(i) == IF i = 1 THEN "?" ELSE "&"

\* It is typed, of the size that is reserved, and without an end of the token.
LEMMA QueryPieceIs ==
    ASSUME NEW i, NEW p \in Param
    PROVE  /\ QueryPiece(i, p) = << PieceChar(i) >> \o PairText(p)
           /\ << PieceChar(i) >> \in Seq(TargetByte)
           /\ QueryPiece(i, p) \in Seq(TargetByte)
           /\ \A d \in {" ", "CR", "LF"} : ~ Contains(QueryPiece(i, p), d)
           /\ Len(QueryPiece(i, p)) = 2 + QueryPartSize(p.key) + QueryPartSize(p.value)
  <1> DEFINE c == << PieceChar(i) >>
             k == SerializeQueryPart(p.key)
             eq == << "=" >>
             v == SerializeQueryPart(p.value)
             spelled == PairText(p)
  <1>1. /\ PieceChar(i) \in {"?", "&"} /\ c \in Seq(TargetByte) /\ Len(c) = 1
        /\ \A d : Contains(c, d) <=> d = PieceChar(i)
    <2>1. PieceChar(i) \in TargetByte /\ PieceChar(i) \in {"?", "&"}
      BY CharTypes DEF PieceChar
    <2> QED BY <2>1, OneSymbol
  <1>2. k \in Seq(TargetByte) /\ v \in Seq(TargetByte)
    BY PartText DEF Param
  <1>3. eq \in Seq(TargetByte)
    <2>1. "=" \in TargetByte
      BY CharTypes
    <2> QED BY <2>1, OneSymbol
  <1>4. /\ spelled \in Seq(TargetByte) /\ Len(spelled) = QueryPartSize(p.key) + QueryPartSize(p.value) + 1
        /\ \A d \in {" ", "CR", "LF"} : ~ Contains(spelled, d)
    BY PairTextIs
  <1>5. spelled = k \o (eq \o v) /\ QueryPiece(i, p) = c \o k \o eq \o v
    BY DEF PairText, QueryPiece, PieceChar
  <1> HIDE DEF c, k, eq, v, spelled
  <1>6. c \o k \o eq \o v = c \o (k \o (eq \o v))
    <2>1. c \o k \in Seq(TargetByte) /\ eq \o v \in Seq(TargetByte)
      BY <1>1, <1>2, <1>3, ConcatProperties
    <2>2. c \o k \o eq \o v = (c \o k) \o (eq \o v)
      BY SMTT(30), <1>2, <1>3, <2>1, ConcatAssociative
    <2>3. (c \o k) \o (eq \o v) = c \o (k \o (eq \o v))
      BY SMTT(30), <1>1, <1>2, <2>1, ConcatAssociative
    <2> QED BY <2>2, <2>3
  <1>7. QueryPiece(i, p) = c \o spelled
    BY <1>5, <1>6
  <1>8. c \o spelled \in Seq(TargetByte) /\ Len(c \o spelled) = Len(c) + Len(spelled)
    BY <1>1, <1>4, ConcatProperties
  <1>9. \A d \in {" ", "CR", "LF"} : ~ Contains(c \o spelled, d)
    BY <1>1, <1>4, ContainsConcat
  <1>10. Len(c \o spelled) = 2 + QueryPartSize(p.key) + QueryPartSize(p.value)
    <2>1. QueryPartSize(p.key) \in Nat /\ QueryPartSize(p.value) \in Nat
      BY SizesOfParts DEF Param
    <2>2. Len(c) = 1
      BY <1>1
    <2>3. Len(spelled) = QueryPartSize(p.key) + QueryPartSize(p.value) + 1
      BY <1>4
    <2>4. Len(c \o spelled) = Len(c) + Len(spelled)
      BY <1>8
    <2> QED BY <2>1, <2>2, <2>3, <2>4
  <1> QED BY <1>1, <1>7, <1>8, <1>9, <1>10 DEF c, spelled

\* One more pair is one more piece of text and as much more space.
LEMMA QueryStep ==
    ASSUME NEW q \in Seq(Param), NEW p \in Param
    PROVE  /\ SerializeQuery(q \o << p >>) = SerializeQuery(q) \o QueryPiece(Len(q) + 1, p)
           /\ QuerySize(q) \in Nat
           /\ QuerySize(q \o << p >>) = QuerySize(q) + 2 + QueryPartSize(p.key) + QueryPartSize(p.value)
  <1> DEFINE n == Len(q)
             long == q \o << p >>
             texts == [i \in DOMAIN q |-> QueryPiece(i, q[i])]
             longer == [i \in DOMAIN long |-> QueryPiece(i, long[i])]
             Size(x) == QueryPartSize(x.key) + QueryPartSize(x.value)
             sizes == [i \in DOMAIN q |-> Size(q[i])]
             more == [i \in DOMAIN long |-> Size(long[i])]
             spelled == QueryPiece(n + 1, p)
  <1>1. n \in Nat /\ DOMAIN q = 1 .. n /\ \A i \in 1 .. n : q[i] \in Param
    BY LenProperties, ElementOfSeq
  <1>2. long \in Seq(Param) /\ IsAppended(long, q, p)
    BY AppendedIs
  <1>3. \A x \in Param : Size(x) \in Nat
    BY SizesOfParts DEF Param
  <1>4. \A i, x \in Param : QueryPiece(i, x) \in Seq(TargetByte)
    BY QueryPieceIs
  <1> HIDE DEF long, Size
  <1>5. /\ Len(long) = n + 1 /\ DOMAIN long = 1 .. n + 1 /\ \A i \in 1 .. n + 1 : long[i] \in Param
        /\ long[n + 1] = p /\ \A i \in 1 .. n : long[i] = q[i]
    BY <1>2, LenProperties, ElementOfSeq DEF IsAppended
  <1>6. texts \in Seq(Seq(TargetByte)) /\ Len(texts) = n /\ \A i \in 1 .. n : texts[i] = QueryPiece(i, q[i])
    <2>1. texts \in [1 .. n -> Seq(TargetByte)] /\ DOMAIN texts = 1 .. n
      BY <1>1, QueryPieceIs
    <2> QED BY <1>1, <2>1, SeqDef
  <1>7. longer \in Seq(Seq(TargetByte)) /\ Len(longer) = n + 1 /\ \A i \in 1 .. n + 1 : longer[i] = QueryPiece(i, long[i])
    <2>1. longer \in [1 .. n + 1 -> Seq(TargetByte)] /\ DOMAIN longer = 1 .. n + 1
      BY <1>5, QueryPieceIs
    <2> QED BY <1>1, <1>5, <2>1, SeqDef
  <1>8. spelled \in Seq(TargetByte)
    BY QueryPieceIs
  <1>9. sizes \in [1 .. n -> Nat] /\ more \in [1 .. n + 1 -> Nat] /\ DOMAIN sizes = 1 .. n
    BY <1>1, <1>3, <1>5
  <1>10. SerializeQuery(q) = FlattenSeq(texts) /\ SerializeQuery(long) = FlattenSeq(longer)
    BY DEF SerializeQuery, QueryPiece
  <1>11. QuerySize(q) = 2 * n + SumFunction(sizes) /\ QuerySize(long) = 2 * Len(long) + SumFunction(more)
    BY DEF QuerySize, Size
  <1>12. (\A i \in 1 .. n : sizes[i] = Size(q[i])) /\ (\A i \in 1 .. n + 1 : more[i] = Size(long[i]))
    BY <1>1, <1>5
  <1> HIDE DEF texts, longer, sizes, more, spelled, n
  <1>13. n + 1 \in 1 .. n + 1 /\ \A i \in 1 .. n : i \in 1 .. n + 1
    BY <1>1
  <1>14. IsAppended(longer, texts, spelled)
    BY <1>1, <1>5, <1>6, <1>7, <1>13 DEF IsAppended, spelled
  <1>15. longer = texts \o << spelled >>
    BY <1>6, <1>7, <1>8, <1>14, AppendedSame
  <1>16. FlattenSeq(longer) = FlattenSeq(texts) \o spelled
    BY <1>6, <1>8, <1>15, FlattenAppend
  <1>17. ChangedAt(sizes, more, n + 1)
    <2>1. IsFiniteSet(1 .. n)
      BY <1>1, FS_Interval
    <2>2. 1 .. n + 1 = (1 .. n) \cup {n + 1}
      BY <1>1
    <2>3. \A i \in 1 .. n : more[i] = sizes[i]
      BY <1>5, <1>12, <1>13
    <2> QED BY <1>9, <2>1, <2>2, <2>3 DEF ChangedAt
  <1>18. /\ SumFunction(sizes) \in Nat
         /\ SumFunction(more) = SumFunction(sizes) + Size(p)
    <2>1. n + 1 \notin DOMAIN sizes
      BY <1>1, <1>9
    <2>2. more[n + 1] = Size(p) /\ Size(p) \in Nat
      BY <1>3, <1>5, <1>12, <1>13
    <2>3. /\ SumFunction(sizes) \in Nat /\ SumFunction(more) \in Nat
          /\ SumFunction(more) + (IF n + 1 \in DOMAIN sizes THEN sizes[n + 1] ELSE 0) = SumFunction(sizes) + more[n + 1]
      BY <1>17, SumChanged
    <2> QED BY <2>1, <2>2, <2>3
  <1>19. QuerySize(q) \in Nat /\ QuerySize(long) = QuerySize(q) + 2 + Size(p)
    BY <1>1, <1>3, <1>5, <1>11, <1>18
  <1>20. QuerySize(q) + 2 + Size(p) = QuerySize(q) + 2 + QueryPartSize(p.key) + QueryPartSize(p.value)
    BY <1>19, SizesOfParts DEF Size, Param
  <1> QED BY <1>10, <1>16, <1>19, <1>20 DEF long, spelled, n

\* The text of pairs each of which has another one behind it.
AndUnits == [p \in Param |-> PairText(p) \o << "&" >>]
AndText(s) == Spell(AndUnits, s)

\* They are made of bytes.
LEMMA AndUnitsTyped == AndUnits \in [Param -> Seq(TargetByte)] /\ << "&" >> \in Seq(TargetByte)
  <1>1. << "&" >> \in Seq(TargetByte)
    <2>1. "&" \in TargetByte
      BY CharTypes
    <2> QED BY <2>1, OneSymbol
  <1>2. ASSUME NEW p \in Param PROVE PairText(p) \o << "&" >> \in Seq(TargetByte)
    <2> DEFINE amp == << "&" >>
    <2>1. amp \in Seq(TargetByte)
      BY <1>1
    <2> HIDE DEF amp
    <2>2. PairText(p) \o amp \in Seq(TargetByte)
      BY <2>1, PairTextIs, ConcatProperties
    <2> QED BY <2>2 DEF amp
  <1> QED BY <1>1, <1>2 DEF AndUnits

\* What is read from them and from what is behind them.
LEMMA AndTextReads ==
    ASSUME NEW str \in Seq(Param), NEW x \in Seq(TargetByte)
    PROVE  DeserializeQuery(AndText(str) \o x) = Ahead(str, DeserializeQuery(x))
  <1> DEFINE Reads(s) == \A y \in Seq(TargetByte) :
                            DeserializeQuery(AndText(s) \o y) = Ahead(s, DeserializeQuery(y))
             T == {s \in Seq(Param) : Reads(s)}
  <1>1. << >> \in T
    <2> SUFFICES ASSUME NEW y \in Seq(TargetByte)
                 PROVE  DeserializeQuery(AndText(<< >>) \o y) = Ahead(<< >>, DeserializeQuery(y))
      BY EmptySeq
    <2>1. AndText(<< >>) \o y = y
      BY SpellEmpty, ConcatEmptySeq DEF AndText
    <2> DEFINE ys == DeserializeQuery(y)
    <2>2. ys \in SUBSET Seq(Param)
      BY QueryType DEF IsMaybe, Null
    <2> HIDE DEF ys
    <2>3. \A z \in ys : << >> \o z = z
      BY <2>2, ConcatEmptySeq
    <2>4. Ahead(<< >>, ys) = ys
      BY <2>3 DEF Ahead
    <2> QED BY <2>1, <2>4 DEF ys
  <1>2. ASSUME NEW s \in Seq(Param), NEW p \in Param, s \in T
        PROVE  s \o << p >> \in T
    <2> DEFINE end == << p >>
    <2>0. end \in Seq(Param)
      OBVIOUS
    <2>3. \A y \in Seq(TargetByte) : DeserializeQuery(AndText(s) \o y) = Ahead(s, DeserializeQuery(y))
      BY <1>2
    <2> HIDE DEF end, T, Reads
    <2>1. s \o end \in Seq(Param)
      BY <2>0, ConcatProperties
    <2>2. ASSUME NEW y \in Seq(TargetByte)
          PROVE  DeserializeQuery(AndText(s \o end) \o y) = Ahead(s \o end, DeserializeQuery(y))
      <3> DEFINE ys == DeserializeQuery(y)
                 t == PairText(p)
                 amp == << "&" >>
                 w == AndText(s)
      <3>1. ys \in SUBSET Seq(Param)
        BY QueryType DEF IsMaybe, Null
      <3>2. t \in Seq(TargetByte) /\ w \in Seq(TargetByte) /\ amp \in Seq(TargetByte)
        BY AndUnitsTyped, PairTextIs, SpellType DEF AndText
      <3>3. AndText(s \o end) = w \o (t \o amp)
        <4>1. Spell(AndUnits, s \o << p >>) = Spell(AndUnits, s) \o AndUnits[p]
          BY AndUnitsTyped, SpellAppend
        <4>2. AndUnits[p] = t \o amp
          BY DEF AndUnits
        <4> QED BY <4>1, <4>2 DEF AndText, end
      <3>4. DeserializeQuery(t \o (amp \o y)) = PrependOne(p, ys)
        <4>1. DeserializePair(t) = {p}
          BY PairTextIs
        <4>2. DeserializeQuery(t \o (amp \o y)) = Prepend(DeserializePair(t), ys)
          BY <3>2, PairTextIs, QueryFirst
        <4>3. Prepend({p}, ys) = PrependOne(p, ys)
          <5> HIDE DEF ys
          <5>1. \A z : z \in Prepend({p}, ys) <=> z \in PrependOne(p, ys)
            BY SMT DEF Prepend, PrependOne
          <5> QED BY <5>1
        <4> QED BY <4>1, <4>2, <4>3
      <3> HIDE DEF ys, t, w, amp
      <3>5. (w \o (t \o amp)) \o y = w \o (t \o (amp \o y)) /\ t \o (amp \o y) \in Seq(TargetByte)
        <4>1. t \o amp \in Seq(TargetByte) /\ amp \o y \in Seq(TargetByte) /\ t \o (amp \o y) \in Seq(TargetByte)
          BY <3>2, ConcatProperties
        <4>2. Associates(w, t \o amp, y)
          BY <3>2, <4>1, Associate
        <4>3. Associates(t, amp, y)
          BY <3>2, Associate
        <4> QED BY <4>1, <4>2, <4>3 DEF Associates
      <3>6. DeserializeQuery(w \o (t \o (amp \o y))) = Ahead(s, PrependOne(p, ys))
        BY <2>3, <3>4, <3>5 DEF w
      <3>7. Ahead(s, PrependOne(p, ys)) = Ahead(s \o end, ys)
        <4>1. \A z \in ys : s \o Cons(p, z) = (s \o end) \o z
          <5> SUFFICES ASSUME NEW z \in ys PROVE s \o (end \o z) = (s \o end) \o z
            BY DEF Cons, end
          <5>1. z \in Seq(Param)
            BY <3>1
          <5>2. Associates(s, end, z)
            BY <2>0, <5>1, Associate
          <5> QED BY <5>2 DEF Associates
        <4> QED BY <4>1, Zenon DEF Ahead, PrependOne
      <3> QED BY <3>3, <3>5, <3>6, <3>7 DEF ys
    <2> QED BY <2>1, <2>2 DEF end, T, Reads
  <1>3. Seq(Param) \subseteq T
    <2> HIDE DEF T
    <2> QED BY <1>1, <1>2, SeqByAppending
  <1> QED BY <1>3

\* What is written for a query: a question mark and pairs between which there
\* is an ampersand.
LEMMA QueryIsJoined ==
    ASSUME NEW str \in Seq(Param), NEW p \in Param
    PROVE  SerializeQuery(str \o << p >>) = << "?" >> \o (AndText(str) \o PairText(p))
  <1> DEFINE mark == << "?" >>
             amp == << "&" >>
             Joined(s, x) == mark \o (AndText(s) \o PairText(x))
             T == {s \in Seq(Param) : \A x \in Param : SerializeQuery(s \o << x >>) = Joined(s, x)}
  <1>0. mark \in Seq(TargetByte) /\ amp \in Seq(TargetByte)
    <2>1. "?" \in TargetByte
      BY CharTypes
    <2> QED BY <2>1, OneSymbol, AndUnitsTyped
  <1> HIDE DEF mark, amp
  <1>1. << >> \in T
    <2> SUFFICES ASSUME NEW x \in Param PROVE SerializeQuery(<< >> \o << x >>) = Joined(<< >>, x)
      BY EmptySeq
    <2> DEFINE none == << >>
    <2>1. none \in Seq(Param) /\ Len(none) = 0 /\ SerializeQuery(none) = << >> /\ AndText(none) = << >>
      <3>1. SerializeQuery(<< >>) = << >>
        BY FlattenEmpty DEF SerializeQuery
      <3> QED BY <3>1, EmptySeq, SpellEmpty DEF AndText
    <2> HIDE DEF none
    <2>2. SerializeQuery(none \o << x >>) = SerializeQuery(none) \o QueryPiece(Len(none) + 1, x)
      BY <2>1, QueryStep
    <2>3. Len(none) + 1 = 1 /\ PieceChar(1) = "?"
      BY <2>1 DEF PieceChar
    <2>4. QueryPiece(1, x) = mark \o PairText(x) /\ QueryPiece(1, x) \in Seq(TargetByte) /\ PairText(x) \in Seq(TargetByte)
      BY <2>3, QueryPieceIs, PairTextIs DEF mark
    <2>5. << >> \o QueryPiece(1, x) = QueryPiece(1, x) /\ << >> \o PairText(x) = PairText(x)
      BY <2>4, ConcatEmptySeq
    <2> QED BY <2>1, <2>2, <2>3, <2>4, <2>5 DEF none
  <1>2. ASSUME NEW s \in Seq(Param), NEW y \in Param, s \in T
        PROVE  s \o << y >> \in T
    <2> DEFINE long == s \o << y >>
    <2>1. long \in Seq(Param) /\ IsAppended(long, s, y)
      BY AppendedIs
    <2>2. SerializeQuery(long) = Joined(s, y)
      BY <1>2
    <2>3. AndText(long) = AndText(s) \o (PairText(y) \o amp)
      <3>1. Spell(AndUnits, s \o << y >>) = Spell(AndUnits, s) \o AndUnits[y]
        BY AndUnitsTyped, SpellAppend
      <3>2. AndUnits[y] = PairText(y) \o amp
        BY DEF AndUnits, amp
      <3> QED BY <3>1, <3>2 DEF AndText
    <2> HIDE DEF long, T
    <2>4. ASSUME NEW x \in Param PROVE SerializeQuery(long \o << x >>) = Joined(long, x)
      <3>1. SerializeQuery(long \o << x >>) = SerializeQuery(long) \o QueryPiece(Len(long) + 1, x)
        BY <2>1, QueryStep
      <3>2. Len(long) + 1 # 1 /\ PieceChar(Len(long) + 1) = "&"
        BY <2>1 DEF IsAppended, PieceChar
      <3>3. QueryPiece(Len(long) + 1, x) = amp \o PairText(x)
        BY <3>2, QueryPieceIs DEF amp
      <3> DEFINE w == AndText(s)
                 t == PairText(y)
                 u == PairText(x)
      <3>4. w \in Seq(TargetByte) /\ t \in Seq(TargetByte) /\ u \in Seq(TargetByte)
        BY AndUnitsTyped, PairTextIs, SpellType DEF AndText
      <3>5. SerializeQuery(long \o << x >>) = (mark \o (w \o t)) \o (amp \o u)
        BY <2>2, <3>1, <3>3
      <3>6. Joined(long, x) = mark \o ((w \o (t \o amp)) \o u)
        BY <2>3
      <3> HIDE DEF w, t, u, Joined
      <3>7. (mark \o (w \o t)) \o (amp \o u) = mark \o ((w \o (t \o amp)) \o u)
        <4>1. w \o t \in Seq(TargetByte) /\ amp \o u \in Seq(TargetByte) /\ t \o amp \in Seq(TargetByte)
          BY <1>0, <3>4, ConcatProperties
        <4>2. Associates(mark, w \o t, amp \o u)
          BY <1>0, <4>1, Associate
        <4>3. Associates(w \o t, amp, u)
          BY <1>0, <3>4, <4>1, Associate
        <4>4. Associates(w, t, amp)
          BY <1>0, <3>4, Associate
        <4> QED BY <4>2, <4>3, <4>4 DEF Associates
      <3> QED BY <3>5, <3>6, <3>7
    <2> QED BY <2>1, <2>4 DEF long, T
  <1>3. Seq(Param) \subseteq T
    <2> HIDE DEF T
    <2> QED BY <1>1, <1>2, SeqByAppending
  <1> QED BY <1>3 DEF mark

\* The text of a query is nothing for no pairs; otherwise a question mark and
\* something that is read as the query.
ReadsAs(spelled, query) ==
    \/ query = << >> /\ spelled = << >>
    \/ \E body \in Seq(TargetByte) : spelled = << "?" >> \o body /\ DeserializeQuery(body) = {query}

\* The text of a query is of the size that is reserved, no end of the token is
\* in it, and it is read as the query.
LEMMA QueryText ==
    ASSUME NEW query \in Seq(Param)
    PROVE  /\ SerializeQuery(query) \in Seq(TargetByte)
           /\ Len(SerializeQuery(query)) = QuerySize(query)
           /\ \A d \in {" ", "CR", "LF"} : ~ Contains(SerializeQuery(query), d)
           /\ ReadsAs(SerializeQuery(query), query)
  <1> DEFINE Q(q) == /\ SerializeQuery(q) \in Seq(TargetByte)
                     /\ Len(SerializeQuery(q)) = QuerySize(q)
                     /\ \A d \in {" ", "CR", "LF"} : ~ Contains(SerializeQuery(q), d)
                     /\ ReadsAs(SerializeQuery(q), q)
             T == {q \in Seq(Param) : Q(q)}
  <1>1. << >> \in T
    <2> DEFINE none == << >>
    <2>1. none \in Seq(Param) /\ none \in Seq(TargetByte) /\ Len(none) = 0 /\ SerializeQuery(none) = none
      <3>1. SerializeQuery(<< >>) = << >>
        BY FlattenEmpty DEF SerializeQuery
      <3> QED BY <3>1, EmptySeq
    <2>2. QuerySize(none) = 0
      <3> DEFINE sizes == [i \in DOMAIN none |-> QueryPartSize(none[i].key) + QueryPartSize(none[i].value)]
      <3>1. DOMAIN none = {} /\ sizes \in [DOMAIN none -> Nat]
        OBVIOUS
      <3>2. SumFunction(sizes) = 0
        <4> HIDE DEF sizes, none
        <4> QED BY <3>1, SumOfNothing
      <3>3. QuerySize(none) = 2 * Len(none) + SumFunction(sizes)
        BY DEF QuerySize
      <3> HIDE DEF sizes, none
      <3> QED BY <2>1, <3>2, <3>3
    <2>3. \A d : ~ Contains(none, d)
      BY <2>1 DEF Contains
    <2>4. ReadsAs(none, none)
      BY DEF ReadsAs
    <2> HIDE DEF none
    <2>5. Q(none) /\ none \in Seq(Param)
      BY <2>1, <2>2, <2>3, <2>4
    <2> HIDE DEF Q
    <2> QED BY <2>5 DEF none
  <1>2. ASSUME NEW q \in Seq(Param), NEW p \in Param, q \in T
        PROVE  q \o << p >> \in T
    <2> DEFINE long == q \o << p >>
               old == SerializeQuery(q)
               piece == QueryPiece(Len(q) + 1, p)
               size == QueryPartSize(p.key) + QueryPartSize(p.value)
    <2>1. long \in Seq(Param)
      BY AppendedIs
    <2>2. SerializeQuery(long) = old \o piece /\ QuerySize(q) \in Nat /\ QuerySize(long) = QuerySize(q) + 2 + size
      <3>1. /\ QuerySize(q) \in Nat
            /\ QuerySize(long) = QuerySize(q) + 2 + QueryPartSize(p.key) + QueryPartSize(p.value)
        BY QueryStep
      <3>2. QueryPartSize(p.key) \in Nat /\ QueryPartSize(p.value) \in Nat
        BY SizesOfParts DEF Param
      <3>3. SerializeQuery(long) = old \o piece
        BY QueryStep
      <3> HIDE DEF long, old, piece
      <3> QED BY <3>1, <3>2, <3>3
    <2>3. /\ piece \in Seq(TargetByte) /\ Len(piece) = 2 + size
          /\ \A d \in {" ", "CR", "LF"} : ~ Contains(piece, d)
      <3>1. /\ piece \in Seq(TargetByte) /\ Len(piece) = 2 + QueryPartSize(p.key) + QueryPartSize(p.value)
            /\ \A d \in {" ", "CR", "LF"} : ~ Contains(piece, d)
        BY QueryPieceIs
      <3>2. QueryPartSize(p.key) \in Nat /\ QueryPartSize(p.value) \in Nat
        BY SizesOfParts DEF Param
      <3> HIDE DEF piece
      <3>3. 2 + QueryPartSize(p.key) + QueryPartSize(p.value) = 2 + size
        BY <3>2
      <3> QED BY <3>1, <3>3
    <2>4. /\ old \in Seq(TargetByte) /\ Len(old) = QuerySize(q)
          /\ \A d \in {" ", "CR", "LF"} : ~ Contains(old, d)
      BY <1>2
    <2>5. ReadsAs(SerializeQuery(long), long)
      <3> DEFINE body == AndText(q) \o PairText(p)
      <3>1. SerializeQuery(long) = << "?" >> \o body
        BY QueryIsJoined
      <3>2. PairText(p) \in Seq(TargetByte) /\ AndText(q) \in Seq(TargetByte)
        BY PairTextIs, AndUnitsTyped, SpellType DEF AndText
      <3>3. body \in Seq(TargetByte)
        BY <3>2, ConcatProperties
      <3>4. DeserializeQuery(body) = Ahead(q, DeserializeQuery(PairText(p)))
        BY <3>2, AndTextReads
      <3>5. DeserializeQuery(PairText(p)) = {<< p >>}
        <4>1. DeserializeQuery(PairText(p)) = Prepend(DeserializePair(PairText(p)), {<< >>})
          BY <3>2, PairTextIs, QueryFirst
        <4>2. DeserializePair(PairText(p)) = {p}
          BY PairTextIs
        <4>3. Cons(p, << >>) = << p >>
          <5>1. << p >> \in Seq(Param)
            OBVIOUS
          <5> QED BY <5>1, ConcatEmptySeq DEF Cons
        <4>4. Prepend({p}, {<< >>}) = {Cons(p, << >>)}
          BY DEF Prepend
        <4> QED BY <4>1, <4>2, <4>3, <4>4
      <3>6. Ahead(q, {<< p >>}) = {long}
        BY DEF Ahead
      <3>7. DeserializeQuery(body) = {long}
        BY <3>4, <3>5, <3>6
      <3> HIDE DEF body, long
      <3> QED BY <3>1, <3>3, <3>7 DEF ReadsAs
    <2> HIDE DEF old, piece, size, long
    <2>6. old \o piece \in Seq(TargetByte) /\ Len(old \o piece) = Len(old) + Len(piece)
      BY <2>3, <2>4, ConcatProperties
    <2>7. \A d \in {" ", "CR", "LF"} : ~ Contains(old \o piece, d)
      BY <2>3, <2>4, ContainsConcat
    <2>8. Len(old \o piece) = QuerySize(long)
      <3>1. size \in Nat
        BY SizesOfParts DEF Param, size
      <3>2. Len(old) = QuerySize(q) /\ Len(piece) = 2 + size
        BY <2>3, <2>4
      <3> QED BY <2>2, <2>6, <3>1, <3>2
    <2>9. Q(long)
      BY <2>2, <2>5, <2>6, <2>7, <2>8
    <2> HIDE DEF Q
    <2> QED BY <2>1, <2>9 DEF long
  <1>3. Seq(Param) \subseteq T
    <2> HIDE DEF T
    <2> QED BY <1>1, <1>2, SeqByAppending
  <1> QED BY <1>3

-----------------------------------------------------------------------------
(* Beginnings and ends of strings. *)

\* A path that begins with a slash is read as one that does.
LEMMA PathBegins ==
    ASSUME NEW str \in Seq(TargetByte), str # << >>, str[1] = "/", NEW path \in DecodeStr(str)
    PROVE  path \in Seq(TargetByte) /\ path # << >> /\ path[1] = "/"
  <1>1. PICK c \in TargetByte : \E r \in Seq(TargetByte) : str = Cons(c, r)
    BY ConsSplit
  <1>2. PICK r \in Seq(TargetByte) : str = Cons(c, r)
    BY <1>1
  <1>3. c = "/"
    BY <1>2, ConsAt
  <1>4. Decode(str, {}) = PrependOne(Plain(c, {}), Decode(r, {}))
    BY <1>2, <1>3, DecodePlain
  <1>5. Plain(c, {}) = c
    BY DEF Plain
  <1>6. PICK rest \in Decode(r, {}) : path = Cons(c, rest)
    BY <1>4, <1>5 DEF DecodeStr, PrependOne
  <1>7. rest \in Seq(TargetByte)
    BY DecodeType DEF IsMaybe, Null
  <1>8. path \in Seq(TargetByte) /\ Len(path) = Len(rest) + 1 /\ path[1] = c
    BY <1>6, <1>7, ConsType, ConsAt
  <1>9. path # << >>
    <2>1. Len(path) # 0
      BY <1>7, <1>8, LenProperties
    <2> QED BY <2>1
  <1> QED BY <1>3, <1>8, <1>9

\* The targets that are well-formed.
GoodTargets == {t \in TargetType : WellFormed(t)}

\* What makes a target of each form well-formed: an absolute path,
LEMMA OriginGood ==
    ASSUME NEW path \in Seq(TargetByte), path # << >>, path[1] = "/", NEW query \in Query
    PROVE  Origin(path, query) \in GoodTargets
  BY DEF GoodTargets, TargetType, WellFormed, Origin

\* a known scheme and an authority that ends at the path,
LEMMA AbsoluteGood ==
    ASSUME NEW scheme \in {"http", "https"}, NEW authority \in Seq(TargetByte),
           authority # << >>, ~ Contains(authority, "/"),
           NEW path \in Seq(TargetByte), path # << >>, path[1] = "/", NEW query \in Query
    PROVE  Absolute(scheme, authority, path, query) \in GoodTargets
  BY DEF GoodTargets, TargetType, WellFormed, Absolute

\* a host that does and a port in range,
LEMMA AuthorityGood ==
    ASSUME NEW host \in Seq(TargetByte), host # << >>, ~ Contains(host, "/"),
           NEW port \in 0 .. 2 ^ 16 - 1
    PROVE  Authority(host, port) \in GoodTargets
  BY DEF GoodTargets, TargetType, WellFormed, Authority

\* and nothing for the asterisk.
LEMMA AsteriskGood == Asterisk \in GoodTargets
  BY DEF GoodTargets, TargetType, WellFormed, Asterisk

\* The tokens are made of bytes.
LEMMA Tokens ==
    /\ QUESTION \in Seq(TargetByte) /\ SLASH \in Seq(TargetByte) /\ Len(SLASH) = 1
    /\ Http \in Seq(TargetByte) /\ Https \in Seq(TargetByte)
    /\ Len(Http) = 4 /\ Len(Https) = 4
    /\ Http[1] = "http" /\ Https[1] = "https"
    /\ Contains(Http, "/") /\ Contains(Https, "/")
  <1>1. {"?", "/", ":", "http", "https"} \subseteq TargetByte
    BY CharTypes
  <1>2. QUESTION \in Seq(TargetByte) /\ SLASH \in Seq(TargetByte) /\ Len(SLASH) = 1
    BY <1>1, OneSymbol DEF QUESTION, SLASH
  <1>3. Http \in Seq(TargetByte) /\ Len(Http) = 4 /\ Http[1] = "http" /\ Http[3] = "/"
    BY <1>1 DEF Http
  <1>4. Https \in Seq(TargetByte) /\ Len(Https) = 4 /\ Https[1] = "https" /\ Https[3] = "/"
    BY <1>1 DEF Https
  <1>5. Contains(Http, "/") /\ Contains(Https, "/")
    <2>1. 3 \in 1 .. Len(Http) /\ 3 \in 1 .. Len(Https)
      BY <1>3, <1>4
    <2> QED BY <1>3, <1>4, <2>1 DEF Contains
  <1> QED BY <1>2, <1>3, <1>4, <1>5

\* What is read from a text of origin form: a decoded path is absolute, for the
\* slash is in front of the first delimiter and is no escape.
LEMMA OriginRead ==
    ASSUME NEW str \in Seq(TargetByte), IsPrefix(SLASH, str)
    PROVE  IsMaybe(DeserializeOriginForm(str), GoodTargets)
  <1> DEFINE split == TryFindSplitUnlimited(str, QUESTION)
             paths == DecodeStr(split.head)
             queries == DeserializeQuery(split.tail)
  <1>0. "/" \in TargetByte /\ "?" \in TargetByte
    BY CharTypes
  <1>1. split.head \in Seq(TargetByte) /\ split.tail \in Seq(TargetByte)
    BY Tokens, SplitType
  <1>2. str # << >> /\ str[1] = "/"
    BY <1>0, BeginsWith DEF SLASH
  <1>3. split.head # << >> /\ split.head[1] = "/"
    BY <1>0, <1>2, SplitHead DEF QUESTION
  <1>4. DeserializeOriginForm(str) = {Origin(path, query) : path \in paths, query \in queries}
    BY DEF DeserializeOriginForm
  <1>5. IsMaybe(paths, Seq(TargetByte)) /\ IsMaybe(queries, Query)
    BY <1>1, DecodeType, QueryType DEF DecodeStr, Query
  <1>6. \A path \in paths : path \in Seq(TargetByte) /\ path # << >> /\ path[1] = "/"
    BY <1>1, <1>3, PathBegins
  <1> HIDE DEF paths, queries
  <1>7. CASE paths = Null \/ queries = Null
    BY <1>4, <1>7 DEF IsMaybe, Null
  <1>8. CASE paths # Null /\ queries # Null
    <2>1. PICK path \in Seq(TargetByte), query \in Query : paths = {path} /\ queries = {query}
      BY <1>5, <1>8 DEF IsMaybe
    <2>2. DeserializeOriginForm(str) = {Origin(path, query)}
      BY <1>4, <2>1
    <2>3. path # << >> /\ path[1] = "/"
      BY <1>6, <2>1
    <2>4. Origin(path, query) \in GoodTargets
      BY <2>3, OriginGood
    <2> QED BY <2>2, <2>4 DEF IsMaybe
  <1> QED BY <1>7, <1>8

\* What is read from a text of absolute form.
LEMMA AbsoluteRead ==
    ASSUME NEW str \in Seq(TargetByte), IsPrefix(Http, str) \/ IsPrefix(Https, str)
    PROVE  IsMaybe(DeserializeAbsoluteForm(str), GoodTargets)
  <1> DEFINE scheme == str[1]
             behind == SubSeq(str, Len(Http) + 1, Len(str))
             split == TryFindSplitUnlimited(behind, SLASH)
             tail == TryFindSplitUnlimited(split.tail, QUESTION)
             whole == SLASH \o tail.head
             paths == DecodeStr(whole)
             queries == DeserializeQuery(tail.tail)
  <1>0. "/" \in TargetByte /\ "?" \in TargetByte
    BY CharTypes
  <1>1. Len(str) \in Nat /\ Len(str) >= 4 /\ scheme \in {"http", "https"}
    <2> DEFINE front == SubSeq(str, 1, 4)
    <2>1. Len(str) \in Nat
      BY LenProperties
    <2>2. Len(str) >= 4 /\ (front = SubSeq(Http, 1, 4) \/ front = SubSeq(Https, 1, 4))
      BY <2>1, Tokens DEF IsPrefix
    <2>3. front[1] = str[1]
      <3>1. 4 \in 0 .. Len(str) /\ 1 \in 1 .. 4
        BY <2>1, <2>2
      <3> QED BY <3>1, FrontProperties
    <2>4. SubSeq(Http, 1, 4) = Http /\ SubSeq(Https, 1, 4) = Https
      BY Tokens, SubSeqFull
    <2> HIDE DEF front
    <2>5. front[1] \in {"http", "https"}
      BY <2>2, <2>4, Tokens
    <2> QED BY <2>1, <2>2, <2>3, <2>5
  <1>2. behind \in Seq(TargetByte)
    <2>1. Len(Http) \in 0 .. Len(str)
      BY <1>1, Tokens
    <2> QED BY <2>1, FrontAndRest
  <1> HIDE DEF behind
  <1>3. split.head \in Seq(TargetByte) /\ split.tail \in Seq(TargetByte) /\ ~ Contains(split.head, "/")
    BY <1>0, <1>2, Tokens, SplitType, SplitHead DEF SLASH
  <1> HIDE DEF split
  <1>4. tail.head \in Seq(TargetByte) /\ tail.tail \in Seq(TargetByte)
    BY <1>3, Tokens, SplitType
  <1> HIDE DEF tail
  <1>5. whole \in Seq(TargetByte) /\ whole # << >> /\ whole[1] = "/"
    <2>1. whole = Cons("/", tail.head)
      BY DEF Cons, SLASH
    <2>2. whole \in Seq(TargetByte) /\ Len(whole) = Len(tail.head) + 1 /\ whole[1] = "/"
      <3> DEFINE rest == tail.head
      <3>1. rest \in Seq(TargetByte)
        BY <1>4
      <3> HIDE DEF rest
      <3>2. Cons("/", rest) \in Seq(TargetByte) /\ Len(Cons("/", rest)) = Len(rest) + 1
        BY <1>0, <3>1, ConsType
      <3>3. Cons("/", rest)[1] = "/"
        BY <1>0, <3>1, ConsAt
      <3> QED BY <2>1, <3>2, <3>3 DEF rest
    <2>3. Len(whole) # 0
      BY <1>4, <2>2, LenProperties
    <2> QED BY <2>2, <2>3
  <1> HIDE DEF whole
  <1>6. DeserializeAbsoluteForm(str) =
            IF split.head = << >> THEN Null
            ELSE {Absolute(scheme, split.head, path, query) : path \in paths, query \in queries}
    BY DEF DeserializeAbsoluteForm, behind, split, tail, whole
  <1>7. IsMaybe(paths, Seq(TargetByte)) /\ IsMaybe(queries, Query)
    BY <1>4, <1>5, DecodeType, QueryType DEF DecodeStr, Query
  <1>8. \A path \in paths : path \in Seq(TargetByte) /\ path # << >> /\ path[1] = "/"
    BY <1>5, PathBegins
  <1> HIDE DEF paths, queries, scheme
  <1>9. CASE split.head = << >> \/ paths = Null \/ queries = Null
    BY <1>6, <1>9 DEF IsMaybe, Null
  <1>10. CASE split.head # << >> /\ paths # Null /\ queries # Null
    <2>1. PICK path \in Seq(TargetByte), query \in Query : paths = {path} /\ queries = {query}
      BY <1>7, <1>10 DEF IsMaybe
    <2>2. DeserializeAbsoluteForm(str) = {Absolute(scheme, split.head, path, query)}
      BY <1>6, <1>10, <2>1
    <2>3. path # << >> /\ path[1] = "/"
      BY <1>8, <2>1
    <2>4. Absolute(scheme, split.head, path, query) \in GoodTargets
      BY <1>1, <1>3, <1>10, <2>3, AbsoluteGood
    <2> QED BY <2>2, <2>4 DEF IsMaybe
  <1> QED BY <1>9, <1>10

\* What is read from a text of authority form.
LEMMA AuthorityRead ==
    ASSUME NEW str \in Seq(TargetByte), Contains(str, ":"), ~ Contains(str, "/")
    PROVE  IsMaybe(DeserializeAuthorityForm(str), GoodTargets)
  <1> DEFINE colons == {i \in DOMAIN str : str[i] = ":"}
             colon == Max(colons)
             host == SubSeq(str, 1, colon - 1)
             port == FromChars(SubSeq(str, colon + 1, Len(str)), 10, 2 ^ 16)
  <1>1. Len(str) \in Nat /\ DOMAIN str = 1 .. Len(str)
    BY LenProperties
  <1>2. colons \in SUBSET (0 .. Len(str)) /\ colons # {}
    BY <1>1 DEF Contains
  <1>3. colon \in 1 .. Len(str)
    <2>1. colon \in colons
      <3> HIDE DEF colons
      <3> QED BY <1>1, <1>2, MaxProperties
    <2> HIDE DEF colon
    <2> QED BY <1>1, <2>1
  <1> HIDE DEF colon
  <1>4. colon - 1 \in 0 .. Len(str)
    BY <1>1, <1>3
  <1>5. host \in Seq(TargetByte) /\ ~ Contains(host, "/")
    BY <1>4, FrontProperties, FrontAvoids
  <1>6. port = NoNumber \/ port \in 0 .. 2 ^ 16 - 1
    BY DEF FromChars
  <1>7. DeserializeAuthorityForm(str) = IF host = << >> \/ port = NoNumber THEN Null ELSE {Authority(host, port)}
    BY DEF DeserializeAuthorityForm, colon
  <1> HIDE DEF host, port
  <1>8. CASE host = << >> \/ port = NoNumber
    BY <1>7, <1>8 DEF IsMaybe
  <1>9. CASE ~ (host = << >> \/ port = NoNumber)
    <2>1. Authority(host, port) \in GoodTargets
      BY <1>5, <1>6, <1>9, AuthorityGood
    <2> QED BY <1>7, <1>9, <2>1 DEF IsMaybe
  <1> QED BY <1>8, <1>9

\* No text has two forms.
LEMMA FormsApart ==
    ASSUME NEW str \in Seq(TargetByte)
    PROVE  /\ IsPrefix(SLASH, str) =>
                 ~ IsPrefix(Http, str) /\ ~ IsPrefix(Https, str) /\ Contains(str, "/") /\ str # << "*" >>
           /\ IsPrefix(Http, str) \/ IsPrefix(Https, str) => Contains(str, "/") /\ str # << "*" >>
           /\ str = << "*" >> => ~ Contains(str, ":")
  <1>0. {"/", "*", "http", "https"} \subseteq TargetByte
    BY CharTypes
  <1>1. \A d : Contains(<< "*" >>, d) <=> d = "*"
    BY <1>0, OneSymbol
  <1>2. Contains(SLASH, "/")
    BY <1>0, OneSymbol DEF SLASH
  <1>3. "http" # "/" /\ "https" # "/"
    BY SafeChars, TargetsAssumption
  <1>4. 1 \in 1 .. Len(Http) /\ 1 \in 1 .. Len(Https)
    BY Tokens
  <1>5. IsPrefix(Http, str) => str[1] = "http" /\ Contains(str, "/")
    BY <1>4, Tokens, PrefixPart
  <1>6. IsPrefix(Https, str) => str[1] = "https" /\ Contains(str, "/")
    BY <1>4, Tokens, PrefixPart
  <1>7. IsPrefix(SLASH, str) => str[1] = "/" /\ Contains(str, "/")
    BY <1>0, <1>2, Tokens, BeginsWith, PrefixPart DEF SLASH
  <1>8. str = << "*" >> => ~ Contains(str, ":") /\ ~ Contains(str, "/")
    BY <1>1
  <1> QED BY <1>3, <1>5, <1>6, <1>7, <1>8

\* What is read from the text of each form.
LEMMA ReadByForm ==
    ASSUME NEW str \in Seq(TargetByte)
    PROVE  /\ str = << "*" >> => DeserializeTarget(str) = {Asterisk}
           /\ IsPrefix(SLASH, str) => DeserializeTarget(str) = DeserializeOriginForm(str)
           /\ IsPrefix(Http, str) \/ IsPrefix(Https, str) => DeserializeTarget(str) = DeserializeAbsoluteForm(str)
           /\ Contains(str, ":") /\ ~ Contains(str, "/") =>
                 DeserializeTarget(str) = DeserializeAuthorityForm(str)
           /\ ~ (\/ str = << "*" >>
                 \/ IsPrefix(SLASH, str)
                 \/ IsPrefix(Http, str) \/ IsPrefix(Https, str)
                 \/ Contains(str, ":") /\ ~ Contains(str, "/")) => DeserializeTarget(str) = Null
  <1> DEFINE asterisk == str = << "*" >>
  <1> HIDE DEF asterisk
  <1>1. /\ IsPrefix(SLASH, str) =>
              ~ IsPrefix(Http, str) /\ ~ IsPrefix(Https, str) /\ Contains(str, "/") /\ ~ asterisk
        /\ IsPrefix(Http, str) \/ IsPrefix(Https, str) => Contains(str, "/") /\ ~ asterisk
        /\ asterisk => ~ Contains(str, ":")
    BY FormsApart DEF asterisk
  <1>2. DeserializeTarget(str) =
            CASE asterisk                 -> {Asterisk}
              [] IsPrefix(SLASH, str)    -> DeserializeOriginForm(str)
              [] IsPrefix(Http, str) \/ IsPrefix(Https, str) -> DeserializeAbsoluteForm(str)
              [] Contains(str, ":") /\ ~ Contains(str, "/")  -> DeserializeAuthorityForm(str)
              [] OTHER                   -> Null
    BY DEF DeserializeTarget, asterisk
  <1>3. /\ asterisk => DeserializeTarget(str) = {Asterisk}
        /\ IsPrefix(SLASH, str) => DeserializeTarget(str) = DeserializeOriginForm(str)
        /\ IsPrefix(Http, str) \/ IsPrefix(Https, str) => DeserializeTarget(str) = DeserializeAbsoluteForm(str)
        /\ Contains(str, ":") /\ ~ Contains(str, "/") =>
              DeserializeTarget(str) = DeserializeAuthorityForm(str)
        /\ ~ (\/ asterisk
              \/ IsPrefix(SLASH, str)
              \/ IsPrefix(Http, str) \/ IsPrefix(Https, str)
              \/ Contains(str, ":") /\ ~ Contains(str, "/")) => DeserializeTarget(str) = Null
    BY <1>1, <1>2
  <1> QED BY <1>3 DEF asterisk

\* Whatever is read, it is a well-formed target, or nothing.
LEMMA TargetRead ==
    ASSUME NEW str \in Seq(TargetByte)
    PROVE  IsMaybe(DeserializeTarget(str), GoodTargets)
  <1>1. CASE str = << "*" >>
    <2>1. DeserializeTarget(str) = {Asterisk}
      BY <1>1, ReadByForm
    <2> QED BY <2>1, AsteriskGood DEF IsMaybe
  <1>2. CASE IsPrefix(SLASH, str)
    BY <1>2, ReadByForm, OriginRead
  <1>3. CASE IsPrefix(Http, str) \/ IsPrefix(Https, str)
    BY <1>3, ReadByForm, AbsoluteRead
  <1>4. CASE Contains(str, ":") /\ ~ Contains(str, "/")
    BY <1>4, ReadByForm, AuthorityRead
  <1>5. CASE ~ (\/ str = << "*" >>
                \/ IsPrefix(SLASH, str)
                \/ IsPrefix(Http, str) \/ IsPrefix(Https, str)
                \/ Contains(str, ":") /\ ~ Contains(str, "/"))
    <2>1. DeserializeTarget(str) = Null
      BY <1>5, ReadByForm
    <2> QED BY <2>1 DEF IsMaybe
  <1> QED BY <1>1, <1>2, <1>3, <1>4, <1>5

-----------------------------------------------------------------------------
(* Decimals. *)

\* The last digit of n and what is written before it.
LastDigit(n) == HexChars[(n % 10) + 1]

DecimalFrom(f, n) == IF n < 10 THEN << HexChars[n + 1] >> ELSE f[n \div 10] \o << LastDigit(n) >>

\* f is the function up to N,
WritesTo(f, N) ==
    f \in [0 .. N -> Seq(AlphaNum)] /\ \A n \in 0 .. N : f[n] = DecimalFrom(f, n)

\* Division by ten.
LEMMA Division ==
    ASSUME NEW n \in Nat
    PROVE  /\ n \div 10 \in Nat /\ n % 10 \in 0 .. 9 /\ n = 10 * (n \div 10) + (n % 10)
           /\ n >= 10 => n \div 10 < n /\ n \div 10 >= 1
           /\ n < 10 => n % 10 = n /\ n \div 10 = 0
  <1>1. n \div 10 \in Int /\ n % 10 \in 0 .. 9
    BY SMT
  <1>2. n = 10 * (n \div 10) + (n % 10)
    BY SMT
  <1>3. ASSUME NEW d \in Int, NEW r \in 0 .. 9, n = 10 * d + r
        PROVE  d \in Nat /\ (n >= 10 => d < n /\ d >= 1) /\ (n < 10 => r = n /\ d = 0)
    BY <1>3
  <1>4. n \div 10 \in Nat /\ (n >= 10 => n \div 10 < n /\ n \div 10 >= 1)
    BY <1>1, <1>2, <1>3
  <1>5. n < 10 => n % 10 = n /\ n \div 10 = 0
    BY <1>1, <1>2, <1>3
  <1> QED BY <1>1, <1>2, <1>4, <1>5

\* A digit is what it says.
LEMMA DigitIs ==
    ASSUME NEW v \in 0 .. 9
    PROVE  /\ HexChars[v + 1] \in AlphaNum /\ HexChars[v + 1] \in DOMAIN Digit
           /\ Digit[HexChars[v + 1]] = v /\ << HexChars[v + 1] >> \in Seq(AlphaNum)
  <1>1. v \in 0 .. 15
    OBVIOUS
  <1>2. HexChars[v + 1] \in AlphaNum /\ HexChars[v + 1] \in DOMAIN Digit /\ Digit[HexChars[v + 1]] = v
    BY <1>1, TargetsAssumption
  <1> DEFINE c == HexChars[v + 1]
  <1> HIDE DEF c
  <1>3. << c >> \in Seq(AlphaNum)
    BY <1>2, OneSymbol DEF c
  <1> QED BY <1>2, <1>3 DEF c

\* One more step of the function writes letters and digits.
LEMMA DecimalFromType ==
    ASSUME NEW n \in Nat, NEW f, n >= 10 => f[n \div 10] \in Seq(AlphaNum)
    PROVE  DecimalFrom(f, n) \in Seq(AlphaNum)
  <1>1. CASE n < 10
    <2>1. n \in 0 .. 9
      BY <1>1
    <2> QED BY <1>1, <2>1, DigitIs DEF DecimalFrom
  <1>2. CASE ~ (n < 10)
    <2> DEFINE last == << LastDigit(n) >>
               rest == f[n \div 10]
    <2>1. last \in Seq(AlphaNum)
      BY Division, DigitIs DEF LastDigit
    <2>2. rest \in Seq(AlphaNum)
      BY <1>2
    <2> HIDE DEF last, rest
    <2>3. rest \o last \in Seq(AlphaNum)
      BY <2>1, <2>2, ConcatProperties
    <2> QED BY <1>2, <2>3 DEF DecimalFrom, last, rest
  <1> QED BY <1>1, <1>2

\* of which there is one
LEMMA WritesExists ==
    ASSUME NEW N \in Nat
    PROVE  \E f : WritesTo(f, N)
  <1> DEFINE P == {m \in Nat : \E f : WritesTo(f, m)}
  <1>1. 0 \in P
    <2> DEFINE f == [n \in 0 .. 0 |-> DecimalFrom(<< >>, n)]
    <2>1. DecimalFrom(<< >>, 0) \in Seq(AlphaNum)
      BY DecimalFromType
    <2>2. \A g : DecimalFrom(g, 0) = DecimalFrom(<< >>, 0)
      BY DEF DecimalFrom
    <2>3. f \in [0 .. 0 -> Seq(AlphaNum)] /\ \A n \in 0 .. 0 : f[n] = DecimalFrom(<< >>, 0)
      BY <2>1
    <2> HIDE DEF f
    <2>4. \A n \in 0 .. 0 : n = 0
      OBVIOUS
    <2>5. WritesTo(f, 0)
      BY <2>2, <2>3, <2>4 DEF WritesTo
    <2> QED BY <2>5
  <1>2. ASSUME NEW m \in Nat, m \in P PROVE m + 1 \in P
    <2>1. PICK f : WritesTo(f, m)
      BY <1>2
    <2> DEFINE k == m + 1
               value == DecimalFrom(f, k)
               g == [n \in 0 .. k |-> IF n = k THEN value ELSE f[n]]
    <2>2. f \in [0 .. m -> Seq(AlphaNum)] /\ \A n \in 0 .. m : f[n] = DecimalFrom(f, n)
      BY <2>1 DEF WritesTo
    <2>3. \A n \in 0 .. k : n >= 10 => n \div 10 \in 0 .. m
      BY Division
    <2>4. value \in Seq(AlphaNum)
      <3>1. k \in Nat /\ (k >= 10 => f[k \div 10] \in Seq(AlphaNum))
        BY <2>2, <2>3
      <3> HIDE DEF k
      <3> QED BY <3>1, DecimalFromType
    <2> HIDE DEF value
    <2>5. g \in [0 .. k -> Seq(AlphaNum)]
      BY <2>2, <2>4
    <2>6. g[k] = value /\ \A n \in 0 .. m : g[n] = f[n]
      OBVIOUS
    <2> HIDE DEF g
    <2>7. \A n \in 0 .. k : DecimalFrom(g, n) = DecimalFrom(f, n)
      BY <2>3, <2>6 DEF DecimalFrom
    <2>8. ASSUME NEW n \in 0 .. k PROVE g[n] = DecimalFrom(g, n)
      <3>1. CASE n = k
        BY <2>6, <2>7, <3>1 DEF value
      <3>2. CASE n # k
        <4>1. n \in 0 .. m
          BY <3>2
        <4> QED BY <2>2, <2>6, <2>7, <4>1
      <3> QED BY <3>1, <3>2
    <2>9. WritesTo(g, k)
      BY <2>5, <2>8 DEF WritesTo
    <2> QED BY <2>9
  <1>3. Nat \subseteq P
    <2> HIDE DEF P
    <2> QED BY <1>1, <1>2, NatByInduction
  <1> QED BY <1>3

\* only.
LEMMA WritesUnique ==
    ASSUME NEW M \in Nat, NEW N \in Nat, NEW f, WritesTo(f, M), NEW g, WritesTo(g, N),
           NEW n \in Nat, n <= M, n <= N
    PROVE  f[n] = g[n]
  <1> DEFINE P == {k \in Nat : \A i \in 0 .. k : i <= M /\ i <= N => f[i] = g[i]}
  <1>1. ASSUME NEW i \in Nat, i <= M, i <= N, i >= 10 => f[i \div 10] = g[i \div 10]
        PROVE  f[i] = g[i]
    <2>0. i \in 0 .. M /\ i \in 0 .. N
      BY <1>1
    <2>01. (\A k \in 0 .. M : f[k] = DecimalFrom(f, k)) /\ \A k \in 0 .. N : g[k] = DecimalFrom(g, k)
      BY Zenon DEF WritesTo
    <2>1. f[i] = DecimalFrom(f, i) /\ g[i] = DecimalFrom(g, i)
      BY <2>0, <2>01, Zenon
    <2>2. ~ (i < 10) => f[i \div 10] = g[i \div 10]
      BY <1>1
    <2> QED BY <2>1, <2>2 DEF DecimalFrom
  <1>2. 0 \in P
    <2>1. f[0] = g[0]
      BY <1>1
    <2> QED BY <2>1
  <1>3. ASSUME NEW k \in Nat, k \in P PROVE k + 1 \in P
    <2> SUFFICES ASSUME NEW i \in 0 .. k + 1, i <= M, i <= N PROVE f[i] = g[i]
      OBVIOUS
    <2>1. i >= 10 => i \div 10 \in 0 .. k /\ i \div 10 <= M /\ i \div 10 <= N
      BY Division
    <2>2. i >= 10 => f[i \div 10] = g[i \div 10]
      BY <1>3, <2>1
    <2> QED BY <1>1, <2>2
  <1>4. Nat \subseteq P
    <2> HIDE DEF P
    <2> QED BY <1>2, <1>3, NatByInduction
  <1>5. n \in P /\ n \in 0 .. n
    BY <1>4
  <1> QED BY <1>5

\* Decimal is what its definition says.
LEMMA DecimalIs ==
    ASSUME NEW n \in Nat
    PROVE  Decimal[n] \in Seq(AlphaNum) /\ Decimal[n] = DecimalFrom(Decimal, n)
  <1> DEFINE Upto(m) == CHOOSE f : WritesTo(f, m)
             whole == [m \in Nat |-> Upto(m)[m]]
             chosen == CHOOSE f : f = [m \in Nat |-> DecimalFrom(f, m)]
  <1>1. \A m \in Nat : WritesTo(Upto(m), m)
    BY WritesExists
  <1> HIDE DEF Upto
  <1>2. ASSUME NEW m \in Nat
        PROVE  whole[m] = DecimalFrom(whole, m) /\ whole[m] \in Seq(AlphaNum)
    <2>1. whole[m] = Upto(m)[m]
      OBVIOUS
    <2>2. Upto(m)[m] = DecimalFrom(Upto(m), m) /\ Upto(m)[m] \in Seq(AlphaNum)
      <3>1. WritesTo(Upto(m), m) /\ m \in 0 .. m
        BY <1>1
      <3> DEFINE f == Upto(m)
      <3> HIDE DEF f
      <3>2. WritesTo(f, m)
        BY <3>1 DEF f
      <3>3. f[m] = DecimalFrom(f, m) /\ f[m] \in Seq(AlphaNum)
        BY <3>1, <3>2 DEF WritesTo
      <3> QED BY <3>3 DEF f
    <2>3. m >= 10 => Upto(m)[m \div 10] = whole[m \div 10]
      <3> SUFFICES ASSUME m >= 10 PROVE Upto(m)[m \div 10] = whole[m \div 10]
        OBVIOUS
      <3> DEFINE k == m \div 10
      <3>1. k \in Nat /\ k <= m /\ k <= k
        BY Division
      <3> HIDE DEF k
      <3>2. WritesTo(Upto(k), k) /\ WritesTo(Upto(m), m)
        BY <1>1, <3>1
      <3>3. Upto(m)[k] = Upto(k)[k]
        BY <3>1, <3>2, WritesUnique
      <3>4. whole[k] = Upto(k)[k]
        BY <3>1
      <3> QED BY <3>3, <3>4 DEF k
    <2> HIDE DEF whole
    <2>4. DecimalFrom(Upto(m), m) = DecimalFrom(whole, m)
      BY <2>3 DEF DecimalFrom
    <2> QED BY <2>1, <2>2, <2>4
  <1>3. whole = [m \in Nat |-> DecimalFrom(whole, m)]
    <2>1. whole = [m \in Nat |-> whole[m]]
      OBVIOUS
    <2> HIDE DEF whole
    <2>2. [m \in Nat |-> whole[m]] = [m \in Nat |-> DecimalFrom(whole, m)]
      BY <1>2
    <2> QED BY <2>1, <2>2
  <1> HIDE DEF whole
  <1>4. chosen = [m \in Nat |-> DecimalFrom(chosen, m)]
    BY <1>3
  <1>5. Decimal = chosen
    BY DEF Decimal, DecimalFrom, LastDigit
  <1> HIDE DEF chosen
  <1>6. \A m \in Nat : Decimal[m] = DecimalFrom(Decimal, m)
    BY <1>4, <1>5
  <1> DEFINE P == {k \in Nat : \A i \in 0 .. k : Decimal[i] \in Seq(AlphaNum)}
  <1>7. ASSUME NEW i \in Nat, i >= 10 => Decimal[i \div 10] \in Seq(AlphaNum)
        PROVE  Decimal[i] \in Seq(AlphaNum)
    BY <1>6, <1>7, DecimalFromType
  <1>8. 0 \in P
    <2>1. Decimal[0] \in Seq(AlphaNum)
      BY <1>7
    <2> QED BY <2>1
  <1>9. ASSUME NEW k \in Nat, k \in P PROVE k + 1 \in P
    <2> SUFFICES ASSUME NEW i \in 0 .. k + 1 PROVE Decimal[i] \in Seq(AlphaNum)
      OBVIOUS
    <2>1. i >= 10 => i \div 10 \in 0 .. k
      BY Division
    <2> QED BY <1>7, <1>9, <2>1
  <1>10. Nat \subseteq P
    <2> HIDE DEF P
    <2> QED BY <1>8, <1>9, NatByInduction
  <1>11. n \in P /\ n \in 0 .. n
    BY <1>10
  <1> QED BY <1>6, <1>11

-----------------------------------------------------------------------------
(* Numerals. *)

\* One more digit.
Shifted(n, base, d) == n * base + d

\* What the digits at the positions in s are worth, when g is what those of
\* smaller sets are worth: the body of the function that NumeralValue defines.
DigitsFrom(g, str, base, s) ==
    IF s = {} THEN 0 ELSE Shifted(g[s \ {Max(s)}], base, Digit[str[Max(s)]])

\* g is that function for the first n positions,
Values(g, str, base, n) ==
    /\ g = [s \in SUBSET (1 .. n) |-> g[s]]
    /\ \A s \in SUBSET (1 .. n) : g[s] = DigitsFrom(g, str, base, s)

\* The largest position is the last one.
LEMMA MaxIsLast ==
    ASSUME NEW n \in Nat, NEW s \in SUBSET (1 .. n + 1), n + 1 \in s
    PROVE  Max(s) = n + 1 /\ s \ {n + 1} \in SUBSET (1 .. n)
  <1>1. s \in SUBSET (0 .. n + 1) /\ s # {} /\ n + 1 \in Nat
    OBVIOUS
  <1> DEFINE N == n + 1
             m == Max(s)
  <1>2. m \in s /\ \A x \in s : x <= m
    <2>1. N \in Nat /\ s \in SUBSET (0 .. N) /\ s # {}
      BY <1>1
    <2> HIDE DEF N
    <2> QED BY <2>1, MaxProperties
  <1> HIDE DEF m
  <1>3. m = n + 1
    BY <1>2
  <1> QED BY <1>3 DEF m

\* which exists.
LEMMA ValuesExist ==
    ASSUME NEW str, NEW base, NEW n \in Nat
    PROVE  \E g : Values(g, str, base, n)
  <1> DEFINE P == {m \in Nat : \E g : Values(g, str, base, m)}
  <1>1. 0 \in P
    <2> DEFINE g == [s \in SUBSET (1 .. 0) |-> 0]
    <2>1. \A s \in SUBSET (1 .. 0) : s = {}
      OBVIOUS
    <2>2. g = [s \in SUBSET (1 .. 0) |-> g[s]] /\ \A s \in SUBSET (1 .. 0) : g[s] = 0
      OBVIOUS
    <2> HIDE DEF g
    <2>3. Values(g, str, base, 0)
      BY <2>1, <2>2 DEF Values, DigitsFrom
    <2> QED BY <2>3
  <1>2. ASSUME NEW m \in Nat, m \in P PROVE m + 1 \in P
    <2>1. PICK g : Values(g, str, base, m)
      BY <1>2
    <2> DEFINE D == 1 .. m
               E == 1 .. m + 1
               h == [s \in SUBSET E |-> DigitsFrom(g, str, base, s)]
    <2>2. \A s \in SUBSET D : g[s] = DigitsFrom(g, str, base, s)
      BY <2>1 DEF Values
    <2>3. \A s \in SUBSET D : s \in SUBSET E
      OBVIOUS
    <2>4. \A s \in SUBSET E : h[s] = DigitsFrom(g, str, base, s)
      OBVIOUS
    <2>5. h = [s \in SUBSET E |-> h[s]]
      OBVIOUS
    <2> HIDE DEF h
    <2>6. \A s \in SUBSET D : h[s] = g[s]
      BY <2>2, <2>3, <2>4
    <2>7. ASSUME NEW s \in SUBSET E, s # {} PROVE s \ {Max(s)} \in SUBSET D
      <3>1. CASE m + 1 \in s
        BY <3>1, MaxIsLast
      <3>2. CASE m + 1 \notin s
        <4>1. s \in SUBSET D
          BY <3>2
        <4> QED BY <4>1
      <3> QED BY <3>1, <3>2
    <2>8. ASSUME NEW s \in SUBSET E PROVE h[s] = DigitsFrom(h, str, base, s)
      <3>1. s # {} => h[s \ {Max(s)}] = g[s \ {Max(s)}]
        BY <2>6, <2>7
      <3>2. DigitsFrom(h, str, base, s) = DigitsFrom(g, str, base, s)
        BY <3>1 DEF DigitsFrom
      <3> QED BY <2>4, <3>2
    <2>9. Values(h, str, base, m + 1)
      BY <2>5, <2>8 DEF Values
    <2> QED BY <2>9
  <1>3. Nat \subseteq P
    <2> HIDE DEF P
    <2> QED BY <1>1, <1>2, NatByInduction
  <1> QED BY <1>3

\* NumeralValue is the value of such a function,
LEMMA NumeralIs ==
    ASSUME NEW S, NEW str \in Seq(S), NEW base
    PROVE  \E g : Values(g, str, base, Len(str)) /\ NumeralValue(str, base) = g[1 .. Len(str)]
  <1> DEFINE n == Len(str)
             Exactly(g) == g = [s \in SUBSET (1 .. n) |-> DigitsFrom(g, str, base, s)]
             iter == CHOOSE g : Exactly(g)
  <1>1. n \in Nat /\ DOMAIN str = 1 .. n
    BY LenProperties
  <1>2. NumeralValue(str, base) = iter[1 .. n]
    BY <1>1 DEF NumeralValue, FoldLeft, MapThenFoldSet, DigitsFrom, Shifted
  <1>3. PICK g : Values(g, str, base, n)
    BY <1>1, ValuesExist
  <1>4. Exactly(g)
    <2>1. [s \in SUBSET (1 .. n) |-> g[s]] = [s \in SUBSET (1 .. n) |-> DigitsFrom(g, str, base, s)]
      BY <1>3 DEF Values
    <2> QED BY <1>3, <2>1 DEF Values
  <1>5. Exactly(iter)
    <2> HIDE DEF Exactly
    <2> QED BY <1>4
  <1> HIDE DEF iter
  <1>6. Values(iter, str, base, n)
    BY <1>5 DEF Values
  <1> QED BY <1>2, <1>6

\* It takes one digit after the other.
LEMMA ValuesStep ==
    ASSUME NEW str, NEW base, NEW n \in Nat, NEW g, Values(g, str, base, n), NEW k \in Nat, k < n
    PROVE  g[1 .. k + 1] = Shifted(g[1 .. k], base, Digit[str[k + 1]])
  <1> DEFINE s == 1 .. k + 1
  <1>1. s \in SUBSET (1 .. n) /\ s \in SUBSET (1 .. k + 1) /\ k + 1 \in s /\ s \ {k + 1} = 1 .. k
    OBVIOUS
  <1> HIDE DEF s
  <1>2. Max(s) = k + 1
    BY <1>1, MaxIsLast
  <1>3. g[s] = DigitsFrom(g, str, base, s)
    BY <1>1 DEF Values
  <1>4. s # {}
    BY <1>1
  <1>5. g[s] = Shifted(g[1 .. k], base, Digit[str[k + 1]])
    BY <1>1, <1>2, <1>3, <1>4 DEF DigitsFrom
  <1> QED BY <1>5 DEF s

\* which is 0 for no digits
LEMMA NumeralEmpty == ASSUME NEW base PROVE NumeralValue(<< >>, base) = 0
  <1>1. << >> \in Seq(Nat) /\ Len(<< >>) = 0 /\ 1 .. 0 = {}
    OBVIOUS
  <1>2. PICK g : Values(g, << >>, base, 0) /\ NumeralValue(<< >>, base) = g[1 .. 0]
    BY <1>1, NumeralIs
  <1>3. g[{}] = DigitsFrom(g, << >>, base, {})
    BY <1>2 DEF Values
  <1> QED BY <1>1, <1>2, <1>3 DEF DigitsFrom

\* and takes one more digit at the end.
LEMMA NumeralGrows ==
    ASSUME NEW S, NEW str \in Seq(S), NEW c \in S, NEW base
    PROVE  NumeralValue(str \o << c >>, base) = Shifted(NumeralValue(str, base), base, Digit[c])
  <1> DEFINE long == str \o << c >>
             n == Len(str)
  <1>1. n \in Nat /\ << c >> \in Seq(S) /\ Len(<< c >>) = 1 /\ << c >>[1] = c
    OBVIOUS
  <1>2. /\ long \in Seq(S) /\ Len(long) = n + 1
        /\ \A i \in 1 .. n + 1 : long[i] = IF i <= n THEN str[i] ELSE << c >>[i - n]
    BY <1>1, ConcatProperties
  <1> HIDE DEF long
  <1>3. long[n + 1] = c
    <2>1. n + 1 \in 1 .. n + 1 /\ ~ (n + 1 <= n) /\ (n + 1) - n = 1
      BY <1>1
    <2> QED BY <1>1, <1>2, <2>1
  <1>4. PICK g : Values(g, str, base, n) /\ NumeralValue(str, base) = g[1 .. n]
    BY NumeralIs
  <1>5. PICK h : Values(h, long, base, n + 1) /\ NumeralValue(long, base) = h[1 .. n + 1]
    BY <1>2, NumeralIs, SMTT(20)
  <1> DEFINE P == {k \in Nat : k <= n => h[1 .. k] = g[1 .. k]}
  <1>6. 0 \in P
    <2>1. 1 .. 0 = {} /\ {} \in SUBSET (1 .. n) /\ {} \in SUBSET (1 .. n + 1)
      OBVIOUS
    <2>2. h[{}] = DigitsFrom(h, long, base, {}) /\ g[{}] = DigitsFrom(g, str, base, {})
      BY <1>4, <1>5, <2>1 DEF Values
    <2> QED BY <2>1, <2>2 DEF DigitsFrom
  <1>7. ASSUME NEW k \in Nat, k \in P PROVE k + 1 \in P
    <2> SUFFICES ASSUME k + 1 <= n PROVE h[1 .. k + 1] = g[1 .. k + 1]
      OBVIOUS
    <2>1. k < n /\ k < n + 1 /\ n + 1 \in Nat /\ k <= n /\ k + 1 \in 1 .. n + 1
      BY <1>1
    <2>2. g[1 .. k + 1] = Shifted(g[1 .. k], base, Digit[str[k + 1]])
      BY <1>1, <1>4, <2>1, ValuesStep
    <2>3. h[1 .. k + 1] = Shifted(h[1 .. k], base, Digit[long[k + 1]])
      BY <1>5, <2>1, ValuesStep
    <2>4. long[k + 1] = str[k + 1]
      BY <1>2, <2>1
    <2> QED BY <1>7, <2>1, <2>2, <2>3, <2>4
  <1>8. n \in P
    <2>1. Nat \subseteq P
      <3> HIDE DEF P
      <3> QED BY <1>6, <1>7, NatByInduction
    <2> QED BY <1>1, <2>1
  <1>9. h[1 .. n + 1] = Shifted(h[1 .. n], base, Digit[long[n + 1]])
    <2>1. n + 1 \in Nat /\ n < n + 1
      BY <1>1
    <2> QED BY <1>1, <1>5, <2>1, ValuesStep
  <1>10. h[1 .. n] = g[1 .. n]
    BY <1>1, <1>8
  <1>11. NumeralValue(long, base) = Shifted(NumeralValue(str, base), base, Digit[c])
    BY <1>3, <1>4, <1>5, <1>9, <1>10
  <1> QED BY <1>11 DEF long

\* A decimal is one or more digits.
LEMMA DecimalText ==
    ASSUME NEW n \in Nat
    PROVE  /\ Decimal[n] \in Seq(TargetByte) /\ Decimal[n] # << >>
           /\ \A d : d \notin AlphaNum => ~ Contains(Decimal[n], d)
  <1> DEFINE str == Decimal[n]
  <1>1. str \in Seq(AlphaNum) /\ str = DecimalFrom(Decimal, n)
    BY DecimalIs
  <1>2. AlphaNum \subseteq TargetByte
    BY DEF TargetByte
  <1>3. str # << >>
    <2>1. CASE n < 10
      BY <1>1, <2>1 DEF DecimalFrom
    <2>2. CASE ~ (n < 10)
      <3> DEFINE last == << LastDigit(n) >>
                 k == n \div 10
      <3>1. k \in Nat
        BY Division
      <3>2. last \in Seq(AlphaNum) /\ Len(last) = 1
        BY Division, DigitIs DEF LastDigit
      <3>3. str = Decimal[k] \o last
        BY <1>1, <2>2 DEF DecimalFrom
      <3> HIDE DEF last, k, str
      <3>4. Decimal[k] \in Seq(AlphaNum)
        BY <3>1, DecimalIs
      <3> DEFINE front == Decimal[k]
      <3> HIDE DEF front
      <3>41. front \in Seq(AlphaNum) /\ str = front \o last
        BY <3>3, <3>4 DEF front
      <3>42. Len(front \o last) = Len(front) + Len(last) /\ Len(front) \in Nat
        BY <3>2, <3>41, ConcatProperties, LenProperties
      <3>5. Len(str) = Len(front) + 1 /\ Len(front) \in Nat
        BY <3>2, <3>41, <3>42
      <3> QED BY <1>1, <3>5, EmptySeq
    <2> QED BY <2>1, <2>2
  <1> HIDE DEF str
  <1>4. str \in Seq(TargetByte)
    BY <1>1, <1>2
  <1>5. \A d : d \notin AlphaNum => ~ Contains(str, d)
    <2>1. \A i \in 1 .. Len(str) : str[i] \in AlphaNum
      BY <1>1
    <2> QED BY <2>1 DEF Contains
  <1> QED BY <1>3, <1>4, <1>5 DEF str

\* A factor of ten is one digit more.
LEMMA DecimalLonger ==
    ASSUME NEW N \in Nat, NEW j \in Nat, j >= 1,
           \A n \in Nat : n < N => Len(Decimal[n]) <= j
    PROVE  \A n \in Nat : n < 10 * N => Len(Decimal[n]) <= j + 1
  <1> SUFFICES ASSUME NEW n \in Nat, n < 10 * N PROVE Len(Decimal[n]) <= j + 1
    OBVIOUS
  <1>1. CASE n < 10
    <2>1. Decimal[n] = << HexChars[n + 1] >>
      BY <1>1, DecimalIs DEF DecimalFrom
    <2> DEFINE c == HexChars[n + 1]
    <2> HIDE DEF c
    <2>2. Len(<< c >>) = 1
      OBVIOUS
    <2>3. Len(Decimal[n]) = 1
      BY <2>1, <2>2 DEF c
    <2> QED BY <2>3
  <1>2. CASE ~ (n < 10)
    <2> DEFINE last == << LastDigit(n) >>
               k == n \div 10
    <2>1. k \in Nat /\ k < N
      <3>1. k \in Nat /\ n % 10 \in 0 .. 9 /\ n = 10 * k + (n % 10)
        BY Division
      <3> HIDE DEF k
      <3> QED BY <3>1
    <2>2. last \in Seq(AlphaNum) /\ Len(last) = 1
      BY Division, DigitIs DEF LastDigit
    <2>3. Decimal[n] = Decimal[k] \o last
      BY <1>2, DecimalIs DEF DecimalFrom
    <2> HIDE DEF last, k
    <2>4. Decimal[k] \in Seq(AlphaNum) /\ Len(Decimal[k]) <= j
      BY <2>1, DecimalIs
    <2> DEFINE front == Decimal[k]
    <2> HIDE DEF front
    <2>5. front \in Seq(AlphaNum) /\ Decimal[n] = front \o last /\ Len(front) <= j
      BY <2>3, <2>4 DEF front
    <2>6. Len(front \o last) = Len(front) + Len(last) /\ Len(front) \in Nat
      BY <2>2, <2>5, ConcatProperties, LenProperties
    <2> QED BY <2>2, <2>5, <2>6
  <1> QED BY <1>1, <1>2

\* A port takes at most five digits.
LEMMA PortLength == ASSUME NEW port \in 0 .. 2 ^ 16 - 1 PROVE Len(Decimal[port]) <= 5
  <1> DEFINE Short(N, j) == \A n \in Nat : n < N => Len(Decimal[n]) <= j
  <1>1. Short(10, 1)
    <2> SUFFICES ASSUME NEW n \in Nat, n < 10 PROVE Len(Decimal[n]) <= 1
      OBVIOUS
    <2>1. Decimal[n] = << HexChars[n + 1] >>
      BY DecimalIs DEF DecimalFrom
    <2> DEFINE c == HexChars[n + 1]
    <2> HIDE DEF c
    <2>2. Len(<< c >>) = 1
      OBVIOUS
    <2>3. Len(Decimal[n]) = 1
      BY <2>1, <2>2 DEF c
    <2> QED BY <2>3
  <1>2. \A N \in Nat, j \in Nat : j >= 1 /\ Short(N, j) => Short(10 * N, j + 1)
    BY DecimalLonger
  <1> HIDE DEF Short
  <1>3. Short(100, 2)
    <2>1. Short(10 * 10, 1 + 1)
      BY <1>1, <1>2
    <2> QED BY <2>1
  <1>4. Short(1000, 3)
    <2>1. Short(10 * 100, 2 + 1)
      BY <1>2, <1>3
    <2> QED BY <2>1
  <1>5. Short(10000, 4)
    <2>1. Short(10 * 1000, 3 + 1)
      BY <1>2, <1>4
    <2> QED BY <2>1
  <1>6. Short(100000, 5)
    <2>1. Short(10 * 10000, 4 + 1)
      BY <1>2, <1>5
    <2> QED BY <2>1
  <1>7. port \in Nat /\ port < 100000
    <2>1. 2 ^ 16 = 65536
      BY SMT
    <2> QED BY <2>1
  <1> QED BY <1>6, <1>7 DEF Short

\* A number of three digits, as a status is.
LEMMA ThreeDigits ==
    ASSUME NEW n \in 100 .. 999
    PROVE  Len(Decimal[n]) = 3
  <1> DEFINE tens == n \div 10
             one == HexChars[(n % 10) + 1]
             hundreds == tens \div 10
             ten == HexChars[(tens % 10) + 1]
             first == << HexChars[hundreds + 1] >>
  <1>1. /\ n \in Nat /\ ~ (n < 10)
        /\ tens \in Nat /\ ~ (tens < 10) /\ hundreds \in Nat /\ hundreds < 10
    <2>1. n \in Nat /\ n >= 100 /\ n < 1000
      OBVIOUS
    <2> QED BY <2>1, Z3
  <1> HIDE DEF tens, one
  <1>2. Decimal[n] = Decimal[tens] \o << one >>
    <2>1. Decimal[n] = DecimalFrom(Decimal, n)
      BY <1>1, DecimalIs, Zenon
    <2> QED BY <1>1, <2>1, Zenon DEF DecimalFrom, LastDigit, tens, one
  <1> HIDE DEF hundreds, ten, first
  <1>3. Decimal[tens] = Decimal[hundreds] \o << ten >>
    <2>1. Decimal[tens] = DecimalFrom(Decimal, tens)
      BY <1>1, DecimalIs, Zenon
    <2> QED BY <1>1, <2>1, Zenon DEF DecimalFrom, LastDigit, hundreds, ten
  <1>4. Decimal[hundreds] = first
    BY <1>1, DecimalIs DEF DecimalFrom, first
  <1>5. Len(first) = 1 /\ Len(<< ten >>) = 1 /\ Len(<< one >>) = 1
    BY DEF first
  <1>6. Decimal[n] = (first \o << ten >>) \o << one >>
    BY <1>2, <1>3, <1>4
  <1>7. \E T : first \in Seq(T) /\ << ten >> \in Seq(T) /\ << one >> \in Seq(T)
    <2> DEFINE T == {HexChars[hundreds + 1], ten, one}
    <2>1. first \in Seq(T) /\ << ten >> \in Seq(T) /\ << one >> \in Seq(T)
      BY DEF first
    <2> QED BY <2>1
  <1>8. PICK T : first \in Seq(T) /\ << ten >> \in Seq(T) /\ << one >> \in Seq(T)
    BY <1>7
  <1>9. first \o << ten >> \in Seq(T) /\ Len(first \o << ten >>) = 2
    BY <1>5, <1>8, ConcatProperties, SMTT(20)
  <1> QED BY <1>5, <1>6, <1>8, <1>9, ConcatProperties

\* What is written is read again.
LEMMA DecimalNumeral ==
    ASSUME NEW n \in Nat
    PROVE  IsNumeral(Decimal[n], 10) /\ NumeralValue(Decimal[n], 10) = n
  <1> DEFINE Good(k) == IsNumeral(Decimal[k], 10) /\ NumeralValue(Decimal[k], 10) = k
             P == {m \in Nat : \A k \in 0 .. m : Good(k)}
  <1>1. ASSUME NEW k \in Nat, k < 10 PROVE Good(k)
    <2> DEFINE c == HexChars[k + 1]
               str == << c >>
    <2>1. Decimal[k] = str
      BY <1>1, DecimalIs DEF DecimalFrom
    <2>2. c \in AlphaNum /\ c \in DOMAIN Digit /\ Digit[c] = k
      BY <1>1, DigitIs
    <2> HIDE DEF c
    <2>3. IsNumeral(str, 10)
      BY <1>1, <2>2 DEF IsNumeral
    <2>4. << >> \in Seq(AlphaNum) /\ << >> \o str = str
      BY <2>2
    <2>5. NumeralValue(<< >> \o str, 10) = Shifted(0, 10, k)
      BY ZenonT(60), <2>2, <2>4, NumeralGrows, NumeralEmpty
    <2>6. Shifted(0, 10, k) = k
      BY DEF Shifted
    <2>7. NumeralValue(str, 10) = k
      BY <2>4, <2>5, <2>6
    <2> QED BY <2>1, <2>3, <2>7
  <1>2. ASSUME NEW k \in Nat, ~ (k < 10), Good(k \div 10) PROVE Good(k)
    <2> DEFINE front == k \div 10
               c == LastDigit(k)
               str == Decimal[front]
               last == << c >>
    <2>1. Decimal[k] = str \o last
      BY <1>2, DecimalIs DEF DecimalFrom
    <2>2. c \in AlphaNum /\ c \in DOMAIN Digit /\ Digit[c] = k % 10
      BY Division, DigitIs DEF LastDigit
    <2>3. front \in Nat /\ k % 10 \in 0 .. 9 /\ k = 10 * front + (k % 10)
      BY Division
    <2>4. IsNumeral(str, 10) /\ NumeralValue(str, 10) = front
      BY <1>2
    <2> HIDE DEF front, c
    <2>5. str \in Seq(AlphaNum)
      BY <2>3, DecimalIs
    <2> HIDE DEF str
    <2>6. NumeralValue(str \o last, 10) = Shifted(front, 10, Digit[c])
      BY <2>2, <2>4, <2>5, NumeralGrows
    <2>7. Shifted(front, 10, Digit[c]) = k
      BY <2>2, <2>3 DEF Shifted
    <2>8. IsNumeral(str \o last, 10)
      <3> DEFINE long == str \o last
      <3>1. last \in Seq(AlphaNum) /\ Len(last) = 1 /\ last[1] = c /\ Len(str) \in Nat
        BY <2>2, <2>5, LenProperties
      <3>2. /\ long \in Seq(AlphaNum) /\ Len(long) = Len(str) + 1
            /\ \A i \in 1 .. Len(str) + 1 : long[i] = IF i <= Len(str) THEN str[i] ELSE last[i - Len(str)]
        BY <2>5, <3>1, ConcatProperties
      <3> HIDE DEF long, last
      <3>3. \A i \in 1 .. Len(str) : str[i] \in DOMAIN Digit /\ Digit[str[i]] < 10
        BY <2>4, <2>5 DEF IsNumeral
      <3>4. c \in DOMAIN Digit /\ Digit[c] < 10
        BY <2>2, <2>3
      <3>5. ASSUME NEW i \in DOMAIN long PROVE long[i] \in DOMAIN Digit /\ Digit[long[i]] < 10
        <4>1. i \in 1 .. Len(str) + 1
          BY <3>2, LenProperties
        <4>2. CASE i <= Len(str)
          <5>1. i \in 1 .. Len(str) /\ long[i] = str[i]
            BY <3>1, <3>2, <4>1, <4>2
          <5> QED BY <3>3, <5>1
        <4>3. CASE ~ (i <= Len(str))
          <5>1. i - Len(str) = 1
            BY <3>1, <4>1, <4>3
          <5>2. long[i] = c
            BY <3>1, <3>2, <4>1, <4>3, <5>1
          <5> QED BY <3>4, <5>2
        <4> QED BY <4>2, <4>3
      <3>6. long # << >>
        BY <3>1, <3>2, EmptySeq
      <3>7. IsNumeral(long, 10)
        BY <3>5, <3>6 DEF IsNumeral
      <3> QED BY <3>7 DEF long
    <2> QED BY <2>1, <2>6, <2>7, <2>8
  <1> HIDE DEF Good
  <1>3. 0 \in P
    BY <1>1
  <1>4. ASSUME NEW m \in Nat, m \in P PROVE m + 1 \in P
    <2> SUFFICES ASSUME NEW k \in 0 .. m + 1 PROVE Good(k)
      OBVIOUS
    <2>1. CASE k < 10
      BY <1>1, <2>1
    <2>2. CASE ~ (k < 10)
      <3>1. k \div 10 \in 0 .. m
        BY <2>2, Division
      <3>2. Good(k \div 10)
        BY <1>4, <3>1
      <3> QED BY <1>2, <2>2, <3>2
    <2> QED BY <2>1, <2>2
  <1>5. n \in P
    <2>1. Nat \subseteq P
      <3> HIDE DEF P
      <3> QED BY <1>3, <1>4, NatByInduction
    <2> QED BY <2>1
  <1>6. Good(n)
    BY <1>5
  <1> QED BY <1>6 DEF Good

\* A port that is written is read as itself.
LEMMA PortRead == ASSUME NEW port \in 0 .. 2 ^ 16 - 1 PROVE FromChars(Decimal[port], 10, 2 ^ 16) = port
  <1>1. port \in Nat
    OBVIOUS
  <1> QED BY <1>1, DecimalNumeral DEF FromChars

\* Nothing is read as no pair.
LEMMA QueryOfNothing == DeserializeQuery(<< >>) = {<< >>}
  <1> DEFINE str == << >>
  <1>1. str \in Seq(TargetByte) /\ Len(str) = 0
    OBVIOUS
  <1> HIDE DEF str
  <1>2. PICK f : ReadsQuery(f, str) /\ DeserializeQuery(str) = f[1]
    BY <1>1, QuerySolved
  <1>3. 1 \in 1 .. Len(str) + 2 /\ 1 > Len(str)
    BY <1>1
  <1>4. f[1] = QueryFrom(f, str, 1)
    BY <1>2, <1>3, Zenon DEF ReadsQuery
  <1>5. QueryFrom(f, str, 1) = {<< >>}
    BY <1>3 DEF QueryFrom
  <1>6. DeserializeQuery(str) = {<< >>}
    BY <1>2, <1>4, <1>5
  <1> QED BY <1>6 DEF str

\* The text of a path begins with its slash.
LEMMA PathSlash ==
    ASSUME NEW path \in Seq(TargetByte), path # << >>, path[1] = "/"
    PROVE  \E rest \in Seq(TargetByte) : SerializePath(path) = << "/" >> \o rest
  <1> DEFINE slash == << "/" >>
             Begins(s) == s # << >> /\ s[1] = "/" =>
                              \E rest \in Seq(TargetByte) : Spell(PathUnits, s) = slash \o rest
             T == {s \in Seq(TargetByte) : Begins(s)}
  <1>0. "/" \in TargetByte /\ PathUnits["/"] = slash
    <2>1. "/" \in TargetByte
      BY CharTypes
    <2> QED BY <2>1, SafeChars DEF PathUnits
  <1>00. slash \in Seq(TargetByte)
    BY <1>0, OneSymbol
  <1> HIDE DEF slash
  <1>1. << >> \in T
    OBVIOUS
  <1>2. ASSUME NEW s \in Seq(TargetByte), NEW c \in TargetByte, s \in T
        PROVE  s \o << c >> \in T
    <2> DEFINE long == s \o << c >>
               unit == PathUnits[c]
    <2>1. long \in Seq(TargetByte) /\ Len(s) \in Nat
      BY AppendedIs, LenProperties
    <2>2. Spell(PathUnits, long) = Spell(PathUnits, s) \o unit
      BY UnitsTyped, SpellAppend DEF Units
    <2>3. unit \in Seq(TargetByte)
      BY UnitsTyped DEF Units
    <2>4. CASE s = << >>
      <3>1. long = << c >>
        BY <2>4
      <3>2. long[1] = c
        BY <3>1
      <3>3. Spell(PathUnits, s) = << >>
        BY <2>4, SpellEmpty
      <3> HIDE DEF unit, long
      <3>4. Spell(PathUnits, long) = unit
        BY <2>2, <2>3, <3>3, ConcatEmptySeq
      <3>5. << >> \in Seq(TargetByte)
        OBVIOUS
      <3>6. slash \o << >> = slash
        BY <1>00, ConcatEmptySeq
      <3>7. c = "/" => Spell(PathUnits, long) = slash \o << >>
        BY <1>0, <3>4, <3>6 DEF unit
      <3>8. Begins(long)
        BY <3>2, <3>5, <3>7
      <3> QED BY <2>1, <3>8 DEF long
    <2>5. CASE s # << >>
      <3>1. long[1] = s[1]
        <4>1. Len(s) # 0
          BY <2>5, EmptySeq
        <4>2. 1 \in 1 .. Len(s)
          BY <2>1, <4>1
        <4> QED BY <4>2
      <3> HIDE DEF unit, long
      <3>2. ASSUME s[1] = "/"
            PROVE  \E rest \in Seq(TargetByte) : Spell(PathUnits, long) = slash \o rest
        <4>1. PICK rest \in Seq(TargetByte) : Spell(PathUnits, s) = slash \o rest
          BY <1>2, <2>5, <3>2
        <4>2. Associates(slash, rest, unit)
          BY <1>00, <2>3, Associate
        <4>3. rest \o unit \in Seq(TargetByte)
          BY <2>3, ConcatProperties
        <4>4. Spell(PathUnits, long) = slash \o (rest \o unit)
          BY <2>2, <4>1, <4>2 DEF Associates
        <4> QED BY <4>3, <4>4
      <3>3. Begins(long)
        BY <3>1, <3>2
      <3> QED BY <2>1, <3>3 DEF long
    <2> QED BY <2>4, <2>5
  <1>3. Seq(TargetByte) \subseteq T
    <2> HIDE DEF T
    <2> QED BY <1>1, <1>2, SeqByAppending
  <1>4. \E rest \in Seq(TargetByte) : Spell(PathUnits, path) = slash \o rest
    BY <1>3
  <1> QED BY <1>4, PathText DEF slash

\* Behind a path without a question mark, the text of a query is found and read.
LEMMA PathAndQuery ==
    ASSUME NEW front \in Seq(TargetByte), ~ Contains(front, "?"), NEW query \in Query
    PROVE  /\ TryFindSplitUnlimited(front \o SerializeQuery(query), QUESTION).head = front
           /\ DeserializeQuery(TryFindSplitUnlimited(front \o SerializeQuery(query), QUESTION).tail) = {query}
  <1> DEFINE spelled == SerializeQuery(query)
             split == TryFindSplitUnlimited(front \o spelled, QUESTION)
  <1>0. "?" \in TargetByte
    BY CharTypes
  <1>1. ReadsAs(spelled, query)
    BY QueryText DEF Query
  <1>2. CASE query = << >> /\ spelled = << >>
    <2>1. front \o spelled = front
      BY <1>2, ConcatEmptySeq
    <2>2. split.head = front /\ split.tail = << >>
      BY <1>0, <2>1, SplitNowhere DEF QUESTION
    <2> QED BY <1>2, <2>2, QueryOfNothing
  <1>3. CASE \E body \in Seq(TargetByte) : spelled = << "?" >> \o body /\ DeserializeQuery(body) = {query}
    <2>1. PICK body \in Seq(TargetByte) : spelled = << "?" >> \o body /\ DeserializeQuery(body) = {query}
      BY <1>3
    <2>2. split.head = front /\ split.tail = body
      BY <1>0, <2>1, SplitAt DEF QUESTION
    <2> QED BY <2>1, <2>2
  <1> QED BY <1>1, <1>2, <1>3 DEF ReadsAs

\* What serialize(target) promises of one target: bytes, read as the target,
\* of the size that is reserved,
Fits(t, str) ==
    IF t.form \in {"origin", "absolute"} THEN Len(str) = ReservedSize(t)
    ELSE t.form = "authority" => Len(str) <= ReservedSize(t)

\* and without an end of the token but those it was given.
Verbatim(t) ==
    CASE t.form = "absolute" -> t.authority
      [] t.form = "authority" -> t.host
      [] OTHER -> << >>

Ends == {" ", "CR", "LF"}

HasNo(str, symbols) == \A d \in symbols : ~ Contains(str, d)

WellWritten(t) ==
    /\ SerializeTarget(t) \in Seq(TargetByte)
    /\ DeserializeTarget(SerializeTarget(t)) = {t}
    /\ Fits(t, SerializeTarget(t))
    /\ HasNo(Verbatim(t), Ends) => HasNo(SerializeTarget(t), Ends)

\* What is written as it is, is bytes.
LEMMA VerbatimBytes == ASSUME NEW t \in TargetType PROVE Verbatim(t) \in Seq(TargetByte)
  <1> DEFINE Port == 0 .. 2 ^ 16 - 1
  <1>1. \/ t \in [form : {"origin"}, path : Seq(TargetByte), query : Query]
        \/ t \in [form : {"absolute"}, scheme : {"http", "https"}, authority : Seq(TargetByte),
                  path : Seq(TargetByte), query : Query]
        \/ t \in [form : {"authority"}, host : Seq(TargetByte), port : Port]
        \/ t = Asterisk
    BY DEF TargetType
  <1>2. << >> \in Seq(TargetByte) /\ Asterisk.form = "asterisk"
    BY DEF Asterisk
  <1> HIDE DEF Port
  <1>3. CASE t \in [form : {"absolute"}, scheme : {"http", "https"}, authority : Seq(TargetByte),
                    path : Seq(TargetByte), query : Query]
    BY <1>3 DEF Verbatim
  <1>4. CASE t \in [form : {"authority"}, host : Seq(TargetByte), port : Port]
    BY <1>4 DEF Verbatim
  <1>5. CASE t \in [form : {"origin"}, path : Seq(TargetByte), query : Query]
    BY <1>2, <1>5 DEF Verbatim
  <1>6. CASE t = Asterisk
    BY <1>2, <1>6 DEF Verbatim
  <1> QED BY <1>1, <1>3, <1>4, <1>5, <1>6

\* What is before a text without an end, and it, have none together.
LEMMA HasNoJoined ==
    ASSUME NEW S, NEW a \in Seq(S), NEW b \in Seq(S), NEW symbols
    PROVE  HasNo(a \o b, symbols) <=> HasNo(a, symbols) /\ HasNo(b, symbols)
  BY ContainsConcat DEF HasNo

\* The origin form.
LEMMA OriginWritten ==
    ASSUME NEW path \in Seq(TargetByte), path # << >>, path[1] = "/", NEW query \in Query
    PROVE  WellWritten(Origin(path, query))
  <1> DEFINE t == Origin(path, query)
             a == SerializePath(path)
             b == SerializeQuery(query)
             str == a \o b
  <1>0. "/" \in TargetByte
    BY CharTypes
  <1>1. SerializeTarget(t) = str
    BY DEF SerializeTarget, Origin
  <1>2. /\ a \in Seq(TargetByte) /\ DecodeStr(a) = {path} /\ Len(a) = PathSize(path)
        /\ HasNo(a, Ends) /\ ~ Contains(a, "?")
    BY PathText, SizesOfParts DEF HasNo, Ends
  <1>3. b \in Seq(TargetByte) /\ Len(b) = QuerySize(query) /\ HasNo(b, Ends)
    BY QueryText DEF Query, HasNo, Ends
  <1>4. str \in Seq(TargetByte) /\ Len(str) = PathSize(path) + QuerySize(query) /\ HasNo(str, Ends)
    BY <1>2, <1>3, ConcatProperties, HasNoJoined
  <1>5. Fits(t, str)
    <2>1. ReservedSize(t) = PathSize(path) + QuerySize(query)
      BY DEF ReservedSize, Origin
    <2>2. t.form = "origin"
      BY DEF Origin
    <2> HIDE DEF t, str
    <2> QED BY <1>4, <2>1, <2>2 DEF Fits
  <1>6. IsPrefix(SLASH, str)
    <2>1. PICK rest \in Seq(TargetByte) : a = << "/" >> \o rest
      BY PathSlash
    <2> HIDE DEF a, b
    <2>2. SLASH \in Seq(TargetByte) /\ a = SLASH \o rest
      BY <1>0, <2>1, OneSymbol DEF SLASH
    <2>3. Associates(SLASH, rest, b)
      BY <1>3, <2>2, Associate
    <2>4. str = SLASH \o (rest \o b)
      BY <2>2, <2>3 DEF Associates
    <2>5. rest \o b \in Seq(TargetByte)
      BY <1>3, ConcatProperties
    <2> HIDE DEF str
    <2> QED BY <2>2, <2>4, <2>5, PrefixOfConcat
  <1>7. DeserializeTarget(str) = {t}
    <2> DEFINE split == TryFindSplitUnlimited(str, QUESTION)
    <2>1. split.head = a /\ DeserializeQuery(split.tail) = {query}
      BY <1>2, PathAndQuery
    <2>2. DeserializeTarget(str) = DeserializeOriginForm(str)
      BY <1>4, <1>6, ReadByForm
    <2>3. DeserializeOriginForm(str) =
              {Origin(p, q) : p \in DecodeStr(split.head), q \in DeserializeQuery(split.tail)}
      BY DEF DeserializeOriginForm
    <2> HIDE DEF split, str, a
    <2>4. DecodeStr(split.head) = {path}
      BY <1>2, <2>1
    <2>5. DeserializeOriginForm(str) = {Origin(path, query)}
      BY <2>1, <2>3, <2>4
    <2> QED BY <2>2, <2>5
  <1> HIDE DEF str, t
  <1>8. WellWritten(t)
    BY <1>1, <1>4, <1>5, <1>7 DEF WellWritten
  <1> QED BY <1>8 DEF t

\* The asterisk.
LEMMA AsteriskWritten == WellWritten(Asterisk)
  <1> DEFINE str == << "*" >>
  <1>1. SerializeTarget(Asterisk) = str /\ Asterisk.form = "asterisk"
    BY DEF SerializeTarget, Asterisk
  <1>2. "*" \in TargetByte /\ Ends = {" ", "CR", "LF"}
    BY CharTypes DEF Ends
  <1>3. str \in Seq(TargetByte) /\ \A d : Contains(str, d) <=> d = "*"
    BY <1>2, OneSymbol
  <1>4. HasNo(str, Ends)
    BY <1>2, <1>3 DEF HasNo
  <1>5. DeserializeTarget(str) = {Asterisk}
    BY <1>3, ReadByForm
  <1>6. Fits(Asterisk, str)
    BY <1>1 DEF Fits
  <1> HIDE DEF str
  <1> QED BY <1>1, <1>3, <1>4, <1>5, <1>6 DEF WellWritten

SchemeText(scheme) == << scheme, ":", "/", "/" >>

\* What is written for a scheme.
LEMMA Schemes ==
    ASSUME NEW scheme \in {"http", "https"}
    PROVE  /\ SchemeText(scheme) \in Seq(TargetByte) /\ Len(SchemeText(scheme)) = 4
           /\ SchemeText(scheme)[1] = scheme /\ HasNo(SchemeText(scheme), Ends)
           /\ SchemeText(scheme) = Http \/ SchemeText(scheme) = Https
  <1> DEFINE pre == SchemeText(scheme)
  <1>1. {":", "/", "http", "https"} \subseteq TargetByte
    BY CharTypes
  <1>2. pre \in Seq(TargetByte)
    BY <1>1 DEF SchemeText
  <1>3. Len(pre) = 4 /\ pre[1] = scheme /\ pre[2] = ":" /\ pre[3] = "/" /\ pre[4] = "/"
    BY DEF SchemeText
  <1>4. pre = Http \/ pre = Https
    BY DEF SchemeText, Http, Https
  <1>5. scheme \notin Ends
    BY SafeChars, TargetsAssumption DEF Ends
  <1>6. HasNo(pre, Ends)
    <2> HIDE DEF pre
    <2> SUFFICES ASSUME NEW d \in Ends, NEW i \in 1 .. 4, pre[i] = d PROVE FALSE
      BY <1>2, <1>3 DEF HasNo, Contains
    <2>1. i \in {1, 2, 3, 4}
      OBVIOUS
    <2>2. ":" \notin Ends /\ "/" \notin Ends
      BY DEF Ends
    <2> QED BY <1>3, <1>5, <2>1, <2>2
  <1> QED BY <1>2, <1>3, <1>4, <1>6

\* The absolute form.
LEMMA AbsoluteWritten ==
    ASSUME NEW scheme \in {"http", "https"}, NEW authority \in Seq(TargetByte),
           authority # << >>, ~ Contains(authority, "/"),
           NEW path \in Seq(TargetByte), path # << >>, path[1] = "/", NEW query \in Query
    PROVE  WellWritten(Absolute(scheme, authority, path, query))
  <1> DEFINE t == Absolute(scheme, authority, path, query)
             pre == SchemeText(scheme)
             a == SerializePath(path)
             b == SerializeQuery(query)
             str == ((pre \o authority) \o a) \o b
  <1>0. "/" \in TargetByte /\ SLASH \in Seq(TargetByte)
    BY CharTypes, Tokens
  <1>1. SerializeTarget(t) = str
    BY DEF SerializeTarget, Absolute, SchemeText
  <1>2. /\ a \in Seq(TargetByte) /\ DecodeStr(a) = {path} /\ Len(a) = PathSize(path)
        /\ HasNo(a, Ends) /\ ~ Contains(a, "?")
    BY PathText, SizesOfParts DEF HasNo, Ends
  <1>3. b \in Seq(TargetByte) /\ Len(b) = QuerySize(query) /\ HasNo(b, Ends)
    BY QueryText DEF Query, HasNo, Ends
  <1>4. /\ pre \in Seq(TargetByte) /\ Len(pre) = 4 /\ pre[1] = scheme
        /\ HasNo(pre, Ends) /\ (pre = Http \/ pre = Https)
    BY Schemes
  <1>5. PICK rest \in Seq(TargetByte) : a = SLASH \o rest
    BY PathSlash DEF SLASH
  <1>6. t.form = "absolute" /\ t.authority = authority
    BY DEF Absolute
  <1>7. ReservedSize(t) = 4 + Len(authority) + PathSize(path) + QuerySize(query)
    BY DEF ReservedSize, Absolute
  <1> HIDE DEF pre, a, b, t
  <1>8. /\ str \in Seq(TargetByte)
        /\ Len(str) = 4 + Len(authority) + PathSize(path) + QuerySize(query)
    <2>1. str \in Seq(TargetByte) /\ Len(str) = Len(pre) + Len(authority) + Len(a) + Len(b)
      <3>1. pre \in Seq(TargetByte) /\ a \in Seq(TargetByte) /\ b \in Seq(TargetByte)
        BY <1>2, <1>3, <1>4
      <3> QED BY <3>1, FourJoined
    <2> HIDE DEF str
    <2> QED BY <1>2, <1>3, <1>4, <2>1
  <1>9. Fits(t, str)
    <2> HIDE DEF str
    <2> QED BY <1>6, <1>7, <1>8 DEF Fits
  <1>10. HasNo(Verbatim(t), Ends) => HasNo(str, Ends)
    <2>1. Verbatim(t) = authority
      BY <1>6 DEF Verbatim
    <2>2. pre \o authority \in Seq(TargetByte)
      BY <1>4, ConcatProperties
    <2>3. (pre \o authority) \o a \in Seq(TargetByte)
      BY <1>2, <2>2, ConcatProperties
    <2>4. HasNo(authority, Ends) => HasNo(pre \o authority, Ends)
      BY <1>4, HasNoJoined
    <2>5. HasNo(authority, Ends) => HasNo((pre \o authority) \o a, Ends)
      BY <1>2, <2>2, <2>4, HasNoJoined
    <2>6. HasNo(authority, Ends) => HasNo(str, Ends)
      BY <1>3, <2>3, <2>5, HasNoJoined
    <2> QED BY <2>1, <2>6
  \* What is behind the scheme.
  <1> DEFINE tail == rest \o b
             behind == authority \o (SLASH \o tail)
  <1>11. tail \in Seq(TargetByte) /\ behind \in Seq(TargetByte)
    <2>1. tail \in Seq(TargetByte)
      BY <1>3, ConcatProperties
    <2> HIDE DEF tail
    <2>2. SLASH \o tail \in Seq(TargetByte)
      BY <1>0, <2>1, ConcatProperties
    <2>3. behind \in Seq(TargetByte)
      BY <2>2, ConcatProperties
    <2> QED BY <2>1, <2>3
  <1>12. str = pre \o behind
    <2>1. Associates(SLASH, rest, b)
      BY <1>0, <1>3, Associate
    <2>2. a \o b = SLASH \o tail
      BY <1>5, <2>1 DEF Associates
    <2>3. pre \o authority \in Seq(TargetByte) /\ a \o b \in Seq(TargetByte)
      BY <1>2, <1>3, <1>4, ConcatProperties
    <2>4. Associates(pre \o authority, a, b)
      BY <1>2, <1>3, <2>3, Associate
    <2>5. Associates(pre, authority, a \o b)
      BY <1>4, <2>3, Associate
    <2>6. str = pre \o (authority \o (a \o b))
      BY <2>4, <2>5 DEF Associates
    <2> QED BY <2>2, <2>6
  <1>13. ~ Contains(rest, "?")
    BY <1>0, <1>2, <1>5, ContainsConcat
  <1> DEFINE split == TryFindSplitUnlimited(behind, SLASH)
             parts == TryFindSplitUnlimited(split.tail, QUESTION)
  <1>14. split.head = authority /\ split.tail = tail
    <2> HIDE DEF tail
    <2> QED BY <1>0, <1>11, SplitAt DEF SLASH
  <1>15. parts.head = rest /\ DeserializeQuery(parts.tail) = {query}
    <2>1. tail = rest \o SerializeQuery(query)
      BY DEF b
    <2> DEFINE part(x) == TryFindSplitUnlimited(x, QUESTION)
    <2>2. /\ part(rest \o SerializeQuery(query)).head = rest
          /\ DeserializeQuery(part(rest \o SerializeQuery(query)).tail) = {query}
      BY <1>13, PathAndQuery
    <2>3. parts = part(split.tail)
      OBVIOUS
    <2> HIDE DEF split, tail, parts, part
    <2> QED BY <1>14, <2>1, <2>2, <2>3
  <1> HIDE DEF behind, str
  <1>16. SubSeq(str, Len(Http) + 1, Len(str)) = behind
    <2>1. SubSeq(str, Len(pre) + 1, Len(str)) = behind
      BY <1>4, <1>11, <1>12, JoinedParts
    <2>2. Len(Http) = Len(pre)
      BY <1>4, Tokens
    <2> QED BY <2>1, <2>2
  <1>17. str[1] = scheme
    <2>1. IsPrefix(pre, str)
      BY <1>4, <1>11, <1>12, PrefixOfConcat
    <2>2. 1 \in 1 .. Len(pre)
      BY <1>4
    <2>3. str \in Seq(TargetByte) /\ pre \in Seq(TargetByte)
      BY <1>4, <1>8
    <2>4. str[1] = pre[1]
      BY <2>1, <2>2, <2>3, PrefixPart
    <2> QED BY <1>4, <2>4
  <1>18. DeserializeTarget(str) = DeserializeAbsoluteForm(str)
    <2>1. IsPrefix(pre, str)
      BY <1>4, <1>11, <1>12, PrefixOfConcat
    <2>2. IsPrefix(Http, str) \/ IsPrefix(Https, str)
      BY <1>4, <2>1
    <2> QED BY <1>8, <2>2, ReadByForm
  <1>19. DeserializeTarget(str) = {t}
    <2> DEFINE first == TryFindSplitUnlimited(SubSeq(str, Len(Http) + 1, Len(str)), SLASH)
               second == TryFindSplitUnlimited(first.tail, QUESTION)
               paths == DecodeStr(SLASH \o second.head)
               queries == DeserializeQuery(second.tail)
    <2>1. DeserializeAbsoluteForm(str) =
              IF first.head = << >> THEN Null
              ELSE {Absolute(str[1], first.head, p, q) : p \in paths, q \in queries}
      BY DEF DeserializeAbsoluteForm
    <2>2. first = split /\ second = parts
      BY <1>16
    <2> HIDE DEF first, second, split, parts
    <2>3. paths = {path} /\ queries = {query} /\ first.head = authority
      BY <1>2, <1>5, <1>14, <1>15, <2>2
    <2> HIDE DEF paths, queries
    <2>4. DeserializeAbsoluteForm(str) = {Absolute(scheme, authority, path, query)}
      BY <1>17, <2>1, <2>3
    <2> QED BY <1>18, <2>4 DEF t
  <1>20. WellWritten(t)
    BY <1>1, <1>8, <1>9, <1>10, <1>19 DEF WellWritten
  <1> QED BY <1>20 DEF t

\* The authority form.
LEMMA AuthorityWritten ==
    ASSUME NEW host \in Seq(TargetByte), host # << >>, ~ Contains(host, "/"),
           NEW port \in 0 .. 2 ^ 16 - 1
    PROVE  WellWritten(Authority(host, port))
  <1> DEFINE t == Authority(host, port)
             digits == Decimal[port]
             colon == << ":" >>
             front == host \o colon
             str == front \o digits
             m == Len(host)
  <1>0. ":" \in TargetByte
    BY CharTypes
  <1>1. SerializeTarget(t) = str
    BY DEF SerializeTarget, Authority
  <1>2. port \in Nat
    OBVIOUS
  <1>3. /\ digits \in Seq(TargetByte) /\ Len(digits) <= 5 /\ Len(digits) \in Nat
        /\ FromChars(digits, 10, 2 ^ 16) = port
    BY <1>2, DecimalText, PortLength, PortRead, LenProperties
  <1>4. ~ Contains(digits, "/") /\ ~ Contains(digits, ":") /\ HasNo(digits, Ends)
    <2>1. "/" \notin AlphaNum /\ ":" \notin AlphaNum /\ Ends \cap AlphaNum = {}
      BY SafeChars DEF Ends
    <2>2. \A d : d \notin AlphaNum => ~ Contains(digits, d)
      BY <1>2, DecimalText
    <2> QED BY <2>1, <2>2 DEF HasNo
  <1>5. t.form = "authority" /\ t.host = host
    BY DEF Authority
  <1>6. ReservedSize(t) = m + 1 + 5
    BY DEF ReservedSize, Authority
  <1>7. colon \in Seq(TargetByte) /\ Len(colon) = 1 /\ \A d : Contains(colon, d) <=> d = ":"
    BY <1>0, OneSymbol
  <1> HIDE DEF t, digits, colon
  <1>8. front \in Seq(TargetByte) /\ Len(front) = m + 1 /\ m \in Nat
    <2>1. front \in Seq(TargetByte) /\ Len(front) = Len(host) + Len(colon) /\ Len(host) \in Nat
      BY <1>7, ConcatProperties, LenProperties
    <2> HIDE DEF front
    <2> QED BY <1>7, <2>1
  <1> HIDE DEF front
  <1>9. str \in Seq(TargetByte) /\ Len(str) = (m + 1) + Len(digits)
    <2>1. str \in Seq(TargetByte) /\ Len(str) = Len(front) + Len(digits)
      BY <1>3, <1>8, ConcatProperties
    <2> HIDE DEF str, m
    <2> QED BY <1>3, <1>8, <2>1
  <1>10. Fits(t, str)
    <2> HIDE DEF str, m
    <2> QED BY <1>3, <1>5, <1>6, <1>8, <1>9 DEF Fits
  <1>11. HasNo(Verbatim(t), Ends) => HasNo(str, Ends)
    <2>1. Verbatim(t) = host
      BY <1>5 DEF Verbatim
    <2>2. HasNo(colon, Ends)
      BY <1>7 DEF HasNo, Ends
    <2>3. HasNo(host, Ends) => HasNo(front, Ends)
      BY <1>7, <2>2, HasNoJoined DEF front
    <2>4. HasNo(host, Ends) => HasNo(str, Ends)
      BY <1>3, <1>4, <1>8, <2>3, HasNoJoined
    <2> QED BY <2>1, <2>4
  <1>12. Contains(str, ":") /\ ~ Contains(str, "/")
    <2>1. Contains(front, ":") /\ ~ Contains(front, "/")
      BY <1>7, ContainsConcat DEF front
    <2> QED BY <1>3, <1>4, <1>8, <2>1, ContainsConcat
  <1>13. SubSeq(str, 1, m) = host /\ SubSeq(str, m + 2, Len(str)) = digits /\ str[m + 1] = ":"
    <2>1. Associates(host, colon, digits)
      BY <1>3, <1>7, Associate
    <2> DEFINE back == colon \o digits
    <2>2. back \in Seq(TargetByte)
      BY <1>3, <1>7, ConcatProperties
    <2>3. str = host \o back
      BY <2>1 DEF Associates, front
    <2>4. SubSeq(str, 1, m) = host
      <3> HIDE DEF back, str
      <3> QED BY <2>2, <2>3, JoinedParts
    <2>5. SubSeq(str, Len(front) + 1, Len(str)) = digits
      BY <1>3, <1>8, JoinedParts
    <2>6. Len(front) + 1 = m + 2
      BY <1>8
    <2>7. str[m + 1] = ":"
      <3>1. colon[1] = ":"
        BY DEF colon
      <3>2. /\ 1 \in 1 .. Len(colon) /\ m + 1 \in 1 .. Len(host) + Len(colon)
            /\ ~ (m + 1 <= Len(host)) /\ (m + 1) - Len(host) = 1
        BY <1>7, <1>8
      <3>3. front[m + 1] = ":"
        <4>1. (host \o colon)[m + 1] = colon[(m + 1) - Len(host)]
          BY <1>7, <3>2, ConcatProperties
        <4> HIDE DEF m
        <4> QED BY <3>1, <3>2, <4>1 DEF front
      <3>4. m + 1 \in 1 .. Len(front) + Len(digits) /\ m + 1 <= Len(front)
        BY <1>3, <1>8
      <3>5. str[m + 1] = front[m + 1]
        BY <1>3, <1>8, <3>4, ConcatProperties
      <3> QED BY <3>3, <3>5
    <2> QED BY <2>4, <2>5, <2>6, <2>7
  \* The last colon is the one before the port.
  <1> DEFINE colons == {i \in DOMAIN str : str[i] = ":"}
  <1>14. Max(colons) = m + 1
    <2>1. DOMAIN str = 1 .. (m + 1) + Len(digits) /\ m + 1 \in DOMAIN str
      BY <1>3, <1>8, <1>9
    <2>2. m + 1 \in colons /\ colons \in SUBSET (0 .. Len(str)) /\ Len(str) \in Nat
      BY <1>3, <1>8, <1>9, <1>13, <2>1
    <2>3. ASSUME NEW i \in colons PROVE i <= m + 1
      <3> SUFFICES ASSUME ~ (i <= m + 1) PROVE FALSE
        OBVIOUS
      <3>1. i \in 1 .. (m + 1) + Len(digits) /\ str[i] = ":"
        BY <2>1
      <3>2. i \in 1 .. Len(front) + Len(digits) /\ ~ (i <= Len(front))
        BY <1>8, <3>1
      <3>3. str[i] = digits[i - Len(front)]
        BY <1>3, <1>8, <3>2, ConcatProperties
      <3>4. i - Len(front) \in 1 .. Len(digits)
        BY <1>3, <1>8, <3>2
      <3> QED BY <1>4, <3>1, <3>3, <3>4 DEF Contains
    <2> HIDE DEF colons, m
    <2>4. Max(colons) \in colons /\ \A x \in colons : x <= Max(colons)
      BY <2>2, MaxProperties
    <2>5. Max(colons) <= m + 1 /\ m + 1 <= Max(colons)
      BY <2>2, <2>3, <2>4
    <2> DEFINE last == Max(colons)
    <2>6. last \in colons /\ last <= m + 1 /\ m + 1 <= last
      BY <2>4, <2>5
    <2> HIDE DEF last
    <2>7. last \in Int
      <3>1. Len(str) \in Nat /\ colons \in SUBSET (0 .. Len(str))
        BY <2>2
      <3> HIDE DEF str
      <3> QED BY <2>6, <3>1
    <2> QED BY <1>8, <2>6, <2>7 DEF last
  <1>15. DeserializeTarget(str) = {t}
    <2> DEFINE k == Max(colons)
    <2>1. k - 1 = m /\ k + 1 = m + 2
      <3> HIDE DEF colons, m
      <3> QED BY <1>8, <1>14
    <2>2. DeserializeTarget(str) = DeserializeAuthorityForm(str)
      BY <1>9, <1>12, ReadByForm
    <2>3. DeserializeAuthorityForm(str) =
              IF SubSeq(str, 1, k - 1) = << >> \/ FromChars(SubSeq(str, k + 1, Len(str)), 10, 2 ^ 16) = NoNumber
              THEN Null
              ELSE {Authority(SubSeq(str, 1, k - 1), FromChars(SubSeq(str, k + 1, Len(str)), 10, 2 ^ 16))}
      BY DEF DeserializeAuthorityForm
    <2> HIDE DEF k, m, str
    <2>4. DeserializeAuthorityForm(str) =
              IF host = << >> \/ port = NoNumber THEN Null ELSE {Authority(host, port)}
      BY <1>3, <1>13, <2>1, <2>3
    <2>5. port # NoNumber
      BY DEF NoNumber
    <2> QED BY <2>2, <2>4, <2>5 DEF t
  <1>16. WellWritten(t)
    <2> HIDE DEF str
    <2> QED BY <1>1, <1>9, <1>10, <1>11, <1>15 DEF WellWritten
  <1> QED BY <1>16 DEF t

\* Every well-formed target is written so that it is read again.
LEMMA TargetWritten ==
    ASSUME NEW t \in GoodTargets
    PROVE  WellWritten(t)
  <1>0. t \in TargetType /\ WellFormed(t)
    BY DEF GoodTargets
  <1>1. CASE t \in [form : {"origin"}, path : Seq(TargetByte), query : Query]
    <2>1. t = Origin(t.path, t.query) /\ t.form = "origin" /\ t.path \in Seq(TargetByte) /\ t.query \in Query
      BY <1>1 DEF Origin
    <2>2. t.path # << >> /\ t.path[1] = "/"
      BY <1>0, <2>1 DEF WellFormed
    <2>3. WellWritten(Origin(t.path, t.query))
      BY <2>1, <2>2, OriginWritten
    <2> QED BY <2>1, <2>3
  <1>2. CASE t \in [form : {"absolute"}, scheme : {"http", "https"}, authority : Seq(TargetByte),
                    path : Seq(TargetByte), query : Query]
    <2>1. /\ t = Absolute(t.scheme, t.authority, t.path, t.query) /\ t.form = "absolute"
          /\ t.scheme \in {"http", "https"} /\ t.authority \in Seq(TargetByte)
          /\ t.path \in Seq(TargetByte) /\ t.query \in Query
      BY <1>2 DEF Absolute
    <2>2. t.path # << >> /\ t.path[1] = "/" /\ t.authority # << >> /\ ~ Contains(t.authority, "/")
      BY <1>0, <2>1 DEF WellFormed
    <2>3. WellWritten(Absolute(t.scheme, t.authority, t.path, t.query))
      BY <2>1, <2>2, AbsoluteWritten
    <2> QED BY <2>1, <2>3
  <1>3. CASE t \in [form : {"authority"}, host : Seq(TargetByte), port : 0 .. 2 ^ 16 - 1]
    <2>1. /\ t = Authority(t.host, t.port) /\ t.form = "authority"
          /\ t.host \in Seq(TargetByte) /\ t.port \in 0 .. 2 ^ 16 - 1
      BY <1>3 DEF Authority
    <2>2. t.host # << >> /\ ~ Contains(t.host, "/")
      BY <1>0, <2>1 DEF WellFormed
    <2>3. WellWritten(Authority(t.host, t.port))
      BY <2>1, <2>2, AuthorityWritten
    <2> QED BY <2>1, <2>3
  <1>4. CASE t = Asterisk
    BY <1>4, AsteriskWritten
  <1> QED BY <1>0, <1>1, <1>2, <1>3, <1>4 DEF TargetType

-----------------------------------------------------------------------------
(* What a string means, symbol by symbol. *)

\* What each symbol adds to the meaning.
Pieces(str, spaces) == [i \in DOMAIN str |-> Meant(str, spaces, i)]

\* rest is str without its first k symbols.
IsRest(str, k, rest) ==
    /\ Len(str) = k + Len(rest)
    /\ \A i \in 1 .. Len(rest) : str[k + i] = rest[i]

\* Where the percent signs are.
LEMMA EscapesIn ==
    ASSUME NEW str \in Seq(TargetByte), NEW i
    PROVE  i \in Escapes(str) <=> i \in 1 .. Len(str) /\ str[i] = "%"
  BY DEF Escapes

\* A string without a broken escape has as many pieces as symbols.
LEMMA PieceTypes ==
    ASSUME NEW str \in Seq(TargetByte), NEW spaces, Broken(str) = {}
    PROVE  /\ Pieces(str, spaces) \in Seq(Seq(TargetByte))
           /\ Len(Pieces(str, spaces)) = Len(str)
           /\ \A i \in 1 .. Len(str) : Pieces(str, spaces)[i] = Meant(str, spaces, i)
  <1>1. ASSUME NEW i \in DOMAIN str PROVE Meant(str, spaces, i) \in Seq(TargetByte)
    <2>1. << >> \in Seq(TargetByte)
      BY EmptySeq
    <2>2. ASSUME i \in Escapes(str)
          PROVE  << CharOf[16 * Digit[str[i + 1]] + Digit[str[i + 2]]] >> \in Seq(TargetByte)
      <3>1. {str[i + 1], str[i + 2]} \subseteq DOMAIN Digit
        BY <2>2 DEF Broken
      <3> DEFINE high == str[i + 1]
                 low == str[i + 2]
      <3> HIDE DEF high, low
      <3>2. DecodeByte(high, low) = {CharOf[16 * Digit[high] + Digit[low]]}
        BY <3>1 DEF DecodeByte, high, low
      <3>3. DecodeByte(high, low) \in SUBSET TargetByte
        BY DecodeByteType
      <3>4. CharOf[16 * Digit[high] + Digit[low]] \in TargetByte
        BY <3>2, <3>3
      <3> QED BY <3>4 DEF high, low
    <2>3. Plain(str[i], spaces) \in TargetByte
      <3>1. str[i] \in TargetByte
        OBVIOUS
      <3> QED BY <3>1, CharTypes DEF Plain
    <2> DEFINE c == Plain(str[i], spaces)
    <2>4. c = IF str[i] \in spaces THEN " " ELSE str[i]
      BY DEF Plain
    <2> HIDE DEF c
    <2>5. << c >> \in Seq(TargetByte)
      BY <2>3 DEF c
    <2> QED BY <2>1, <2>2, <2>4, <2>5 DEF Meant
  <1>2. DOMAIN str = 1 .. Len(str) /\ Len(str) \in Nat
    BY LenProperties
  <1>3. Pieces(str, spaces) \in [1 .. Len(str) -> Seq(TargetByte)]
    BY <1>1, <1>2 DEF Pieces
  <1>4. \A i \in 1 .. Len(str) : Pieces(str, spaces)[i] = Meant(str, spaces, i)
    BY <1>2 DEF Pieces
  <1>5. Pieces(str, spaces) \in Seq(Seq(TargetByte)) /\ Len(Pieces(str, spaces)) = Len(str)
    BY <1>2, <1>3
  <1> QED BY <1>4, <1>5

\* What stands in the rest means there what it means in the string, when no
\* escape reaches into the rest.
LEMMA MeantInRest ==
    ASSUME NEW str \in Seq(TargetByte), NEW rest \in Seq(TargetByte), NEW k \in Nat,
           IsRest(str, k, rest), k \notin Escapes(str), k - 1 \notin Escapes(str), NEW spaces
    PROVE  \A i \in 1 .. Len(rest) :
              /\ i \notin Broken(rest) => Meant(str, spaces, k + i) = Meant(rest, spaces, i)
              /\ k + i \in Broken(str) <=> i \in Broken(rest)
  <1> DEFINE n == Len(rest)
  <1>1. n \in Nat /\ Len(str) = k + n /\ Len(str) \in Nat /\ \A i \in 1 .. n : str[k + i] = rest[i]
    BY LenProperties DEF IsRest
  <1>2. ASSUME NEW i \in 1 .. n PROVE k + i \in Escapes(str) <=> i \in Escapes(rest)
    <2>1. k + i \in 1 .. Len(str) /\ str[k + i] = rest[i]
      BY <1>1
    <2> QED BY <2>1, EscapesIn
  <1> SUFFICES ASSUME NEW i \in 1 .. n
               PROVE  /\ i \notin Broken(rest) => Meant(str, spaces, k + i) = Meant(rest, spaces, i)
                      /\ k + i \in Broken(str) <=> i \in Broken(rest)
    OBVIOUS
  <1>3. (k + i) - 1 \in Escapes(str) <=> i - 1 \in Escapes(rest)
    <2>1. CASE i = 1
      <3>1. (k + i) - 1 = k /\ i - 1 \notin 1 .. n
        BY <1>1, <2>1
      <3> QED BY <3>1, EscapesIn
    <2>2. CASE i # 1
      <3>1. i - 1 \in 1 .. n /\ (k + i) - 1 = k + (i - 1)
        BY <1>1, <2>2
      <3> QED BY <1>2, <3>1
    <2> QED BY <2>1, <2>2
  <1>4. (k + i) - 2 \in Escapes(str) <=> i - 2 \in Escapes(rest)
    <2>1. CASE i = 1
      <3>1. (k + i) - 2 = k - 1 /\ i - 2 \notin 1 .. n
        BY <1>1, <2>1
      <3> QED BY <3>1, EscapesIn
    <2>2. CASE i = 2
      <3>1. (k + i) - 2 = k /\ i - 2 \notin 1 .. n
        BY <1>1, <2>2
      <3> QED BY <3>1, EscapesIn
    <2>3. CASE i # 1 /\ i # 2
      <3>1. i - 2 \in 1 .. n /\ (k + i) - 2 = k + (i - 2)
        BY <1>1, <2>3
      <3> QED BY <1>2, <3>1
    <2> QED BY <2>1, <2>2, <2>3
  <1> DEFINE j == k + i
  <1>5. (j + 2 > Len(str)) <=> (i + 2 > n)
    BY <1>1
  <1>6. i + 2 <= n => str[j + 1] = rest[i + 1] /\ str[j + 2] = rest[i + 2]
    <2> SUFFICES ASSUME i + 2 <= n PROVE str[j + 1] = rest[i + 1] /\ str[j + 2] = rest[i + 2]
      OBVIOUS
    <2>1. /\ i + 1 \in 1 .. n /\ i + 2 \in 1 .. n
          /\ j + 1 = k + (i + 1) /\ j + 2 = k + (i + 2)
      BY <1>1
    <2> QED BY <1>1, <2>1
  <1>7. str[j] = rest[i] /\ (j \in Escapes(str) <=> i \in Escapes(rest))
    BY <1>1, <1>2
  <1>8. i + 2 > n <=> ~ (i + 2 <= n)
    BY <1>1
  <1> HIDE DEF j, n
  <1>9. j \in Broken(str) <=> i \in Broken(rest)
    <2>1. j \in Broken(str) <=>
            j \in Escapes(str) /\ (j + 2 > Len(str) \/ ~ {str[j + 1], str[j + 2]} \subseteq DOMAIN Digit)
      BY DEF Broken
    <2>2. i \in Broken(rest) <=>
            i \in Escapes(rest) /\ (i + 2 > n \/ ~ {rest[i + 1], rest[i + 2]} \subseteq DOMAIN Digit)
      BY DEF Broken, n
    <2> QED BY <1>5, <1>6, <1>7, <1>8, <2>1, <2>2
  <1>10. j - 1 \in Escapes(str) <=> i - 1 \in Escapes(rest)
    BY <1>3 DEF j
  <1>11. j - 2 \in Escapes(str) <=> i - 2 \in Escapes(rest)
    BY <1>4 DEF j
  <1>12. ASSUME i \notin Broken(rest) PROVE Meant(str, spaces, j) = Meant(rest, spaces, i)
    <2>1. i \in Escapes(rest) => i + 2 <= n
      BY <1>8, <1>12 DEF Broken, n
    <2>2. CASE {i - 1, i - 2} \cap Escapes(rest) # {}
      <3>1. {j - 1, j - 2} \cap Escapes(str) # {}
        BY <1>10, <1>11, <2>2
      <3> QED BY <2>2, <3>1 DEF Meant
    <2>3. CASE {i - 1, i - 2} \cap Escapes(rest) = {}
      <3>1. {j - 1, j - 2} \cap Escapes(str) = {}
        BY <1>10, <1>11, <2>3
      <3> QED BY <1>6, <1>7, <2>1, <2>3, <3>1 DEF Meant
    <2> QED BY <2>2, <2>3
  <1> QED BY <1>9, <1>12 DEF j

\* A string is its first k symbols and the rest.
LEMMA RestExists ==
    ASSUME NEW S, NEW str \in Seq(S), NEW k \in Nat, k <= Len(str)
    PROVE  \E rest \in Seq(S) : IsRest(str, k, rest)
  <1> DEFINE n == Len(str)
             rest == SubSeq(str, k + 1, n)
  <1>1. n \in Nat /\ n \in 0 .. Len(str) /\ k \in 0 .. n
    BY LenProperties
  <1>2. rest \in Seq(S) /\ Len(rest) = n - k /\ \A i \in 1 .. n - k : rest[i] = str[k + i]
    BY <1>1, Piece
  <1> HIDE DEF rest
  <1>3. Len(str) = k + Len(rest)
    BY <1>1, <1>2
  <1> QED BY <1>2, <1>3 DEF IsRest

\* The meaning of a string whose first k symbols mean head and whose escapes do
\* not reach into the rest.
LEMMA MeaningJoins ==
    ASSUME NEW str \in Seq(TargetByte), NEW rest \in Seq(TargetByte), NEW k \in Nat, NEW spaces,
           IsRest(str, k, rest), k \notin Escapes(str), k - 1 \notin Escapes(str),
           \A i \in 1 .. k : i \notin Broken(str),
           NEW head,
           Broken(str) = {} => FlattenSeq(SubSeq(Pieces(str, spaces), 1, k)) = head
    PROVE  MeaningOf(str, spaces) = Ahead(head, MeaningOf(rest, spaces))
  <1>1. Len(str) = k + Len(rest) /\ Len(rest) \in Nat
    BY LenProperties DEF IsRest
  <1>2. Broken(str) = {} <=> Broken(rest) = {}
    <2>1. ASSUME NEW i, i \in Broken(str) PROVE Broken(rest) # {}
      <3>1. i \in 1 .. k + Len(rest)
        BY <1>1, <2>1, EscapesIn DEF Broken
      <3>2. i \notin 1 .. k
        BY <2>1
      <3>3. i - k \in 1 .. Len(rest) /\ k + (i - k) = i
        BY <1>1, <3>1, <3>2
      <3>4. k + (i - k) \in Broken(str) <=> i - k \in Broken(rest)
        BY <3>3, MeantInRest
      <3> QED BY <2>1, <3>3, <3>4
    <2>2. ASSUME NEW i, i \in Broken(rest) PROVE Broken(str) # {}
      <3>1. i \in 1 .. Len(rest)
        BY <2>2, EscapesIn DEF Broken
      <3>2. k + i \in Broken(str) <=> i \in Broken(rest)
        BY <3>1, MeantInRest
      <3> QED BY <2>2, <3>2
    <2> QED BY <2>1, <2>2
  <1>3. CASE Broken(str) # {}
    <2>1. MeaningOf(str, spaces) = {} /\ MeaningOf(rest, spaces) = {}
      BY <1>2, <1>3 DEF MeaningOf, Null
    <2> QED BY <2>1 DEF Ahead
  <1>4. CASE Broken(str) = {}
    <2> DEFINE q == Pieces(str, spaces)
               r == Pieces(rest, spaces)
    <2>1. q \in Seq(Seq(TargetByte)) /\ Len(q) = Len(str) /\ \A i \in 1 .. Len(str) : q[i] = Meant(str, spaces, i)
      BY <1>4, PieceTypes
    <2>2. r \in Seq(Seq(TargetByte)) /\ Len(r) = Len(rest) /\ \A i \in 1 .. Len(rest) : r[i] = Meant(rest, spaces, i)
      BY <1>2, <1>4, PieceTypes
    <2>3. MeaningOf(str, spaces) = {FlattenSeq(q)} /\ MeaningOf(rest, spaces) = {FlattenSeq(r)}
      BY <1>2, <1>4 DEF MeaningOf, Pieces
    <2>4. FlattenSeq(SubSeq(q, 1, k)) = head
      BY <1>4
    <2> HIDE DEF q, r
    <2>5. \A i \in 1 .. Len(r) : q[k + i] = r[i]
      <3> SUFFICES ASSUME NEW i \in 1 .. Len(rest) PROVE q[k + i] = r[i]
        BY <2>2
      <3>1. k + i \in 1 .. Len(str)
        BY <1>1
      <3>2. i \notin Broken(rest)
        BY <1>2, <1>4
      <3>3. Meant(str, spaces, k + i) = Meant(rest, spaces, i)
        BY <3>2, MeantInRest
      <3> QED BY <2>1, <2>2, <3>1, <3>3
    <2>6. FlattenSeq(q) = head \o FlattenSeq(r)
      <3>1. Len(q) = k + Len(r)
        BY <1>1, <2>1, <2>2
      <3> QED BY <2>1, <2>2, <2>4, <2>5, <3>1, FlattenRest
    <2> QED BY <2>3, <2>6 DEF Ahead
  <1> QED BY <1>3, <1>4

\* One symbol in front of a rest.
LEMMA ConsOfRest ==
    ASSUME NEW head, NEW rests
    PROVE  Ahead(<< head >>, rests) = PrependOne(head, rests)
  BY DEF PrependOne, Cons, Ahead

\* A symbol that begins no escape, in front of a rest.
LEMMA FirstPlain ==
    ASSUME NEW str \in Seq(TargetByte), NEW rest \in Seq(TargetByte), NEW spaces,
           IsRest(str, 1, rest), str[1] # "%"
    PROVE  MeaningOf(str, spaces) = PrependOne(Plain(str[1], spaces), MeaningOf(rest, spaces))
  <1>1. Len(str) >= 1 /\ Len(str) \in Nat
    BY LenProperties DEF IsRest
  <1>2. 1 \notin Escapes(str) /\ 1 - 1 \notin Escapes(str) /\ 1 - 2 \notin Escapes(str)
    BY EscapesIn
  <1>3. \A i \in 1 .. 1 : i \notin Broken(str)
    BY <1>2 DEF Broken
  <1> DEFINE head == << Plain(str[1], spaces) >>
  <1>4. ASSUME Broken(str) = {} PROVE FlattenSeq(SubSeq(Pieces(str, spaces), 1, 1)) = head
    <2> DEFINE q == Pieces(str, spaces)
    <2>1. q \in Seq(Seq(TargetByte)) /\ Len(q) = Len(str) /\ \A i \in 1 .. Len(str) : q[i] = Meant(str, spaces, i)
      BY <1>4, PieceTypes
    <2> HIDE DEF q
    <2>2. FlattenSeq(SubSeq(q, 1, 1)) = q[1]
      BY <1>1, <2>1, FlattenFirst
    <2>3. q[1] = Meant(str, spaces, 1)
      BY <1>1, <2>1
    <2>4. Meant(str, spaces, 1) = head
      BY <1>2 DEF Meant, Plain
    <2> QED BY <2>2, <2>3, <2>4 DEF q
  <1> HIDE DEF head
  <1>5. MeaningOf(str, spaces) = Ahead(head, MeaningOf(rest, spaces))
    <2>1. 1 \in Nat /\ 1 - 1 = 0
      OBVIOUS
    <2>2. Broken(str) = {} => FlattenSeq(SubSeq(Pieces(str, spaces), 1, 1)) = head
      BY <1>4
    <2> QED BY <1>2, <1>3, <2>1, <2>2, MeaningJoins
  <1> QED BY <1>5, ConsOfRest DEF head

\* An escape that is whole, in front of a rest.
LEMMA FirstEscape ==
    ASSUME NEW str \in Seq(TargetByte), NEW rest \in Seq(TargetByte), NEW spaces,
           IsRest(str, 3, rest), str[1] = "%", {str[2], str[3]} \subseteq DOMAIN Digit
    PROVE  MeaningOf(str, spaces) = Prepend(DecodeByte(str[2], str[3]), MeaningOf(rest, spaces))
  <1>1. Len(str) >= 3 /\ Len(str) \in Nat
    BY LenProperties DEF IsRest
  <1>2. str[2] # "%" /\ str[3] # "%"
    <2>1. "%" \notin DOMAIN Digit
      BY TargetsAssumption
    <2>2. str[2] \in DOMAIN Digit /\ str[3] \in DOMAIN Digit
      OBVIOUS
    <2> QED BY <2>1, <2>2
  <1>3. /\ 1 \in Escapes(str) /\ 2 \notin Escapes(str) /\ 3 \notin Escapes(str)
        /\ 0 \notin Escapes(str) /\ -1 \notin Escapes(str)
    BY <1>1, <1>2, EscapesIn
  <1>4. 1 \notin Broken(str) /\ 2 \notin Broken(str) /\ 3 \notin Broken(str)
    BY <1>1, <1>3 DEF Broken
  <1>5. \A i \in 1 .. 3 : i \notin Broken(str)
    BY <1>4
  <1> DEFINE c == CharOf[16 * Digit[str[2]] + Digit[str[3]]]
  <1>6. DecodeByte(str[2], str[3]) = {c}
    BY DEF DecodeByte
  <1> HIDE DEF c
  <1> DEFINE head == << c >>
  <1>7. ASSUME Broken(str) = {} PROVE FlattenSeq(SubSeq(Pieces(str, spaces), 1, 3)) = head
    <2> DEFINE q == Pieces(str, spaces)
    <2>1. q \in Seq(Seq(TargetByte)) /\ Len(q) = Len(str) /\ \A i \in 1 .. Len(str) : q[i] = Meant(str, spaces, i)
      BY <1>7, PieceTypes
    <2> HIDE DEF q
    <2>2. /\ q[1] = Meant(str, spaces, 1) /\ q[2] = Meant(str, spaces, 2)
          /\ q[3] = Meant(str, spaces, 3)
      BY <1>1, <2>1
    <2>3. Meant(str, spaces, 1) = head
      <3>1. {1 - 1, 1 - 2} \cap Escapes(str) = {}
        BY <1>3
      <3> QED BY <1>3, <3>1 DEF Meant, c
    <2>4. Meant(str, spaces, 2) = << >>
      <3>1. {2 - 1, 2 - 2} \cap Escapes(str) # {}
        BY <1>3
      <3> QED BY <3>1 DEF Meant
    <2>5. Meant(str, spaces, 3) = << >>
      <3>1. {3 - 1, 3 - 2} \cap Escapes(str) # {}
        BY <1>3
      <3> QED BY <3>1 DEF Meant
    <2>6. FlattenSeq(SubSeq(q, 1, 3)) = q[1]
      BY <1>1, <2>1, <2>2, <2>4, <2>5, FlattenOneOfThree
    <2> QED BY <2>2, <2>3, <2>6 DEF q
  <1> HIDE DEF head
  <1>8. MeaningOf(str, spaces) = Ahead(head, MeaningOf(rest, spaces))
    <2>1. 3 \in Nat /\ 3 - 1 = 2
      OBVIOUS
    <2>2. 3 - 1 \notin Escapes(str)
      BY <1>3, <2>1
    <2>3. Broken(str) = {} => FlattenSeq(SubSeq(Pieces(str, spaces), 1, 3)) = head
      BY <1>7
    <2> QED BY <1>3, <1>5, <2>1, <2>2, <2>3, MeaningJoins
  <1>9. Prepend({c}, MeaningOf(rest, spaces)) = PrependOne(c, MeaningOf(rest, spaces))
    BY DEF Prepend, PrependOne
  <1> QED BY <1>6, <1>8, <1>9, ConsOfRest DEF head

\* Decode reads a string as what it means.
LEMMA DecodeMeaning ==
    ASSUME NEW spaces, NEW encoded \in Seq(TargetByte)
    PROVE  Decode(encoded, spaces) = MeaningOf(encoded, spaces)
  <1> DEFINE Reads(str) == Decode(str, spaces) = MeaningOf(str, spaces)
             P == {n \in Nat : \A str \in Seq(TargetByte) : Len(str) <= n => Reads(str)}
  <1>1. ASSUME NEW str \in Seq(TargetByte), Len(str) = 0 PROVE Reads(str)
    <2>1. str = << >>
      BY <1>1, EmptySeq
    <2>2. Broken(str) = {}
      <3>1. \A i : i \notin Escapes(str)
        <4>1. 1 .. Len(str) = {}
          BY <1>1
        <4> QED BY <4>1, EscapesIn
      <3> QED BY <3>1 DEF Broken
    <2>3. Pieces(str, spaces) \in Seq(Seq(TargetByte)) /\ Len(Pieces(str, spaces)) = 0
      BY <1>1, <2>2, PieceTypes
    <2>4. Pieces(str, spaces) = << >>
      BY <2>3, EmptySeq
    <2>5. MeaningOf(str, spaces) = {<< >>}
      BY <2>2, <2>4, FlattenEmpty DEF MeaningOf, Pieces
    <2>6. Decode(str, spaces) = {<< >>}
      BY <2>1, DecodeEmpty
    <2> QED BY <2>5, <2>6
  <1>2. ASSUME NEW str \in Seq(TargetByte), Len(str) # 0,
               \A rest \in Seq(TargetByte) : Len(rest) < Len(str) => Reads(rest)
        PROVE  Reads(str)
    <2>1. Len(str) \in Nat /\ Len(str) >= 1
      BY <1>2, LenProperties
    <2>2. PICK f : /\ Decode(str, spaces) = DecodeFrom(f, str, spaces, 1)
                   /\ \A rest \in Seq(TargetByte), k \in Nat :
                         /\ Len(str) = k + Len(rest)
                         /\ \A i \in 1 .. Len(rest) : str[k + i] = rest[i]
                         => f[k + 1] = Decode(rest, spaces)
      BY DecodeFirst
    <2>3. ASSUME NEW k \in Nat, k >= 1, NEW rest \in Seq(TargetByte), IsRest(str, k, rest)
          PROVE  f[k + 1] = MeaningOf(rest, spaces)
      <3>1. f[k + 1] = Decode(rest, spaces)
        BY <2>2, <2>3 DEF IsRest
      <3>2. Len(rest) < Len(str)
        <4>1. Len(rest) \in Nat /\ Len(str) = k + Len(rest)
          BY <2>3, LenProperties DEF IsRest
        <4> QED BY <2>3, <4>1
      <3> QED BY <1>2, <3>1, <3>2
    <2>4. CASE str[1] # "%"
      <3>1. PICK rest \in Seq(TargetByte) : IsRest(str, 1, rest)
        BY <2>1, RestExists
      <3>2. f[1 + 1] = MeaningOf(rest, spaces)
        BY <2>3, <3>1
      <3>3. DecodeFrom(f, str, spaces, 1) = PrependOne(Plain(str[1], spaces), f[1 + 1])
        BY <2>1, <2>4 DEF DecodeFrom
      <3>4. MeaningOf(str, spaces) = PrependOne(Plain(str[1], spaces), MeaningOf(rest, spaces))
        BY <2>4, <3>1, FirstPlain
      <3> QED BY <2>2, <3>2, <3>3, <3>4
    <2>5. CASE str[1] = "%" /\ 3 > Len(str)
      <3>1. 1 \in Broken(str)
        BY <2>1, <2>5, EscapesIn DEF Broken
      <3>2. MeaningOf(str, spaces) = Null
        BY <3>1 DEF MeaningOf
      <3>3. DecodeFrom(f, str, spaces, 1) = Null
        BY <2>1, <2>5 DEF DecodeFrom
      <3> QED BY <2>2, <3>2, <3>3
    <2>6. CASE str[1] = "%" /\ ~ (3 > Len(str)) /\ ~ {str[2], str[3]} \subseteq DOMAIN Digit
      <3>1. 1 \in Broken(str)
        BY <2>1, <2>6, EscapesIn DEF Broken
      <3>2. MeaningOf(str, spaces) = Null
        BY <3>1 DEF MeaningOf
      <3>3. DecodeFrom(f, str, spaces, 1) = Prepend(DecodeByte(str[2], str[3]), f[1 + 3])
        BY <2>1, <2>6 DEF DecodeFrom
      <3>4. DecodeByte(str[2], str[3]) = Null
        BY <2>6 DEF DecodeByte
      <3>5. Prepend(Null, f[1 + 3]) = Null
        BY DEF Prepend, Null
      <3> QED BY <2>2, <3>2, <3>3, <3>4, <3>5
    <2>7. CASE str[1] = "%" /\ ~ (3 > Len(str)) /\ {str[2], str[3]} \subseteq DOMAIN Digit
      <3>1. PICK rest \in Seq(TargetByte) : IsRest(str, 3, rest)
        BY <2>1, <2>7, RestExists
      <3>2. f[3 + 1] = MeaningOf(rest, spaces)
        BY <2>3, <3>1
      <3>3. DecodeFrom(f, str, spaces, 1) = Prepend(DecodeByte(str[2], str[3]), f[1 + 3])
        BY <2>1, <2>7 DEF DecodeFrom
      <3>4. MeaningOf(str, spaces) = Prepend(DecodeByte(str[2], str[3]), MeaningOf(rest, spaces))
        BY <2>7, <3>1, FirstEscape
      <3> QED BY <2>2, <3>2, <3>3, <3>4
    <2> QED BY <2>4, <2>5, <2>6, <2>7
  <1>3. \A s \in Seq(TargetByte) : Len(s) \in Nat
    BY LenProperties
  <1> HIDE DEF Reads
  <1>4. 0 \in P
    BY <1>1, <1>3
  <1>5. ASSUME NEW n \in Nat, n \in P PROVE n + 1 \in P
    <2> SUFFICES ASSUME NEW str \in Seq(TargetByte), Len(str) <= n + 1 PROVE Reads(str)
      OBVIOUS
    <2>1. \A rest \in Seq(TargetByte) : Len(rest) < Len(str) => Len(rest) <= n
      BY <1>3
    <2>2. \A rest \in Seq(TargetByte) : Len(rest) < Len(str) => Reads(rest)
      BY <1>5, <2>1
    <2> QED BY <1>1, <1>2, <2>2
  <1>6. Nat \subseteq P
    <2> HIDE DEF P
    <2> QED BY <1>4, <1>5, NatByInduction
  <1>7. Len(encoded) \in P /\ Len(encoded) <= Len(encoded)
    BY <1>3, <1>6
  <1>8. Reads(encoded)
    BY <1>7
  <1> QED BY <1>8 DEF Reads

-----------------------------------------------------------------------------
(* The relay. *)

RelayInv ==
    /\ at \in {"text", "target", "refused"}
    /\ text \in Seq(TargetByte)
    /\ IsMaybe(target, GoodTargets)
    /\ IsMaybe(written, GoodTargets)
    /\ \A t \in written : text = SerializeTarget(t)
    /\ at # "text" /\ written # Null => target = written

\* The initial states.
LEMMA RelayStarts == Init => RelayInv
  <1> SUFFICES ASSUME Init PROVE RelayInv
    OBVIOUS
  <1>1. CASE /\ at = "text" /\ text \in Texts /\ target = Null /\ written = Null
    BY <1>1, RelayAssumption DEF RelayInv, IsMaybe, Null
  <1>2. CASE /\ at = "target" /\ text = << >> /\ target \in {{t} : t \in AppTargets} /\ written = Null
    <2>1. PICK t \in AppTargets : target = {t}
      BY <1>2
    <2>2. t \in GoodTargets
      BY RelayAssumption DEF GoodTargets
    <2>3. << >> \in Seq(TargetByte)
      OBVIOUS
    <2> QED BY <1>2, <2>1, <2>2, <2>3 DEF RelayInv, IsMaybe, Null
  <1> QED BY <1>1, <1>2 DEF Init

\* Each step.
LEMMA RelaySteps == RelayInv /\ [Next]_vars => RelayInv'
  <1> SUFFICES ASSUME RelayInv, [Next]_vars PROVE RelayInv'
    OBVIOUS
  <1>1. CASE Deserialize
    <2>1. at = "text" /\ target' = DeserializeTarget(text) /\ text' = text /\ written' = written
      BY <1>1 DEF Deserialize
    <2>2. at' \in {"text", "target", "refused"}
      BY <1>1 DEF Deserialize
    <2>3. IsMaybe(target', GoodTargets)
      BY <2>1, TargetRead DEF RelayInv
    <2>4. written # Null => target' = written
      <3> SUFFICES ASSUME written # Null PROVE target' = written
        OBVIOUS
      <3>1. PICK t \in GoodTargets : written = {t}
        BY DEF RelayInv, IsMaybe
      <3>2. text = SerializeTarget(t)
        BY <3>1 DEF RelayInv
      <3>3. DeserializeTarget(SerializeTarget(t)) = {t}
        BY TargetWritten DEF WellWritten
      <3> QED BY <2>1, <3>1, <3>2, <3>3
    <2> QED BY <2>1, <2>2, <2>3, <2>4 DEF RelayInv
  <1>2. CASE Serialize
    <2>1. PICK t \in target : text' = SerializeTarget(t)
      BY <1>2 DEF Serialize
    <2>2. at' = "text" /\ written' = target /\ target' = target
      BY <1>2 DEF Serialize
    <2>3. target = {t} /\ t \in GoodTargets
      BY <2>1 DEF RelayInv, IsMaybe, Null
    <2>4. text' \in Seq(TargetByte)
      BY <2>1, <2>3, TargetWritten DEF WellWritten
    <2>5. IsMaybe(target, GoodTargets)
      BY DEF RelayInv
    <2> QED BY <2>1, <2>2, <2>3, <2>4, <2>5 DEF RelayInv
  <1>3. CASE UNCHANGED vars
    BY <1>3 DEF RelayInv, vars
  <1> QED BY <1>1, <1>2, <1>3 DEF Next

\* The invariant of the relay.
LEMMA RelayInvariant == Spec => []RelayInv
  BY RelayStarts, RelaySteps, PTL DEF Spec

\* A maybe has one element or none.
LEMMA MaybeSize ==
    ASSUME NEW m, NEW S, IsMaybe(m, S)
    PROVE  m \subseteq S /\ Cardinality(m) <= 1
  <1>1. CASE m = Null
    BY <1>1, FS_EmptySet DEF Null
  <1>2. CASE \E x \in S : m = {x}
    <2>1. PICK x \in S : m = {x}
      BY <1>2
    <2>2. Cardinality({x}) = 1
      BY FS_Singleton
    <2> QED BY <2>1, <2>2
  <1> QED BY <1>1, <1>2 DEF IsMaybe

\* What is read or held is well-formed.
LEMMA RelayTypes == RelayInv => TypeOK
  <1> SUFFICES ASSUME RelayInv PROVE TypeOK
    OBVIOUS
  <1>1. target \subseteq GoodTargets /\ Cardinality(target) <= 1
    BY MaybeSize DEF RelayInv
  <1>2. \A t \in target : WellFormed(t)
    BY <1>1 DEF GoodTargets
  <1> QED BY <1>1, <1>2 DEF RelayInv, TypeOK

\* Whatever a client sent, the target read from it is well-formed, as those are
\* that applications make up: an absolute path although it was decoded, a port in
\* range, an authority that ends before the path (deserialize_target).
THEOREM TypeCorrect == Spec => []TypeOK
  BY RelayInvariant, RelayTypes, PTL

\* A target that was written is the one that is read.
LEMMA RelaySurvives == RelayInv => TargetSurvives
  BY DEF RelayInv, TargetSurvives

\* deserialize_target reads the text that serialize(target) wrote as the same
\* target, however often it is relayed, whatever bytes its path and its query are
\* made of.
THEOREM TargetIsKept == Spec => []TargetSurvives
  BY RelayInvariant, RelaySurvives, PTL

\* What is reserved for a well-formed target is what its text takes.
LEMMA RelayReserves == RelayInv => ReservedExactly
  <1> SUFFICES ASSUME RelayInv, NEW t \in target
               PROVE  IF t.form \in {"origin", "absolute"}
                      THEN Len(SerializeTarget(t)) = ReservedSize(t)
                      ELSE t.form = "authority" => Len(SerializeTarget(t)) <= ReservedSize(t)
    BY DEF ReservedExactly
  <1>1. t \in GoodTargets
    BY MaybeSize DEF RelayInv
  <1>2. Fits(t, SerializeTarget(t))
    BY <1>1, TargetWritten DEF WellWritten
  <1> QED BY <1>2 DEF Fits

\* serialize(target) writes exactly as much as it reserved (five digits at most
\* for a port), so that its string grows once.
THEOREM ReservedIsEnough == Spec => []ReservedExactly
  BY RelayInvariant, RelayReserves, PTL

\* The symbols of a string, as a set.
LEMMA HasNoIsDisjoint ==
    ASSUME NEW S, NEW str \in Seq(S), NEW symbols
    PROVE  HasNo(str, symbols) <=> ToSet(str) \cap symbols = {}
  <1>1. DOMAIN str = 1 .. Len(str)
    BY LenProperties
  <1>2. \A d : d \in ToSet(str) <=> Contains(str, d)
    BY <1>1 DEF ToSet, Contains
  <1> QED BY <1>2 DEF HasNo

\* No end of a token comes from what is encoded.
LEMMA RelayTokens == RelayInv => OneToken
  <1> SUFFICES ASSUME RelayInv, NEW t \in written, ToSet(Verbatim(t)) \cap Ends = {}
               PROVE  ToSet(text) \cap Ends = {}
    BY DEF OneToken, Verbatim, Ends
  <1>1. t \in GoodTargets /\ text = SerializeTarget(t) /\ text \in Seq(TargetByte)
    BY MaybeSize DEF RelayInv
  <1>2. Verbatim(t) \in Seq(TargetByte)
    <2>1. << >> \in Seq(TargetByte) /\ t \in TargetType
      BY <1>1 DEF GoodTargets
    <2>2. CASE t \in [form : {"origin"}, path : Seq(TargetByte), query : Query]
      BY <2>1, <2>2 DEF Verbatim
    <2>3. CASE t \in [form : {"absolute"}, scheme : {"http", "https"}, authority : Seq(TargetByte),
                      path : Seq(TargetByte), query : Query]
      BY <2>3 DEF Verbatim
    <2>4. CASE t \in [form : {"authority"}, host : Seq(TargetByte), port : 0 .. 2 ^ 16 - 1]
      BY <2>4 DEF Verbatim
    <2>5. CASE t = Asterisk
      BY <2>1, <2>5 DEF Verbatim, Asterisk
    <2> QED BY <2>1, <2>2, <2>3, <2>4, <2>5 DEF TargetType
  <1>3. HasNo(Verbatim(t), Ends)
    BY <1>2, HasNoIsDisjoint
  <1>4. HasNo(text, Ends)
    BY <1>1, <1>3, TargetWritten DEF WellWritten
  <1> QED BY <1>1, <1>4, HasNoIsDisjoint

\* A serialized target is one token of the request line, unless the authority or
\* the host it was given has a space or a line end.
THEOREM TokenStaysOne == Spec => []OneToken
  BY RelayInvariant, RelayTokens, PTL

\* Whatever the text is, both decoders read it as what it means.
LEMMA RelayDecodes == RelayInv => DecodersAgreeWithMeaning
  BY DecodeMeaning DEF RelayInv, DecodersAgreeWithMeaning, DecodeStr, DecodeQueryPart

\* For every text that a client can send or a hop can write: each escape is read
\* as one byte, a text with a broken one is refused, and only the decoder for
\* queries reads a plus sign as a space (deserialize/target.cpp lines 206 to 270).
THEOREM DecodersReadMeaning == Spec => []DecodersAgreeWithMeaning
  BY RelayInvariant, RelayDecodes, PTL
=============================================================================
