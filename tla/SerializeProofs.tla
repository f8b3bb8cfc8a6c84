---------------------------- MODULE SerializeProofs ----------------------------
(***************************************************************************)
(* Theorems about serialize_machine and the loop that drains it, for every *)
(* set of messages, every buffer size and every way the socket splits the  *)
(* spans: the bytes that were taken, the bytes in the buffer and the state *)
(* of the machine always add up to the message.                            *)
(***************************************************************************)
EXTENDS SerializeMachine, BytesLemmas

-----------------------------------------------------------------------------
(* The bytes of a message up to a state of the machine. *)

\* The start line and the first n fields.
HeadTo(m, n) == StartLine(m.start_line) \o FlattenSeq(SubSeq(FieldLines(m), 1, n))

\* What is written of message m, to the buffer or to the socket, when the
\* machine reaches state st.
Produced(m, st) ==
    CASE st.at = "start_line" -> << >>
      [] st.at = "fields" -> HeadTo(m, st.it - 1)
      [] st.at = "body" -> HeadTo(m, Len(m.fields)) \o CRLF \o SubSeq(m.body, 1, st.offset)
      [] OTHER -> Whole(m)

\* The states the machine takes for message m.
StateFits(m, st) ==
    /\ st.at \in {"start_line", "fields", "body", "complete"}
    /\ st.at = "fields" => st.it \in 1 .. Len(m.fields) + 1
    /\ st.at = "body" => st.offset \in 0 .. Len(m.body)

\* The lines of a message are sequences of bytes.
LEMMA LinesTyped ==
    ASSUME NEW m \in Messages
    PROVE  /\ StartLine(m.start_line) \in Seq(Byte)
           /\ FieldLines(m) \in Seq(Seq(Byte))
           /\ Len(FieldLines(m)) = Len(m.fields)
           /\ Len(m.fields) \in Nat
           /\ DOMAIN m.fields = 1 .. Len(m.fields)
           /\ \A i \in 1 .. Len(m.fields) : /\ FieldLines(m)[i] = FieldLine(m.fields[i])
                                            /\ FieldLine(m.fields[i]) \in Seq(Byte)
           /\ CRLF \in Seq(Byte) /\ Len(CRLF) = 2
           /\ m.body \in Seq(Byte) /\ Len(m.body) \in Nat
  <1> DEFINE F == [key : Seq(Byte), value : Seq(Byte)]
             n == Len(m.fields)
  <1>1. /\ StartLine(m.start_line) \in Seq(Byte)
        /\ m.fields \in Seq(F)
        /\ m.body \in Seq(Byte) /\ Len(m.body) \in Nat
    <2>1. m.body \in Seq(Byte)
      BY MessagesAssumption
    <2>2. m.fields \in Seq(F)
      BY MessagesAssumption, Zenon
    <2>3. StartLine(m.start_line) \in Seq(Byte)
      BY MessagesAssumption
    <2> HIDE DEF F
    <2> QED BY <2>1, <2>2, <2>3, LenProperties
  <1>2. CRLF \in Seq(Byte) /\ Len(CRLF) = 2
    BY MessagesAssumption DEF CRLF
  <1>3. n \in Nat /\ DOMAIN m.fields = 1 .. n /\ \A i \in 1 .. n : m.fields[i] \in F
    <2> HIDE DEF F
    <2> QED BY <1>1, LenProperties, ElementOfSeq
  <1>4. ASSUME NEW f \in F PROVE FieldLine(f) \in Seq(Byte)
    <2>1. f.key \in Seq(Byte) /\ f.value \in Seq(Byte) /\ << ":" >> \in Seq(Byte)
      BY MessagesAssumption
    <2> HIDE DEF F
    <2> QED BY <1>2, <2>1, ConcatProperties DEF FieldLine
  <1> HIDE DEF F, n
  <1>5. FieldLines(m) = [i \in 1 .. n |-> FieldLine(m.fields[i])]
    BY <1>3 DEF FieldLines
  <1>6. \A i \in 1 .. n : FieldLine(m.fields[i]) \in Seq(Byte)
    BY <1>3, <1>4
  <1>7. FieldLines(m) \in Seq(Seq(Byte)) /\ Len(FieldLines(m)) = n
    BY <1>3, <1>5, <1>6
  <1> QED BY <1>1, <1>2, <1>3, <1>5, <1>6, <1>7 DEF n

\* Each step of the loop over the states writes what is between two states.
LEMMA StartLineProduced ==
    ASSUME NEW m \in Messages
    PROVE  Produced(m, Fields(1)) = StartLine(m.start_line)
  <1>1. SubSeq(FieldLines(m), 1, 0) = << >>
    BY SubSeqEmpty
  <1>2. HeadTo(m, 0) = StartLine(m.start_line) \o << >>
    BY <1>1, FlattenEmpty DEF HeadTo
  <1>3. StartLine(m.start_line) \in Seq(Byte)
    BY LinesTyped
  <1>4. HeadTo(m, 0) = StartLine(m.start_line)
    BY <1>2, <1>3, ConcatEmptySeq
  <1> QED BY <1>4 DEF Produced, Fields

\* The head up to any field is a sequence of bytes, and each field extends it.
LEMMA FieldProduced ==
    ASSUME NEW m \in Messages, NEW it \in 1 .. Len(m.fields)
    PROVE  Produced(m, Fields(it)) \o FieldLine(m.fields[it]) = Produced(m, Fields(it + 1))
  <1> DEFINE s == StartLine(m.start_line)
             flat(n) == FlattenSeq(SubSeq(FieldLines(m), 1, n))
             line == FieldLine(m.fields[it])
             k == it - 1
  <1>1. k \in 0 .. Len(FieldLines(m)) - 1 /\ k + 1 = it /\ (it + 1) - 1 = it
    BY LinesTyped
  <1>2. FieldLines(m)[it] = line /\ line \in Seq(Byte) /\ s \in Seq(Byte)
    BY LinesTyped
  <1> HIDE DEF k
  <1>3. flat(k) \in Seq(Byte) /\ flat(k + 1) = flat(k) \o FieldLines(m)[k + 1]
    BY <1>1, FlattenStep, LinesTyped
  <1> HIDE DEF flat, s, line
  <1>4. (s \o flat(k)) \o line = s \o (flat(k) \o line)
    <2> DEFINE fk == flat(k)
    <2>1. fk \in Seq(Byte)
      BY <1>3
    <2> HIDE DEF fk
    <2>2. (s \o fk) \o line = s \o (fk \o line)
      BY <1>2, <2>1, ConcatAssociative, SMTT(20)
    <2> QED BY <2>2 DEF fk
  <1>5. HeadTo(m, k) \o line = HeadTo(m, it)
    BY <1>1, <1>2, <1>3, <1>4 DEF HeadTo, flat, s
  <1> QED BY <1>1, <1>5 DEF Produced, Fields, line, k

\* The head up to the last field is the start line with all fields.
LEMMA HeadTyped ==
    ASSUME NEW m \in Messages
    PROVE  /\ HeadTo(m, Len(m.fields)) = StartLine(m.start_line) \o FlattenSeq(FieldLines(m))
           /\ FlattenSeq(FieldLines(m)) \in Seq(Byte)
           /\ HeadTo(m, Len(m.fields)) \in Seq(Byte)
           /\ HeadTo(m, Len(m.fields)) \o CRLF \in Seq(Byte)
  <1>1. SubSeq(FieldLines(m), 1, Len(m.fields)) = FieldLines(m)
    BY LinesTyped, SubSeqFull
  <1>2. FlattenSeq(FieldLines(m)) \in Seq(Byte)
    BY LinesTyped, FlattenPrefix
  <1>3. HeadTo(m, Len(m.fields)) = StartLine(m.start_line) \o FlattenSeq(FieldLines(m))
    BY <1>1 DEF HeadTo
  <1>4. HeadTo(m, Len(m.fields)) \in Seq(Byte)
    BY <1>2, <1>3, LinesTyped, ConcatProperties
  <1> QED BY <1>2, <1>3, <1>4, LinesTyped, ConcatProperties

\* The empty line ends the head,
LEMMA LastLineProduced ==
    ASSUME NEW m \in Messages
    PROVE  Produced(m, Fields(Len(m.fields) + 1)) \o CRLF = Produced(m, Body(0))
  <1> DEFINE head == HeadTo(m, Len(m.fields))
  <1>1. SubSeq(m.body, 1, 0) = << >>
    BY SubSeqEmpty
  <1>2. (Len(m.fields) + 1) - 1 = Len(m.fields)
    BY LinesTyped
  <1>3. head \o CRLF \in Seq(Byte)
    BY HeadTyped
  <1> HIDE DEF head
  <1>4. (head \o CRLF) \o << >> = head \o CRLF
    BY <1>3, ConcatEmptySeq
  <1> QED BY <1>1, <1>2, <1>4 DEF Produced, Fields, Body, head

\* every part of the body follows the part before it,
LEMMA BodyProduced ==
    ASSUME NEW m \in Messages, NEW b \in 0 .. Len(m.body), NEW a \in 0 .. b
    PROVE  Produced(m, Body(a)) \o SubSeq(m.body, a + 1, b) = Produced(m, Body(b))
  <1> DEFINE head == HeadTo(m, Len(m.fields)) \o CRLF
             p == SubSeq(m.body, 1, a)
             q == SubSeq(m.body, a + 1, b)
  <1>1. m.body \in Seq(Byte) /\ head \in Seq(Byte) /\ a \in 0 .. Len(m.body)
    BY LinesTyped, HeadTyped
  <1>2. p \in Seq(Byte) /\ q \in Seq(Byte)
    BY <1>1, FrontProperties, Piece
  <1>3. p \o q = SubSeq(m.body, 1, b)
    <2>1. 0 \in 0 .. a
      OBVIOUS
    <2>2. SubSeq(m.body, 0 + 1, a) \o SubSeq(m.body, a + 1, b) = SubSeq(m.body, 0 + 1, b)
      BY <1>1, <2>1, PiecesJoin
    <2> QED BY <2>2
  <1> HIDE DEF head, p, q
  <1>4. (head \o p) \o q = head \o (p \o q)
    BY SMTT(30), <1>1, <1>2, ConcatAssociative
  <1> QED BY <1>3, <1>4 DEF Produced, Body, head, p, q

\* and with all of the body the message is whole.
LEMMA WholeProduced ==
    ASSUME NEW m \in Messages
    PROVE  Produced(m, Body(Len(m.body))) = Whole(m)
  <1>1. SubSeq(m.body, 1, Len(m.body)) = m.body
    BY LinesTyped, SubSeqFull
  <1> QED BY <1>1, HeadTyped DEF Produced, Body, Whole

\* What is produced depends on nothing else that the state may hold.
LEMMA ProducedAt ==
    ASSUME NEW m, NEW st
    PROVE  /\ st.at = "start_line" => Produced(m, st) = << >>
           /\ st.at = "fields" => Produced(m, st) = Produced(m, Fields(st.it))
           /\ st.at = "body" => Produced(m, st) = Produced(m, Body(st.offset))
           /\ st.at = "complete" => Produced(m, st) = Whole(m)
  BY DEF Produced, Fields, Body

\* What is produced is a first part of the message, and not all of it as long
\* as the empty line after the head is missing.
LEMMA ProducedPrefix ==
    ASSUME NEW m \in Messages, NEW st, StateFits(m, st)
    PROVE  /\ Produced(m, st) \in Seq(Byte)
           /\ Whole(m) \in Seq(Byte)
           /\ \E rest \in Seq(Byte) :
                 /\ Whole(m) = Produced(m, st) \o rest
                 /\ st.at \in {"start_line", "fields"} => Len(rest) >= 2
  <1> DEFINE s == StartLine(m.start_line)
             flat == FlattenSeq(FieldLines(m))
  <1>1. s \in Seq(Byte) /\ flat \in Seq(Byte) /\ CRLF \in Seq(Byte) /\ m.body \in Seq(Byte)
    BY LinesTyped, HeadTyped
  <1>l. Len(CRLF) = 2 /\ Len(m.body) \in Nat
    BY LinesTyped
  <1>2. /\ Whole(m) \in Seq(Byte)
        /\ Len(Whole(m)) = Len(s) + Len(flat) + Len(CRLF) + Len(m.body)
    <2> DEFINE bytes == m.body
    <2> HIDE DEF s, flat, bytes
    <2>1. bytes \in Seq(Byte)
      BY <1>1 DEF bytes
    <2>2. /\ s \o flat \o CRLF \o bytes \in Seq(Byte)
          /\ Len(s \o flat \o CRLF \o bytes) = Len(s) + Len(flat) + Len(CRLF) + Len(bytes)
      BY <1>1, <2>1, FourJoined
    <2> QED BY <2>2 DEF Whole, s, flat, bytes
  <1>3. CASE st.at = "body"
    <2> DEFINE o == st.offset
               rest == SubSeq(m.body, o + 1, Len(m.body))
    <2>1. o \in 0 .. Len(m.body) /\ Len(m.body) \in 0 .. Len(m.body)
      BY <1>l, <1>3 DEF StateFits
    <2>2. Produced(m, st) = Produced(m, Body(o))
      BY <1>3, ProducedAt
    <2>3. Produced(m, Body(o)) \o rest = Whole(m)
      BY <2>1, BodyProduced, WholeProduced
    <2>4. Produced(m, Body(o)) \in Seq(Byte)
      <3>1. HeadTo(m, Len(m.fields)) \o CRLF \in Seq(Byte)
        BY HeadTyped
      <3>2. SubSeq(m.body, 1, o) \in Seq(Byte)
        BY <1>1, <2>1, FrontProperties
      <3> QED BY <3>1, <3>2, ConcatProperties DEF Produced, Body
    <2>5. rest \in Seq(Byte)
      BY <1>1, <2>1, Piece
    <2> HIDE DEF rest, o
    <2> QED BY <1>2, <1>3, <2>2, <2>3, <2>4, <2>5
  <1>4. CASE st.at = "complete"
    <2>1. Produced(m, st) = Whole(m) /\ Whole(m) \o << >> = Whole(m) /\ << >> \in Seq(Byte)
      BY <1>2, <1>4, ProducedAt, ConcatEmptySeq, EmptySeq
    <2> QED BY <1>2, <1>4, <2>1
  <1>5. CASE st.at = "start_line"
    <2>1. Produced(m, st) = << >> /\ << >> \o Whole(m) = Whole(m) /\ << >> \in Seq(Byte)
      BY <1>2, <1>5, ProducedAt, ConcatEmptySeq, EmptySeq
    <2>2. Len(s) \in Nat /\ Len(flat) \in Nat
      BY <1>1, LenProperties
    <2> HIDE DEF s, flat
    <2> DEFINE a == Len(s)  b == Len(flat)  c == Len(CRLF)  d == Len(m.body)
    <2>3. a \in Nat /\ b \in Nat /\ c = 2 /\ d \in Nat /\ Len(Whole(m)) = a + b + c + d
      BY <1>l, <1>2, <2>2
    <2> HIDE DEF a, b, c, d
    <2>4. Len(Whole(m)) >= 2
      BY <2>3
    <2> QED BY <1>2, <2>1, <2>4
  <1>6. CASE st.at = "fields"
    <2> DEFINE k == st.it - 1
               fk == FlattenSeq(SubSeq(FieldLines(m), 1, k))
    <2>1. k \in 0 .. Len(FieldLines(m))
      BY <1>6, LinesTyped DEF StateFits
    <2>2. PICK r \in Seq(Byte) : flat = fk \o r
      BY <2>1, LinesTyped, FlattenPrefix
    <2>3. fk \in Seq(Byte)
      BY <2>1, LinesTyped, FlattenPrefix
    <2>4. Produced(m, st) = s \o fk
      BY <1>6 DEF Produced, HeadTo
    <2> HIDE DEF fk, flat, s
    <2> DEFINE tail == CRLF \o m.body
               done == s \o fk
               rest == r \o tail
    <2>5. tail \in Seq(Byte) /\ Len(tail) = 2 + Len(m.body)
      <3>1. tail \in Seq(Byte) /\ Len(tail) = Len(CRLF) + Len(m.body)
        BY <1>1, ConcatProperties
      <3> QED BY <1>l, <3>1
    <2>6. done \in Seq(Byte)
      BY <1>1, <2>3, ConcatProperties
    <2>7. Whole(m) = (s \o flat) \o tail
      <3> DEFINE h == s \o flat
                 bytes == m.body
      <3>1. h \in Seq(Byte) /\ CRLF \in Seq(Byte) /\ bytes \in Seq(Byte)
        BY <1>1, ConcatProperties
      <3> HIDE DEF h, bytes
      <3>2. (h \o CRLF) \o bytes = h \o (CRLF \o bytes)
        BY SMTT(30), <3>1, ConcatAssociative
      <3> QED BY <3>2 DEF Whole, h, bytes, s, flat
    <2>8. s \o flat = done \o r
      <3>1. s \in Seq(Byte) /\ fk \in Seq(Byte) /\ r \in Seq(Byte)
        BY <1>1, <2>3
      <3>2. (s \o fk) \o r = s \o (fk \o r)
        BY <3>1, ConcatAssociative
      <3> QED BY <2>2, <3>2
    <2> HIDE DEF tail, done
    <2>9. (done \o r) \o tail = done \o rest
      BY <2>2, <2>5, <2>6, ConcatAssociative
    <2>10. Whole(m) = done \o rest
      BY <2>7, <2>8, <2>9
    <2>11. rest \in Seq(Byte) /\ Len(rest) >= 2
      <3>1. rest \in Seq(Byte) /\ Len(rest) = Len(r) + Len(tail)
        BY <2>2, <2>5, ConcatProperties
      <3>2. Len(r) \in Nat
        BY <2>2, LenProperties
      <3> HIDE DEF rest
      <3> QED BY <1>l, <2>5, <3>1, <3>2
    <2> HIDE DEF rest
    <2> QED BY <1>2, <2>4, <2>6, <2>10, <2>11 DEF done
  <1> QED BY <1>3, <1>4, <1>5, <1>6 DEF StateFits

-----------------------------------------------------------------------------
(* The inductive invariant: what the socket took and what waits in the     *)
(* buffer is what the state says has been produced.                        *)

\* The body from offset on.
BodyFrom(m, offset) == SubSeq(m.body, offset + 1, Len(m.body))

Typed ==
    /\ message \in Messages
    /\ remainder \in BufferType(Byte)
    /\ OffsetInBuffer(remainder)
    /\ StateFits(message, state)
    /\ phase \in {"calling", "filling", "writing", "done", "lost"}
    /\ written \in Nat
    /\ span \in Seq(Byte)
    /\ empties \in 0 .. 2
    /\ emitted \in Seq(Byte)

\* The loop fills the buffer.  The body is copied at most once, and from its
\* first byte.
WhileFilling ==
    /\ empties \in 0 .. 1
    /\ emitted \o View(remainder) = Produced(message, state)
    /\ state.at \in {"body", "complete"} => View(remainder) # << >>
    /\ state.at = "body" /\ Len(View(remainder)) < BufferSize =>
           state.offset \in {0, Len(message.body)}

\* The span is what is in the buffer or, when that is empty, the rest of the
\* body.  The second empty span in a row is the end.
WhileWriting ==
    /\ emitted \o View(remainder) = Produced(message, state)
    /\ \/ span = View(remainder)
       \/ /\ View(remainder) = << >>
          /\ state.at = "body"
          /\ span = BodyFrom(message, state.offset)
    /\ span = << >> <=> empties # 0
    /\ empties = 2 => emitted = Whole(message)

\* What was written of the span is still in the buffer or, when that is empty,
\* not yet counted by the offset into the body.
WhileCalling ==
    /\ empties \in 0 .. 1
    /\ empties = 1 => View(remainder) = << >> /\ written = 0
    /\ View(remainder) # << >> =>
           /\ written \in 0 .. Len(View(remainder))
           /\ emitted \o SubSeq(View(remainder), written + 1, Len(View(remainder)))
                = Produced(message, state)
    /\ View(remainder) = << >> /\ state.at = "body" =>
           /\ written \in 0 .. Len(message.body) - state.offset
           /\ emitted = Produced(message, Body(state.offset + written))
    /\ View(remainder) = << >> /\ state.at # "body" =>
           /\ written = 0
           /\ emitted = Produced(message, state)

WhenEnded ==
    /\ \E rest \in Seq(Byte) : Whole(message) = emitted \o rest
    /\ phase = "done" /\ empties = 2 => emitted = Whole(message)

IInv ==
    /\ Typed
    /\ phase = "filling" => WhileFilling
    /\ phase = "writing" => WhileWriting
    /\ phase = "calling" => WhileCalling
    /\ phase \in {"done", "lost"} => WhenEnded

\* A machine that was not called yet has produced nothing.
LEMMA InitIInv == Init => IInv
  <1> SUFFICES ASSUME Init PROVE IInv
    OBVIOUS
  <1>1. /\ message \in Messages /\ remainder = EmptyBuffer /\ state = Simple("start_line")
        /\ phase = "calling" /\ written = 0 /\ span = << >> /\ empties = 0 /\ emitted = << >>
    BY DEF Init, Fresh
  <1>2. state.at = "start_line" /\ StateFits(message, state) /\ Produced(message, state) = << >>
    BY <1>1 DEF Simple, StateFits, Produced
  <1>3. remainder \in BufferType(Byte) /\ OffsetInBuffer(remainder) /\ View(remainder) = << >>
    BY <1>1 DEF EmptyBuffer, BufferType, OffsetInBuffer, View
  <1>4. Typed
    BY <1>1, <1>2, <1>3 DEF Typed
  <1>5. WhileCalling
    BY <1>1, <1>2, <1>3 DEF WhileCalling
  <1> QED BY <1>1, <1>4, <1>5 DEF IInv

\* The types of what IInv speaks of.
LEMMA TypedViews ==
    ASSUME Typed
    PROVE  /\ View(remainder) \in Seq(Byte)
           /\ Len(View(remainder)) \in Nat
           /\ Produced(message, state) \in Seq(Byte)
           /\ Whole(message) \in Seq(Byte)
           /\ message.body \in Seq(Byte)
           /\ Len(message.body) \in Nat
           /\ BufferSize \in Nat \ {0}
  BY ViewType, LenProperties, ProducedPrefix, LinesTyped, SerializeAssumption DEF Typed

\* Consuming what was written leaves the rest of the buffer to be written.
LEMMA ResumeRemainderIInv ==
    ASSUME IInv, ResumeRemainder
    PROVE  IInv'
  <1> DEFINE v == View(remainder)
             rest == SubSeq(v, written + 1, Len(v))
  <1>1. /\ phase = "calling" /\ v # << >> /\ remainder' = Advanced(remainder, written)
        /\ span' = View(remainder') /\ phase' = "writing"
        /\ empties' = IF View(remainder') = << >> THEN empties + 1 ELSE 0
        /\ UNCHANGED << message, state, written, emitted >>
    BY DEF ResumeRemainder, Return
  <1>2. Typed /\ WhileCalling
    BY <1>1 DEF IInv
  <1>3. /\ empties = 0 /\ written \in 0 .. Len(v)
        /\ emitted \o rest = Produced(message, state)
    BY <1>1, <1>2 DEF WhileCalling
  <1>4. /\ remainder' \in BufferType(Byte) /\ OffsetInBuffer(remainder')
        /\ View(remainder') = rest
    BY <1>1, <1>2, <1>3, AdvancedView DEF Typed
  <1>5. View(remainder') \in Seq(Byte)
    BY <1>4, ViewType
  <1>6. Typed'
    BY <1>1, <1>2, <1>3, <1>4, <1>5 DEF Typed
  <1>7. WhileWriting'
    <2> HIDE DEF rest, v
    <2>1. emitted' \o View(remainder') = Produced(message', state')
      BY <1>1, <1>3, <1>4
    <2>2. (span' = << >> <=> empties' # 0) /\ empties' # 2
      BY <1>1, <1>3
    <2> QED BY <1>1, <2>1, <2>2 DEF WhileWriting
  <1> QED BY <1>1, <1>6, <1>7 DEF IInv

\* A complete message has no more spans.
LEMMA ResumeCompleteIInv ==
    ASSUME IInv, ResumeComplete
    PROVE  IInv'
  <1>1. /\ phase = "calling" /\ View(remainder) = << >> /\ state.at = "complete"
        /\ span' = << >> /\ phase' = "writing" /\ empties' = empties + 1
        /\ UNCHANGED << message, remainder, state, written, emitted >>
    BY DEF ResumeComplete, Return
  <1>2. Typed /\ WhileCalling
    BY <1>1 DEF IInv
  <1>3. empties \in 0 .. 1 /\ emitted = Produced(message, state)
    BY <1>1, <1>2 DEF WhileCalling
  <1>4. Produced(message, state) = Whole(message)
    BY <1>1, ProducedAt
  <1>5. emitted \in Seq(Byte) /\ emitted \o << >> = emitted
    BY <1>2, ConcatEmptySeq DEF Typed
  <1>6. Typed'
    BY <1>1, <1>2, <1>3 DEF Typed
  <1>7. WhileWriting'
    <2>1. View(remainder') = << >>
      BY <1>1
    <2>2. emitted' \o View(remainder') = Produced(message', state')
      BY <1>1, <1>3, <1>5, <2>1
    <2>3. (span' = << >> <=> empties' # 0) /\ span' = View(remainder')
      BY <1>1, <1>3, <2>1
    <2> QED BY <1>1, <1>3, <1>4, <2>2, <2>3 DEF WhileWriting
  <1> QED BY <1>1, <1>6, <1>7 DEF IInv

\* The body continues behind what was written of it.
LEMMA ResumeBodyIInv ==
    ASSUME IInv, ResumeBody
    PROVE  IInv'
  <1> DEFINE o == state.offset + written
  <1>1. /\ phase = "calling" /\ View(remainder) = << >> /\ state.at = "body"
        /\ state' = Body(o) /\ phase' = "writing"
        /\ span' = BodyFrom(message, o)
        /\ empties' = IF span' = << >> THEN empties + 1 ELSE 0
        /\ UNCHANGED << message, remainder, written, emitted >>
    BY DEF ResumeBody, Return, BodyFrom
  <1>2. Typed /\ WhileCalling
    BY <1>1 DEF IInv
  <1>3. /\ empties \in 0 .. 1 /\ written \in 0 .. Len(message.body) - state.offset
        /\ emitted = Produced(message, Body(o))
    BY <1>1, <1>2 DEF WhileCalling
  <1>4. /\ o \in 0 .. Len(message.body) /\ message.body \in Seq(Byte) /\ Len(message.body) \in Nat
        /\ message \in Messages
    BY <1>1, <1>2, <1>3, TypedViews DEF Typed, StateFits
  <1> HIDE DEF o
  <1>5. state'.at = "body" /\ state'.offset = o /\ StateFits(message, state')
    BY <1>1, <1>4 DEF Body, StateFits
  <1>6. /\ span' \in Seq(Byte) /\ Len(span') = Len(message.body) - o
    BY <1>1, <1>4, Piece DEF BodyFrom
  <1>7. emitted \in Seq(Byte) /\ emitted \o << >> = emitted
    BY <1>2, ConcatEmptySeq DEF Typed
  <1>8. Typed'
    BY <1>1, <1>2, <1>3, <1>5, <1>6 DEF Typed
  <1>9. WhileWriting'
    <2>1. View(remainder') = << >>
      BY <1>1
    <2>2. emitted' \o View(remainder') = Produced(message', state')
      BY <1>1, <1>3, <1>7, <2>1
    <2>3. span' = << >> <=> empties' # 0
      BY <1>1, <1>3
    <2>4. ASSUME empties' = 2 PROVE emitted' = Whole(message')
      <3>1. span' = << >>
        BY <1>1, <2>4
      <3>2. o = Len(message.body)
        BY <1>4, <1>6, <3>1
      <3> QED BY <1>1, <1>3, <1>4, <3>2, WholeProduced
    <2> QED BY <1>1, <1>5, <2>1, <2>2, <2>3, <2>4 DEF WhileWriting
  <1> QED BY <1>1, <1>8, <1>9 DEF IInv

\* The loop over the states begins with an empty buffer.
LEMMA ResumeFillIInv ==
    ASSUME IInv, ResumeFill
    PROVE  IInv'
  <1>1. /\ phase = "calling" /\ View(remainder) = << >> /\ state.at \in {"start_line", "fields"}
        /\ phase' = "filling"
        /\ UNCHANGED << message, remainder, state, written, span, empties, emitted >>
    BY DEF ResumeFill
  <1>2. Typed /\ WhileCalling
    BY <1>1 DEF IInv
  <1>3. emitted \in Seq(Byte) /\ emitted \o << >> = emitted
    BY <1>2, ConcatEmptySeq DEF Typed
  <1>4. empties \in 0 .. 1 /\ emitted = Produced(message, state)
    BY <1>1, <1>2 DEF WhileCalling
  <1>5. Typed'
    BY <1>1, <1>2 DEF Typed
  <1>6. WhileFilling'
    BY <1>1, <1>3, <1>4 DEF WhileFilling
  <1> QED BY <1>1, <1>5, <1>6 DEF IInv

\* One step of the loop appends bytes to the buffer and goes to a state that
\* counts them as produced.
LEMMA WriteIInv ==
    ASSUME Typed, WhileFilling, phase = "filling",
           NEW bytes \in Seq(Byte), Write(bytes),
           UNCHANGED << message, phase, written, span, empties, emitted >>,
           StateFits(message, state'),
           Produced(message, state) \o bytes = Produced(message, state'),
           state'.at \in {"body", "complete"} => View(remainder) \o bytes # << >>,
           state'.at = "body" /\ Len(View(remainder) \o bytes) < BufferSize =>
               state'.offset \in {0, Len(message.body)}
    PROVE  IInv'
  <1> DEFINE v == View(remainder)
             joined == v \o bytes
             p == Produced(message, state)
  <1>1. /\ v \in Seq(Byte) /\ emitted \in Seq(Byte) /\ emitted \o v = p
        /\ empties \in 0 .. 1
    BY TypedViews DEF Typed, WhileFilling
  <1>2. /\ remainder' \in BufferType(Byte) /\ OffsetInBuffer(remainder')
        /\ View(remainder') = joined
    BY MergedView DEF Typed, Write
  <1>3. Typed'
    BY <1>2 DEF Typed
  <1>4. emitted \o joined = p \o bytes
    <2> HIDE DEF v, p
    <2>1. (emitted \o v) \o bytes = emitted \o (v \o bytes)
      <3>1. emitted \in Seq(Byte) /\ v \in Seq(Byte)
        BY <1>1
      <3> QED BY <3>1, ConcatAssociative
    <2> QED BY <1>1, <2>1
  <1> HIDE DEF joined, p, v
  <1>5. emitted' \o View(remainder') = Produced(message', state')
    BY <1>2, <1>4 DEF p
  <1>6. WhileFilling'
    BY <1>1, <1>2, <1>5 DEF WhileFilling, joined, v
  <1> QED BY <1>3, <1>6 DEF IInv

\* Each alternative of the loop is such a step.
LEMMA FillIInv ==
    ASSUME IInv, Fill
    PROVE  IInv'
  <1> DEFINE v == View(remainder)
             n == Len(message.fields)
  <1>1. /\ phase = "filling" /\ Len(v) < BufferSize
        /\ UNCHANGED << message, phase, written, span, empties, emitted >>
    BY DEF Fill
  <1>2. Typed /\ WhileFilling /\ message \in Messages
    BY <1>1 DEF IInv, Typed
  <1>3. v \in Seq(Byte) /\ Len(v) \in Nat /\ BufferSize \in Nat /\ StateFits(message, state)
    BY <1>2, TypedViews DEF Typed
  <1>4. CASE FillStartLine
    <2> DEFINE bytes == StartLine(message.start_line)
    <2>1. state.at = "start_line" /\ Write(bytes) /\ state' = Fields(1)
      BY <1>4 DEF FillStartLine
    <2>2. state'.at = "fields" /\ state'.it = 1
      BY <2>1 DEF Fields
    <2>3. bytes \in Seq(Byte) /\ n \in Nat
      BY <1>2, LinesTyped
    <2>4. StateFits(message, state')
      BY <2>2, <2>3 DEF StateFits
    <2>5. Produced(message, state) \o bytes = Produced(message, state')
      <3>1. Produced(message, state) = << >> /\ Produced(message, state') = bytes
        BY <1>2, <2>1, ProducedAt, StartLineProduced
      <3> HIDE DEF bytes
      <3> QED BY <2>3, <3>1, ConcatEmptySeq
    <2> HIDE DEF bytes
    <2> QED BY <1>1, <1>2, <2>1, <2>2, <2>3, <2>4, <2>5, WriteIInv
  <1>5. CASE FillField
    <2> DEFINE it == state.it
               bytes == FieldLine(message.fields[it])
    <2>1. /\ state.at = "fields" /\ it <= n /\ Write(bytes)
          /\ state' = Fields(it + 1)
      BY <1>5 DEF FillField
    <2>2. it \in 1 .. n /\ n \in Nat /\ bytes \in Seq(Byte)
      BY <1>2, <1>3, <2>1, LinesTyped DEF StateFits
    <2>3. state'.at = "fields" /\ state'.it = it + 1
      BY <2>1 DEF Fields
    <2>4. StateFits(message, state')
      BY <2>2, <2>3 DEF StateFits
    <2>5. Produced(message, state) \o bytes = Produced(message, state')
      BY <1>2, <2>1, <2>2, ProducedAt, FieldProduced
    <2> HIDE DEF bytes, it
    <2> QED BY <1>1, <1>2, <2>1, <2>2, <2>3, <2>4, <2>5, WriteIInv
  <1>6. CASE FillLastLine
    <2>1. state.at = "fields" /\ state.it > n /\ Write(CRLF) /\ state' = Body(0)
      BY <1>6 DEF FillLastLine
    <2>2. state.it = n + 1
      <3>1. n \in Nat /\ state.it \in 1 .. n + 1
        BY <1>2, <1>3, <2>1, LinesTyped DEF StateFits
      <3> QED BY <2>1, <3>1
    <2>3. state'.at = "body" /\ state'.offset = 0
      BY <2>1 DEF Body
    <2>4. CRLF \in Seq(Byte) /\ Len(CRLF) = 2 /\ Len(message.body) \in Nat
      BY <1>2, LinesTyped
    <2>5. StateFits(message, state')
      BY <2>3, <2>4 DEF StateFits
    <2>6. Produced(message, state) \o CRLF = Produced(message, state')
      BY ZenonT(60), <1>2, <2>1, <2>2, ProducedAt, LastLineProduced
    <2>7. v \o CRLF # << >>
      <3>1. CRLF # << >>
        BY DEF CRLF
      <3> QED BY <1>3, <2>4, <3>1, ConcatEqualIffEmpty
    <2> HIDE DEF n
    <2> QED BY <1>1, <1>2, <2>1, <2>3, <2>4, <2>5, <2>6, <2>7, WriteIInv
  <1>7. CASE FillBody
    <2> DEFINE all == Len(message.body)
               size == Smaller(BufferSize - Len(v), all)
               bytes == SubSeq(message.body, 1, size)
    <2>1. state.at = "body" /\ state.offset # all /\ Write(bytes) /\ state' = Body(size)
      BY <1>7 DEF FillBody
    <2>2. message.body \in Seq(Byte) /\ all \in Nat
      BY <1>2, LinesTyped
    <2>3. /\ size \in 0 .. all
          /\ size = all \/ Len(v) + size = BufferSize
      <3> HIDE DEF v, all
      <3> QED BY <1>1, <1>3, <2>2 DEF Smaller
    <2>4. state.offset = 0 /\ v # << >>
      BY <1>1, <1>2, <2>1 DEF WhileFilling
    <2> HIDE DEF size
    <2>5. state'.at = "body" /\ state'.offset = size /\ StateFits(message, state')
      BY <2>1, <2>3 DEF Body, StateFits
    <2>6. bytes \in Seq(Byte) /\ Len(bytes) = size
      BY <2>2, <2>3, FrontProperties
    <2>7. Produced(message, state) \o bytes = Produced(message, state')
      <3>1. Produced(message, state) = Produced(message, Body(0))
        BY <2>1, <2>4, ProducedAt
      <3>2. 0 \in 0 .. size
        BY <2>3
      <3>3. Produced(message, Body(0)) \o SubSeq(message.body, 0 + 1, size) = Produced(message, Body(size))
        BY <1>2, <2>3, <3>2, BodyProduced
      <3>4. SubSeq(message.body, 0 + 1, size) = bytes
        OBVIOUS
      <3> QED BY <2>1, <3>1, <3>3, <3>4
    <2> HIDE DEF bytes
    <2>8. v \o bytes # << >> /\ Len(v \o bytes) = Len(v) + Len(bytes)
      <3>1. Len(v \o bytes) = Len(v) + Len(bytes)
        BY <1>3, <2>6, ConcatProperties
      <3>2. v \o bytes # << >>
        BY <1>3, <2>4, <2>6, ConcatEqualIffEmpty
      <3> QED BY <3>1, <3>2
    <2>9. Len(v \o bytes) < BufferSize => size \in {0, all}
      BY <1>3, <2>3, <2>6, <2>8
    <2> HIDE DEF v, all
    <2> QED BY <1>1, <1>2, <2>1, <2>5, <2>6, <2>7, <2>8, <2>9, WriteIInv DEF v, all
  <1>8. CASE FillComplete
    <2>1. /\ state.at = "body" /\ state.offset = Len(message.body)
          /\ state' = Simple("complete") /\ UNCHANGED remainder
      BY <1>8 DEF FillComplete
    <2>2. state'.at = "complete" /\ StateFits(message, state')
      BY <2>1 DEF Simple, StateFits
    <2>3. Produced(message, state) = Whole(message) /\ Produced(message, state') = Whole(message)
      BY <1>2, <2>1, <2>2, ProducedAt, WholeProduced
    <2>4. Typed'
      BY <1>1, <1>2, <2>1, <2>2 DEF Typed
    <2>5. WhileFilling'
      BY <1>1, <1>2, <2>1, <2>2, <2>3 DEF WhileFilling
    <2> QED BY <1>1, <2>4, <2>5 DEF IInv
  <1> QED BY <1>4, <1>5, <1>6, <1>7, <1>8 DEF Fill

\* The loop returns what it has put into the buffer.
LEMMA FilledIInv ==
    ASSUME IInv, Filled
    PROVE  IInv'
  <1> DEFINE v == View(remainder)
  <1>1. /\ phase = "filling"
        /\ Len(v) >= BufferSize \/ state.at = "complete"
        /\ span' = v /\ phase' = "writing"
        /\ empties' = IF v = << >> THEN empties + 1 ELSE 0
        /\ UNCHANGED << message, remainder, state, written, emitted >>
    BY DEF Filled, Return
  <1>2. Typed /\ WhileFilling
    BY <1>1 DEF IInv
  <1>3. v \in Seq(Byte) /\ Len(v) \in Nat /\ BufferSize \in Nat \ {0}
    BY <1>2, TypedViews
  <1>4. v # << >>
    <2>1. Len(v) >= BufferSize => Len(v) # 0
      <3> HIDE DEF v
      <3> QED BY <1>3
    <2> QED BY <1>1, <1>2, <1>3, <2>1, EmptySeq DEF WhileFilling
  <1>5. View(remainder') = v
    BY <1>1
  <1>6. Typed'
    BY <1>1, <1>2, <1>3, <1>4 DEF Typed
  <1>7. WhileWriting'
    <2>1. emitted' \o View(remainder') = Produced(message', state')
      BY <1>1, <1>2, <1>5 DEF WhileFilling
    <2> QED BY <1>1, <1>4, <1>5, <2>1 DEF WhileWriting
  <1> QED BY <1>1, <1>6, <1>7 DEF IInv

\* The bytes the socket takes are the next ones of the message, whether the
\* span lies in the buffer or in the body.
LEMMA SocketTakesIInv ==
    ASSUME IInv, NEW n \in 1 .. Len(span), SocketTakes(n)
    PROVE  IInv'
  <1> DEFINE v == View(remainder)
             piece == SubSeq(span, 1, n)
  <1>1. /\ phase = "writing" /\ emitted' = emitted \o piece /\ written' = n
        /\ phase' = "calling"
        /\ UNCHANGED << message, remainder, state, span, empties >>
    BY DEF SocketTakes
  <1>2. Typed /\ WhileWriting /\ message \in Messages
    BY <1>1 DEF IInv, Typed
  <1>3. /\ v \in Seq(Byte) /\ Len(v) \in Nat /\ span \in Seq(Byte) /\ emitted \in Seq(Byte)
        /\ Len(span) \in Nat /\ n \in 0 .. Len(span) /\ n \in Nat /\ n # 0
    BY <1>2, TypedViews, LenProperties DEF Typed
  <1>4. piece \in Seq(Byte)
    BY <1>3, FrontProperties
  <1>5. empties = 0 /\ span # << >>
    BY <1>2, <1>3, EmptySeq DEF WhileWriting
  <1>6. Typed'
    <2>1. emitted' \in Seq(Byte)
      BY <1>1, <1>3, <1>4, ConcatProperties
    <2> QED BY <1>1, <1>2, <1>3, <2>1 DEF Typed
  <1>7. CASE span = v
    <2> DEFINE rest == SubSeq(v, n + 1, Len(v))
    <2>1. rest \in Seq(Byte)
      BY <1>3, <1>7, FrontAndRest
    <2>r. piece \o rest = v
      BY <1>3, <1>7, FrontAndRest
    <2> HIDE DEF piece, rest
    <2>2. (emitted \o piece) \o rest = emitted \o (piece \o rest)
      <3>1. emitted \in Seq(Byte)
        BY <1>3
      <3> QED BY SMTT(30), <1>4, <2>1, <3>1, ConcatAssociative
    <2>3. emitted' \o rest = Produced(message, state)
      BY <1>1, <1>2, <2>r, <2>2 DEF WhileWriting
    <2>4. /\ View(remainder') = v /\ v # << >> /\ written' \in 0 .. Len(v)
          /\ empties' = 0
      BY <1>1, <1>3, <1>5, <1>7
    <2>5. emitted' \o SubSeq(View(remainder'), written' + 1, Len(View(remainder'))) = Produced(message', state')
      BY <1>1, <2>3, <2>4 DEF rest
    <2>6. WhileCalling'
      BY <2>4, <2>5 DEF WhileCalling
    <2> QED BY <1>1, <1>6, <2>6 DEF IInv
  <1>8. CASE /\ v = << >>
             /\ state.at = "body"
             /\ span = BodyFrom(message, state.offset)
    <2> DEFINE o == state.offset
               all == Len(message.body)
    <2>1. /\ o \in 0 .. all /\ all \in Nat /\ message.body \in Seq(Byte)
      BY <1>2, <1>8, TypedViews DEF Typed, StateFits
    <2>2. Len(span) = all - o
      BY <1>8, <2>1, Piece DEF BodyFrom
    <2>3. n \in 0 .. all - o /\ o + n \in 0 .. all /\ o \in 0 .. o + n
      BY <1>3, <2>1, <2>2
    <2>4. piece = SubSeq(message.body, o + 1, o + n)
      <3> DEFINE p == SubSeq(message.body, o + 1, all)
                 e == o + n
                 q == SubSeq(message.body, o + 1, e)
      <3>1. p \in Seq(Byte) /\ Len(p) = all - o /\ \A i \in 1 .. all - o : p[i] = message.body[o + i]
        <4>1. all \in 0 .. all
          BY <2>1
        <4> QED BY ZenonT(60), <2>1, <4>1, Piece
      <3>2. e \in 0 .. all /\ o \in 0 .. e /\ e - o = n
        BY <2>1, <2>3
      <3> HIDE DEF e
      <3>3. q \in Seq(Byte) /\ Len(q) = e - o /\ \A i \in 1 .. e - o : q[i] = message.body[o + i]
        BY SMTT(30), <2>1, <3>2, Piece
      <3>4. span = p
        BY <1>8 DEF BodyFrom
      <3> HIDE DEF p, q
      <3>5. piece \in Seq(Byte) /\ Len(piece) = n /\ \A i \in 1 .. n : piece[i] = p[i]
        BY <1>3, <3>4, FrontProperties
      <3>6. \A i \in 1 .. n : piece[i] = q[i]
        <4> SUFFICES ASSUME NEW i \in 1 .. n PROVE piece[i] = q[i]
          OBVIOUS
        <4> HIDE DEF piece
        <4>1. i \in 1 .. all - o /\ i \in 1 .. e - o
          BY <2>1, <2>3, <3>2
        <4> QED BY <3>1, <3>3, <3>5, <4>1
      <3>7. piece = q
        BY <3>2, <3>3, <3>5, <3>6, SeqEqual
      <3> QED BY <3>7 DEF q, e
    <2>5. emitted = Produced(message, Body(o))
      <3>1. emitted \o << >> = Produced(message, state) /\ emitted \o << >> = emitted
        BY <1>2, <1>3, <1>8, ConcatEmptySeq DEF WhileWriting
      <3> QED BY <1>8, <3>1, ProducedAt
    <2>6. emitted' = Produced(message, Body(o + n))
      <3> DEFINE e == o + n
      <3>1. e \in 0 .. all /\ o \in 0 .. e
        BY <2>3
      <3> HIDE DEF e
      <3>2. Produced(message, Body(o)) \o SubSeq(message.body, o + 1, e) = Produced(message, Body(e))
        BY <1>2, <3>1, BodyProduced
      <3> QED BY <1>1, <2>4, <2>5, <3>2 DEF e
    <2>7. View(remainder') = << >> /\ state'.at = "body" /\ empties' = 0
      BY <1>1, <1>5, <1>8
    <2>8. written' \in 0 .. Len(message'.body) - state'.offset
      BY <1>1, <2>3
    <2>9. emitted' = Produced(message', Body(state'.offset + written'))
      BY <1>1, <2>6
    <2>10. WhileCalling'
      BY <2>7, <2>8, <2>9 DEF WhileCalling
    <2> QED BY <1>1, <1>6, <2>10 DEF IInv
  <1> QED BY <1>2, <1>7, <1>8 DEF WhileWriting

\* An empty span is followed by no more than one other.
LEMMA CallAgainIInv ==
    ASSUME IInv, CallAgain
    PROVE  IInv'
  <1>1. /\ phase = "writing" /\ span = << >> /\ empties < Max(EmptySpansAtEnd)
        /\ written' = 0 /\ phase' = "calling"
        /\ UNCHANGED << message, remainder, state, span, empties, emitted >>
    BY DEF CallAgain
  <1>2. Typed /\ WhileWriting
    BY <1>1 DEF IInv
  <1>3. Max(EmptySpansAtEnd) \in {1, 2}
    <2>1. EmptySpansAtEnd \in SUBSET (0 .. 2) /\ EmptySpansAtEnd # {} /\ EmptySpansAtEnd \subseteq {1, 2}
      <3>1. EmptySpansAtEnd \subseteq {1, 2} /\ EmptySpansAtEnd # {}
        BY SerializeAssumption
      <3> QED BY <3>1
    <2>2. Max(EmptySpansAtEnd) \in EmptySpansAtEnd
      BY <2>1, MaxProperties
    <2> QED BY <2>1, <2>2
  <1>4. empties = 1 /\ View(remainder) = << >>
    <2>1. empties # 0 /\ empties \in 0 .. 2
      BY <1>1, <1>2 DEF WhileWriting, Typed
    <2>2. empties < 2
      BY <1>1, <1>3, <2>1
    <2> QED BY <1>1, <1>2, <2>1, <2>2 DEF WhileWriting
  <1>5. emitted = Produced(message, state)
    BY <1>2, <1>4, ConcatEmptySeq DEF WhileWriting, Typed
  <1>6. View(remainder') = << >>
    BY <1>1, <1>4
  <1>7. state'.at = "body" => /\ written' \in 0 .. Len(message'.body) - state'.offset
                              /\ emitted' = Produced(message', Body(state'.offset + written'))
    <2> SUFFICES ASSUME state.at = "body"
                 PROVE  /\ 0 \in 0 .. Len(message.body) - state.offset
                        /\ emitted = Produced(message, Body(state.offset + 0))
      BY <1>1
    <2>1. state.offset \in 0 .. Len(message.body) /\ Len(message.body) \in Nat
      BY <1>2, TypedViews DEF Typed, StateFits
    <2>2. 0 \in 0 .. Len(message.body) - state.offset /\ state.offset + 0 = state.offset
      BY <2>1
    <2> QED BY <1>5, <2>2, ProducedAt
  <1>8. WhileCalling'
    BY <1>1, <1>4, <1>5, <1>6, <1>7 DEF WhileCalling
  <1>9. Typed'
    BY <1>1, <1>2 DEF Typed
  <1> QED BY <1>1, <1>8, <1>9 DEF IInv

\* When the client stops, or a write fails, a first part of the message was
\* taken; after a second empty span, all of it.
LEMMA EndIInv ==
    ASSUME IInv, Stop \/ WriteFails
    PROVE  IInv'
  <1>1. /\ phase = "writing" /\ phase' \in {"done", "lost"}
        /\ UNCHANGED << message, remainder, state, written, span, empties, emitted >>
    BY DEF Stop, WriteFails
  <1>2. Typed /\ WhileWriting
    BY <1>1 DEF IInv
  <1>3. Typed'
    BY <1>1, <1>2 DEF Typed
  <1>4. PICK rest \in Seq(Byte) : Whole(message) = Produced(message, state) \o rest
    BY <1>2, ProducedPrefix DEF Typed
  <1>5. /\ View(remainder) \in Seq(Byte) /\ emitted \in Seq(Byte)
    BY <1>2, TypedViews DEF Typed
  <1> DEFINE v == View(remainder)
  <1> HIDE DEF v
  <1>6. Whole(message) = emitted \o (v \o rest) /\ v \o rest \in Seq(Byte)
    <2>1. v \in Seq(Byte) /\ emitted \in Seq(Byte)
      BY <1>5 DEF v
    <2>2. (emitted \o v) \o rest = emitted \o (v \o rest)
      BY <2>1, ConcatAssociative
    <2>3. v \o rest \in Seq(Byte)
      BY <2>1, ConcatProperties
    <2>4. emitted \o v = Produced(message, state)
      BY <1>2 DEF WhileWriting, v
    <2> QED BY <1>4, <2>2, <2>3, <2>4
  <1>7. WhenEnded'
    BY <1>1, <1>2, <1>6 DEF WhenEnded, WhileWriting
  <1> QED BY <1>1, <1>3, <1>7 DEF IInv

\* Every step keeps the invariant.
LEMMA InductiveStep == IInv /\ [Next]_vars => IInv'
  <1> SUFFICES ASSUME IInv, [Next]_vars PROVE IInv'
    OBVIOUS
  <1>1. CASE Resume
    BY <1>1, ResumeRemainderIInv, ResumeCompleteIInv, ResumeBodyIInv, ResumeFillIInv, FillIInv,
       FilledIInv DEF Resume
  <1>2. CASE Client
    BY <1>2, CallAgainIInv, EndIInv, SocketTakesIInv DEF Client
  <1>3. CASE UNCHANGED vars
    BY <1>3 DEF vars, IInv, Typed, WhileFilling, WhileWriting, WhileCalling, WhenEnded
  <1> QED BY <1>1, <1>2, <1>3 DEF Next

\* So it holds throughout.
LEMMA IInvariant == Spec => []IInv
  BY InitIInv, InductiveStep, PTL DEF Spec

-----------------------------------------------------------------------------
\* Every span and every consumed byte exists: the offsets into the buffer, the
\* fields and the body are within what they are offsets into.
THEOREM TypeCorrect == Spec => []TypeOK
  <1>1. IInv => TypeOK
    <2> SUFFICES ASSUME IInv PROVE TypeOK
      OBVIOUS
    <2>1. Typed
      BY DEF IInv
    <2>2. ASSUME phase = "calling", View(remainder) # << >> PROVE MayAdvance(remainder, written)
      <3>1. written \in 0 .. Len(View(remainder))
        BY <2>2 DEF IInv, WhileCalling
      <3> QED BY <2>1, <3>1, AdvancedView DEF Typed
    <2> QED BY <2>1, <2>2 DEF TypeOK, Typed, StateFits
  <1> QED BY <1>1, IInvariant, PTL

\* Encoding, the sequence the properties speak of, is the whole message.
LEMMA EncodingIsWhole == Encoding = Whole(message)
  BY DEF Encoding

\* Where a span begins is settled by the phase: in each of them what the
\* socket took and what it is offered are a prefix of what is produced.
LEMMA OfferedIsPrefix == IInv => SpanContinuesMessage
  <1> SUFFICES ASSUME IInv PROVE SpanContinuesMessage
    OBVIOUS
  <1> DEFINE v == View(remainder)
             p == Produced(message, state)
  <1>1. Typed /\ message \in Messages /\ emitted \in Seq(Byte) /\ v \in Seq(Byte)
    BY TypedViews DEF IInv, Typed
  <1>2. PICK rest \in Seq(Byte) : Whole(message) = p \o rest
    BY <1>1, ProducedPrefix DEF Typed
  <1>3. p \in Seq(Byte)
    BY <1>1, TypedViews
  <1>4. ASSUME NEW t \in Seq(Byte), NEW u \in Seq(Byte), NEW w \in Seq(Byte), t \o u = w,
               Whole(message) = w \o rest
        PROVE  IsPrefix(t, Whole(message))
    <2>1. (t \o u) \o rest = t \o (u \o rest) /\ u \o rest \in Seq(Byte)
      BY SMTT(30), ConcatAssociative, ConcatProperties
    <2>2. Whole(message) = t \o (u \o rest)
      BY <1>4, <2>1
    <2> QED BY <2>1, <2>2, PrefixOfConcat
  <1>5. CASE phase = "writing"
    <2>1. WhileWriting
      BY <1>5 DEF IInv
    <2>2. CASE span = v
      <3>1. emitted \o span = p
        BY <2>1, <2>2 DEF WhileWriting
      <3> HIDE DEF p
      <3>2. IsPrefix(p, p \o rest)
        BY <1>3, PrefixOfConcat
      <3> QED BY <1>2, <1>5, <3>1, <3>2, EncodingIsWhole DEF SpanContinuesMessage
    <2>3. CASE v = << >> /\ state.at = "body" /\ span = BodyFrom(message, state.offset)
      <3>1. emitted = Produced(message, Body(state.offset))
        BY <1>1, <2>1, <2>3, ConcatEmptySeq, ProducedAt DEF WhileWriting
      <3>2. state.offset \in 0 .. Len(message.body) /\ Len(message.body) \in 0 .. Len(message.body)
        BY <1>1, <2>3, TypedViews DEF Typed, StateFits
      <3>3. emitted \o span = Whole(message)
        BY <1>1, <2>3, <3>1, <3>2, BodyProduced, WholeProduced DEF BodyFrom
      <3>4. Whole(message) \in Seq(Byte) /\ << >> \in Seq(Byte)
        BY <1>1, TypedViews, EmptySeq
      <3>5. IsPrefix(Whole(message), Whole(message))
        <4>1. Whole(message) \o << >> = Whole(message)
          BY <3>4, ConcatEmptySeq
        <4> DEFINE w == Whole(message)
                   e == << >>
        <4>2. w \in Seq(Byte) /\ e \in Seq(Byte)
          BY <3>4
        <4> HIDE DEF w, e
        <4>3. IsPrefix(w, w \o e)
          BY <4>2, PrefixOfConcat
        <4> QED BY <4>1, <4>3 DEF w, e
      <3> QED BY <1>5, <3>3, <3>5, EncodingIsWhole DEF SpanContinuesMessage
    <2> QED BY <2>1, <2>2, <2>3 DEF WhileWriting
  <1>6. CASE phase # "writing"
    <2> SUFFICES IsPrefix(emitted, Whole(message))
      BY <1>6, EncodingIsWhole DEF SpanContinuesMessage
    <2>1. CASE phase = "filling"
      <3>1. emitted \o v = p
        BY <2>1 DEF IInv, WhileFilling
      <3> QED BY <1>1, <1>2, <1>3, <1>4, <3>1
    <2>2. CASE phase = "calling" /\ v # << >>
      <3> DEFINE u == SubSeq(v, written + 1, Len(v))
      <3>1. emitted \o u = p /\ written \in 0 .. Len(v)
        BY <2>2 DEF IInv, WhileCalling
      <3>2. u \in Seq(Byte)
        BY <1>1, <3>1, Piece, LenProperties
      <3> HIDE DEF u, v, p
      <3> QED BY <1>1, <1>2, <1>3, <1>4, <3>1, <3>2
    <2>3. CASE phase = "calling" /\ v = << >>
      <3>1. \E st : StateFits(message, st) /\ emitted = Produced(message, st)
        <4>1. CASE state.at = "body"
          <5> DEFINE o == state.offset + written
          <5>1. written \in 0 .. Len(message.body) - state.offset /\ emitted = Produced(message, Body(o))
            BY <2>3, <4>1 DEF IInv, WhileCalling
          <5>2. state.offset \in 0 .. Len(message.body) /\ Len(message.body) \in Nat
            BY <1>1, <4>1, TypedViews DEF Typed, StateFits
          <5>3. o \in 0 .. Len(message.body)
            BY <5>1, <5>2
          <5> HIDE DEF o
          <5>4. StateFits(message, Body(o))
            BY <5>3 DEF StateFits, Body
          <5> QED BY <5>1, <5>4
        <4>2. CASE state.at # "body"
          BY <1>1, <2>3, <4>2 DEF IInv, WhileCalling, Typed
        <4> QED BY <4>1, <4>2
      <3>2. PICK r \in Seq(Byte) : Whole(message) = emitted \o r
        BY <1>1, <3>1, ProducedPrefix
      <3> QED BY <1>1, <3>2, PrefixOfConcat
    <2>4. CASE phase \in {"done", "lost"}
      <3>1. PICK r \in Seq(Byte) : Whole(message) = emitted \o r
        BY <2>4 DEF IInv, WhenEnded
      <3> QED BY <1>1, <3>1, PrefixOfConcat
    <2> QED BY <1>1, <1>6, <2>1, <2>2, <2>3, <2>4 DEF Typed
  <1> QED BY <1>5, <1>6

\* The rest of the message is what the socket did not take yet.
LEMMA EmittedIsPrefix ==
    ASSUME IInv
    PROVE  /\ emitted \in Seq(Byte) /\ Whole(message) \in Seq(Byte)
           /\ \E rest \in Seq(Byte) : Whole(message) = emitted \o rest
  <1> DEFINE w == Whole(message)
             taken == IF phase = "writing" THEN emitted \o span ELSE emitted
  <1>1. emitted \in Seq(Byte) /\ span \in Seq(Byte) /\ w \in Seq(Byte)
    BY TypedViews DEF IInv, Typed
  <1>2. IsPrefix(taken, w)
    BY OfferedIsPrefix, EncodingIsWhole DEF SpanContinuesMessage
  <1>3. taken \in Seq(Byte) /\ \E more \in Seq(Byte) : taken = emitted \o more
    <2>1. CASE phase = "writing"
      BY <1>1, <2>1, ConcatProperties
    <2>2. CASE phase # "writing"
      <3>1. emitted \o << >> = emitted /\ << >> \in Seq(Byte)
        BY <1>1, ConcatEmptySeq
      <3> QED BY <1>1, <2>2, <3>1
    <2> QED BY <2>1, <2>2
  <1>4. PICK more \in Seq(Byte) : taken = emitted \o more
    BY <1>3
  <1> HIDE DEF w, taken
  <1> DEFINE n == Len(taken)
             left == SubSeq(w, n + 1, Len(w))
  <1>5. n \in 0 .. Len(w) /\ SubSeq(w, 1, n) = taken
    <2>1. /\ n \in Nat /\ Len(w) \in Nat /\ n <= Len(w)
          /\ SubSeq(taken, 1, n) = SubSeq(w, 1, n)
      BY <1>1, <1>2, <1>3, LenProperties DEF IsPrefix
    <2>2. SubSeq(taken, 1, n) = taken
      BY <1>3, SubSeqFull
    <2> QED BY <2>1, <2>2
  <1> HIDE DEF n
  <1>6. left \in Seq(Byte) /\ w = taken \o left
    BY <1>1, <1>5, FrontAndRest
  <1> HIDE DEF left
  <1>7. (emitted \o more) \o left = emitted \o (more \o left) /\ more \o left \in Seq(Byte)
    BY SMTT(30), <1>1, <1>4, <1>6, ConcatAssociative, ConcatProperties
  <1>8. w = emitted \o (more \o left)
    BY <1>4, <1>6, <1>7
  <1> QED BY <1>1, <1>7, <1>8 DEF w

\* What the socket took, with the span it is offered, is a prefix of the
\* message: no byte is left out, repeated or put before another, however the
\* writes split the spans and wherever the body begins to be sent directly.
THEOREM SpansContinueMessage == Spec => []SpanContinuesMessage
  BY OfferedIsPrefix, IInvariant, PTL

\* A second empty span in a row comes only behind the last byte, so that a
\* client that waits for it has written the whole message.
THEOREM SecondEmptySpanAtEnd == Spec => []SecondEmptySpanIsEnd
  <1>1. IInv => SecondEmptySpanIsEnd
    BY EncodingIsWhole DEF IInv, WhenEnded, SecondEmptySpanIsEnd
  <1> QED BY <1>1, IInvariant, PTL

-----------------------------------------------------------------------------
(* A message that fits into the buffer is returned as one span. *)

\* The first call returns all of such a message, so that there is no empty
\* span before its end.
SmallInv ==
    Len(Whole(message)) <= BufferSize =>
        /\ phase = "filling" => emitted = << >>
        /\ phase = "writing" => Produced(message, state) = Whole(message)
        /\ phase = "calling" =>
               \/ Produced(message, state) = Whole(message)
               \/ state.at = "start_line" /\ View(remainder) = << >> /\ emitted = << >>
        /\ phase = "done" => emitted = Whole(message)

\* A state of the head has not produced all, and one of the body only with the
\* last byte.
LEMMA WholeStates ==
    ASSUME NEW m \in Messages, NEW st, StateFits(m, st), Produced(m, st) = Whole(m)
    PROVE  /\ st.at \in {"body", "complete"}
           /\ st.at = "body" => st.offset = Len(m.body)
  <1>1. PICK rest \in Seq(Byte) : /\ Whole(m) = Produced(m, st) \o rest
                                  /\ st.at \in {"start_line", "fields"} => Len(rest) >= 2
    BY ProducedPrefix
  <1>2. Whole(m) \in Seq(Byte)
    BY ProducedPrefix
  <1>3. rest = << >>
    BY <1>1, <1>2, ConcatEqualIffEmpty
  <1>4. st.at \in {"body", "complete"}
    BY <1>1, <1>3 DEF StateFits
  <1>5. ASSUME st.at = "body" PROVE st.offset = Len(m.body)
    <2> DEFINE o == st.offset
               all == Len(m.body)
               from == SubSeq(m.body, o + 1, all)
    <2>1. o \in 0 .. all /\ all \in Nat /\ all \in 0 .. all /\ m.body \in Seq(Byte)
      BY <1>5, LinesTyped DEF StateFits
    <2>2. from \in Seq(Byte) /\ Len(from) = all - o
      BY ZenonT(60), <2>1, Piece
    <2>3. Produced(m, Body(o)) \o from = Whole(m)
      BY <2>1, BodyProduced, WholeProduced
    <2>4. Produced(m, Body(o)) = Whole(m)
      BY <1>5, ProducedAt
    <2> HIDE DEF from
    <2>5. from = << >>
      BY <1>2, <2>2, <2>3, <2>4, ConcatEqualIffEmpty
    <2>6. Len(from) = 0
      BY <2>5
    <2> QED BY <2>1, <2>2, <2>6
  <1> QED BY <1>4, <1>5

\* Every step keeps it.
LEMMA SmallStep == IInv /\ SmallInv /\ [Next]_vars => SmallInv'
  <1> SUFFICES ASSUME IInv, SmallInv, [Next]_vars, Len(Whole(message')) <= BufferSize
               PROVE  SmallInv'
    BY DEF SmallInv
  <1> DEFINE v == View(remainder)
  <1>1. Typed /\ message \in Messages /\ StateFits(message, state)
    BY DEF IInv, Typed
  <1>2. message' = message
    BY DEF Next, Resume, ResumeRemainder, ResumeComplete, ResumeBody, ResumeFill, Fill, Filled, Client,
           CallAgain, Stop, WriteFails, SocketTakes, vars
  <1>3. Len(Whole(message)) <= BufferSize
    BY <1>2
  <1>4. v \in Seq(Byte) /\ Len(v) \in Nat /\ emitted \in Seq(Byte) /\ Whole(message) \in Seq(Byte)
    BY <1>1, TypedViews DEF Typed
  <1>5. CASE ResumeRemainder
    <2>1. /\ phase = "calling" /\ v # << >> /\ phase' = "writing" /\ state' = state
      BY <1>5 DEF ResumeRemainder, Return
    <2> QED BY <1>2, <1>3, <2>1 DEF SmallInv
  <1>6. CASE ResumeComplete
    <2>1. phase' = "writing" /\ state.at = "complete" /\ state' = state
      BY <1>6 DEF ResumeComplete, Return
    <2>2. Produced(message, state) = Whole(message)
      BY <2>1, ProducedAt
    <2> QED BY <1>2, <2>1, <2>2 DEF SmallInv
  <1>7. CASE ResumeBody
    <2>1. /\ phase = "calling" /\ v = << >> /\ state.at = "body" /\ phase' = "writing"
          /\ state' = Body(state.offset + written)
      BY <1>7 DEF ResumeBody, Return
    <2>2. Produced(message, state) = Whole(message)
      BY <1>3, <2>1 DEF SmallInv
    <2>3. state.offset = Len(message.body)
      BY <1>1, <2>1, <2>2, WholeStates
    <2>4. Len(message.body) \in Nat /\ written \in 0 .. Len(message.body) - state.offset
      BY <1>1, <2>1, LinesTyped DEF IInv, WhileCalling
    <2>5. state.offset + written = Len(message.body)
      BY <2>3, <2>4
    <2>6. Produced(message, state') = Whole(message)
      BY <1>1, <2>1, <2>5, WholeProduced
    <2> QED BY <1>2, <2>1, <2>6 DEF SmallInv
  <1>8. CASE ResumeFill
    <2>1. /\ phase = "calling" /\ state.at \in {"start_line", "fields"} /\ phase' = "filling"
          /\ emitted' = emitted
      BY <1>8 DEF ResumeFill
    <2>2. Produced(message, state) # Whole(message)
      BY <1>1, <2>1, WholeStates
    <2> QED BY <1>2, <1>3, <2>1, <2>2 DEF SmallInv
  <1>9. CASE Fill
    BY <1>3, <1>9 DEF SmallInv, Fill
  <1>10. CASE Filled
    <2>1. /\ phase = "filling" /\ phase' = "writing" /\ state' = state
          /\ Len(v) >= BufferSize \/ state.at = "complete"
      BY <1>10 DEF Filled, Return
    <2>2. emitted = << >> /\ emitted \o v = Produced(message, state)
      BY <1>3, <2>1 DEF SmallInv, IInv, WhileFilling
    <2>3. v = Produced(message, state)
      BY <1>4, <2>2, ConcatEmptySeq
    <2>4. CASE Len(v) >= BufferSize
      <3>1. PICK rest \in Seq(Byte) : Whole(message) = v \o rest
        BY <1>1, <2>3, ProducedPrefix
      <3>2. Len(v) >= Len(v \o rest)
        <4>1. Len(Whole(message)) \in Nat /\ BufferSize \in Nat
          BY <1>1, <1>4, TypedViews, LenProperties
        <4>2. Len(v) >= Len(Whole(message))
          <5> HIDE DEF v
          <5> QED BY <1>3, <1>4, <2>4, <4>1
        <4> QED BY <3>1, <4>2
      <3>3. v \o rest = v
        <4> HIDE DEF v
        <4> QED BY <1>4, <3>2, PrefixIsAll
      <3> QED BY <1>2, <2>1, <2>3, <3>1, <3>3 DEF SmallInv
    <2>5. CASE state.at = "complete"
      BY <1>2, <2>1, <2>5, ProducedAt DEF SmallInv
    <2> QED BY <2>1, <2>4, <2>5
  <1>11. CASE CallAgain \/ \E n \in 1 .. Len(span) : SocketTakes(n)
    <2>1. phase = "writing" /\ phase' = "calling" /\ state' = state
      BY <1>11 DEF CallAgain, SocketTakes
    <2> QED BY <1>2, <1>3, <2>1 DEF SmallInv
  <1>12. CASE Stop
    <2>1. /\ phase = "writing" /\ phase' = "done" /\ empties \in EmptySpansAtEnd /\ emitted' = emitted
      BY <1>12 DEF Stop
    <2>2. empties # 0
      BY <2>1, SerializeAssumption
    <2>3. v = << >> /\ emitted \o v = Produced(message, state)
      BY <2>1, <2>2 DEF IInv, WhileWriting
    <2>4. emitted = Produced(message, state)
      BY <1>4, <2>3, ConcatEmptySeq
    <2> QED BY <1>2, <1>3, <2>1, <2>4 DEF SmallInv
  <1>13. CASE WriteFails
    BY <1>13 DEF WriteFails, SmallInv
  <1>14. CASE UNCHANGED vars
    BY <1>14 DEF vars, SmallInv
  <1> QED BY <1>5, <1>6, <1>7, <1>8, <1>9, <1>10, <1>11, <1>12, <1>13, <1>14 DEF Next, Resume, Client

\* A machine that was not called yet has produced nothing.
LEMMA SmallInit == Init => SmallInv
  <1> SUFFICES ASSUME Init PROVE SmallInv
    OBVIOUS
  <1>1. phase = "calling" /\ state = Simple("start_line") /\ remainder = EmptyBuffer /\ emitted = << >>
    BY DEF Init, Fresh
  <1>2. state.at = "start_line" /\ View(remainder) = << >>
    BY <1>1 DEF Simple, EmptyBuffer, View
  <1> QED BY <1>1, <1>2 DEF SmallInv

\* When a client stops at the first empty span it has written a small message.
LEMMA SmallIsWritten == SmallInv => SmallMessageWritten
  BY EncodingIsWhole DEF SmallInv, SmallMessageWritten

\* A client that stops at the first empty span has written the whole message
\* when it fits into the buffer, as the example and the tests rely on.
THEOREM SmallMessageIsWritten == Spec => []SmallMessageWritten
  BY SmallInit, SmallIsWritten, SmallStep, IInvariant, PTL DEF Spec

\* A machine made for another message starts as the first one does.
LEMMA MadeAnew ==
    ASSUME Make, message' \in Messages, emitted' = << >>
    PROVE  IInv' /\ SmallInv'
  <1>1. Init'
    BY DEF Make, Init, Fresh
  <1> QED BY <1>1, InitIInv, SmallInit, PTL

-----------------------------------------------------------------------------
(* The size of the buffer. *)

\* The lengths of the lines of the head.
LineLengths(m) ==
    {Len(StartLine(m.start_line)), Len(CRLF)} \cup {Len(FieldLines(m)[i]) : i \in DOMAIN m.fields}

\* The longest line of a message is at least as long as each of them.
LEMMA LongestLine ==
    ASSUME NEW m \in Messages
    PROVE  /\ Max(LineLengths(m)) \in Nat
           /\ Max(LineLengths(m)) >= 2
           /\ \A l \in LineLengths(m) : l <= Max(LineLengths(m))
  <1> DEFINE L == LineLengths(m)
             first == Len(StartLine(m.start_line))
  <1>1. PICK N \in Nat : \A i \in 1 .. Len(FieldLines(m)) : Len(FieldLines(m)[i]) <= N
    BY LinesTyped, LengthsBounded
  <1>2. /\ Len(FieldLines(m)) = Len(m.fields) /\ DOMAIN m.fields = 1 .. Len(m.fields)
        /\ \A i \in 1 .. Len(m.fields) : FieldLines(m)[i] \in Seq(Byte)
    BY LinesTyped
  <1>3. \A i \in DOMAIN m.fields : Len(FieldLines(m)[i]) \in 0 .. N
    BY <1>1, <1>2, LenProperties
  <1>4. first \in Nat /\ Len(CRLF) = 2
    BY LinesTyped, LenProperties
  <1>5. L \in SUBSET (0 .. N + first + 2)
    <2> SUFFICES ASSUME NEW l \in L PROVE l \in 0 .. N + first + 2
      OBVIOUS
    <2>1. CASE l = first \/ l = 2
      <3> HIDE DEF first, L
      <3> QED BY <1>4, <2>1
    <2>2. CASE \E i \in DOMAIN m.fields : l = Len(FieldLines(m)[i])
      <3>1. l \in 0 .. N
        BY <1>3, <2>2
      <3> HIDE DEF first, L
      <3> QED BY <1>4, <3>1
    <2> QED BY <1>4, <2>1, <2>2 DEF LineLengths
  <1>6. 2 \in L
    BY <1>4 DEF LineLengths
  <1> HIDE DEF L, first
  <1> DEFINE K == N + first + 2
  <1>7. K \in Nat
    BY <1>4
  <1>8. Max(L) \in L /\ \A l \in L : l <= Max(L)
    <2>1. L \in SUBSET (0 .. K) /\ L # {}
      BY <1>5, <1>6
    <2> HIDE DEF K
    <2> QED BY <1>7, <2>1, MaxProperties
  <1>9. Max(L) \in Nat
    <2>1. L \subseteq Nat
      <3> HIDE DEF K
      <3>1. 0 .. K \subseteq Nat
        BY <1>7
      <3>2. L \subseteq 0 .. K
        BY <1>5 DEF K
      <3> QED BY <3>1, <3>2
    <2> QED BY <1>8, <2>1
  <1> QED BY <1>6, <1>8, <1>9 DEF L

\* BufferBounded with the two things it speaks of named.
Bounded ==
    /\ Len(remainder.buffer) < BufferSize + Max(LineLengths(message))
    /\ state.at = "complete" \/ (state.at = "body" /\ state.offset > 0) => Len(View(remainder)) <= BufferSize

\* Every step keeps it.
LEMMA BoundedStep == IInv /\ Bounded /\ [Next]_vars => Bounded'
  <1> SUFFICES ASSUME IInv, Bounded, [Next]_vars PROVE Bounded'
    OBVIOUS
  <1> DEFINE v == View(remainder)
             longest == Max(LineLengths(message))
  <1>1. /\ Typed /\ message \in Messages /\ StateFits(message, state)
        /\ remainder \in BufferType(Byte) /\ OffsetInBuffer(remainder)
    BY DEF IInv, Typed
  <1>2. v \in Seq(Byte) /\ Len(v) \in Nat /\ BufferSize \in Nat /\ longest \in Nat /\ longest >= 2
    BY <1>1, TypedViews, LongestLine
  <1>3. ASSUME NEW bytes \in Seq(Byte), Write(bytes), Len(v) < BufferSize, message' = message,
               \/ Len(bytes) <= longest /\ state'.at # "complete" /\ (state'.at = "body" => state'.offset = 0)
               \/ Len(v) + Len(bytes) <= BufferSize
        PROVE  Bounded'
    <2>1. remainder'.buffer = v \o bytes /\ View(remainder') = v \o bytes
      BY <1>1, <1>3, MergedView DEF Write
    <2>2. Len(v \o bytes) = Len(v) + Len(bytes) /\ Len(bytes) \in Nat
      BY <1>2, ConcatProperties, LenProperties
    <2> HIDE DEF v, longest
    <2>3. Len(v) + Len(bytes) < BufferSize + longest
      BY <1>2, <1>3, <2>2
    <2> QED BY <1>3, <2>1, <2>2, <2>3 DEF Bounded, longest
  <1>4. CASE ResumeRemainder
    <2>1. /\ phase = "calling" /\ v # << >> /\ remainder' = Advanced(remainder, written)
          /\ state' = state /\ message' = message
      BY <1>4 DEF ResumeRemainder
    <2>2. written \in 0 .. Len(v)
      BY <2>1 DEF IInv, WhileCalling
    <2>3. remainder'.buffer = remainder.buffer /\ View(remainder') = SubSeq(v, written + 1, Len(v))
      BY <1>1, <2>1, <2>2, AdvancedView
    <2>4. Len(View(remainder')) <= Len(v) /\ Len(View(remainder')) \in Nat
      <3> HIDE DEF v
      <3>1. Len(View(remainder')) = Len(v) - written
        BY <1>2, <2>2, <2>3, FrontAndRest
      <3> QED BY <1>2, <2>2, <3>1
    <2>5. ASSUME Len(v) <= BufferSize PROVE Len(View(remainder')) <= BufferSize
      <3> HIDE DEF v
      <3> QED BY <1>2, <2>4, <2>5
    <2> QED BY <2>1, <2>3, <2>5 DEF Bounded
  <1>5. CASE ResumeBody
    <2>1. View(remainder) = << >> /\ remainder' = remainder /\ message' = message
      BY <1>5 DEF ResumeBody
    <2>2. Len(View(remainder')) <= BufferSize
      BY <1>2, <2>1
    <2> QED BY <2>1, <2>2 DEF Bounded
  <1>6. CASE Fill
    <2>1. Len(v) < BufferSize /\ message' = message
      BY <1>6 DEF Fill
    <2>2. CASE FillStartLine
      <3>1. /\ Write(StartLine(message.start_line)) /\ state'.at = "fields"
        BY <2>2 DEF FillStartLine, Fields
      <3>2. /\ StartLine(message.start_line) \in Seq(Byte)
            /\ Len(StartLine(message.start_line)) <= longest
        BY <1>1, LinesTyped, LongestLine DEF LineLengths
      <3> QED BY <1>3, <2>1, <3>1, <3>2
    <2>3. CASE FillField
      <3> DEFINE line == FieldLine(message.fields[state.it])
      <3>1. /\ Write(line) /\ state'.at = "fields" /\ state.at = "fields"
            /\ state.it <= Len(message.fields)
        BY <2>3 DEF FillField, Fields
      <3>2. state.it \in 1 .. Len(message.fields)
        BY <1>1, <3>1, LinesTyped DEF StateFits
      <3>3. line \in Seq(Byte) /\ line = FieldLines(message)[state.it] /\ state.it \in DOMAIN message.fields
        BY <1>1, <3>2, LinesTyped
      <3>4. Len(line) \in LineLengths(message)
        BY <3>3 DEF LineLengths
      <3>5. Len(line) <= longest
        BY <1>1, <3>4, LongestLine
      <3> HIDE DEF line
      <3> QED BY <1>3, <2>1, <3>1, <3>3, <3>5
    <2>4. CASE FillLastLine
      <3>1. Write(CRLF) /\ state'.at = "body" /\ state'.offset = 0
        BY <2>4 DEF FillLastLine, Body
      <3>2. CRLF \in Seq(Byte)
        BY <1>1, LinesTyped
      <3>3. Len(CRLF) <= longest
        BY <1>1, LongestLine DEF LineLengths
      <3> QED BY <1>3, <2>1, <3>1, <3>2, <3>3
    <2>5. CASE FillBody
      <3> DEFINE size == Smaller(BufferSize - Len(v), Len(message.body))
                 bytes == SubSeq(message.body, 1, size)
      <3>1. Write(bytes)
        BY <2>5 DEF FillBody
      <3>2. message.body \in Seq(Byte) /\ Len(message.body) \in Nat
        BY <1>1, LinesTyped
      <3>3. size \in 0 .. Len(message.body) /\ Len(v) + size <= BufferSize
        <4> DEFINE all == Len(message.body)
        <4> HIDE DEF v, all
        <4> QED BY <1>2, <2>1, <3>2 DEF Smaller, all
      <3> HIDE DEF size
      <3>4. bytes \in Seq(Byte) /\ Len(bytes) = size
        BY <3>2, <3>3, FrontProperties
      <3> HIDE DEF bytes
      <3> QED BY <1>3, <2>1, <3>1, <3>3, <3>4
    <2>6. CASE FillComplete
      <3>1. remainder' = remainder
        BY <2>6 DEF FillComplete
      <3>2. Len(View(remainder')) <= BufferSize
        BY <1>2, <2>1, <3>1
      <3> QED BY <2>1, <3>1, <3>2 DEF Bounded
    <2> QED BY <1>6, <2>2, <2>3, <2>4, <2>5, <2>6 DEF Fill
  <1>7. CASE ResumeComplete \/ ResumeFill \/ Filled \/ Client \/ UNCHANGED vars
    <2>1. UNCHANGED << message, remainder, state >>
      BY <1>7 DEF ResumeComplete, ResumeFill, Filled, Client, CallAgain, Stop, WriteFails, SocketTakes, vars
    <2> QED BY <2>1 DEF Bounded
  <1> QED BY <1>4, <1>5, <1>6, <1>7 DEF Next, Resume

\* The buffer never exceeds its size by a line of the head or more, and not at
\* all by what is copied of the body.
THEOREM BufferStaysBounded == Spec => []BufferBounded
  <1>1. Init => Bounded
    <2> SUFFICES ASSUME Init PROVE Bounded
      OBVIOUS
    <2>1. message \in Messages /\ state = Simple("start_line") /\ remainder = EmptyBuffer
      BY DEF Init, Fresh
    <2>2. state.at = "start_line" /\ remainder.buffer = << >>
      BY <2>1 DEF Simple, EmptyBuffer
    <2>3. 0 < BufferSize + Max(LineLengths(message))
      BY <2>1, LongestLine, SerializeAssumption
    <2> QED BY <2>2, <2>3 DEF Bounded
  <1>2. Bounded => BufferBounded
    BY DEF Bounded, BufferBounded, LineLengths
  <1> QED BY <1>1, <1>2, BoundedStep, IInvariant, PTL DEF Spec
=============================================================================
