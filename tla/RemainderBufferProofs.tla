------------------------ MODULE RemainderBufferProofs ------------------------
(***************************************************************************)
(* Theorems about remainder_buffer and its owner, for every set of bytes   *)
(* and every bound on what is left unconsumed: the assertions of           *)
(* machine.hpp, the bound on the memory, and the first-in first-out order. *)
(***************************************************************************)
EXTENDS RemainderBufferClient, BytesLemmas

\* A span is a sequence of bytes.
LEMMA SpanIsSeq == Span \subseteq Seq(Byte)
  BY MaxUnconsumedAssumption DEF Span

\* TypeOK needs nothing but the types: that the offset may advance over what
\* is visible follows from the offset being inside the vector.
LEMMA VisibleMayAdvance ==
    ASSUME NEW b \in BufferType(Byte), OffsetInBuffer(b)
    PROVE  \A n \in 0 .. Len(View(b)) : MayAdvance(b, n)
  BY AdvancedView

IInv == /\ rb \in BufferType(Byte)
        /\ OffsetInBuffer(rb)
        /\ BoundedFootprint

\* An empty buffer satisfies the invariant.
LEMMA InitIInv == Init => IInv
  BY MaxUnconsumedAssumption
  DEF Init, IInv, EmptyBuffer, BufferType, OffsetInBuffer, BoundedFootprint

\* merge() leaves the bytes that were visible and the new ones, and no more.
LEMMA MergeIInv == IInv /\ Merge => IInv'
  <1> SUFFICES ASSUME IInv,
                      NEW bytes \in Span,
                      Len(View(rb)) + Len(bytes) <= MaxUnconsumed,
                      rb' = Merged(rb, bytes)
               PROVE  IInv'
    BY DEF Merge
  <1>1. bytes \in Seq(Byte)
    BY SpanIsSeq
  <1>2. View(rb) \in Seq(Byte)
    BY ViewType DEF IInv
  <1>3. /\ rb' \in BufferType(Byte)
        /\ OffsetInBuffer(rb')
        /\ rb'.buffer = View(rb) \o bytes
    BY <1>1, MergedView DEF IInv
  <1>4. Len(rb'.buffer) = Len(View(rb)) + Len(bytes)
    BY <1>1, <1>2, <1>3, ConcatProperties
  <1> QED BY <1>3, <1>4 DEF IInv, BoundedFootprint, OffsetInBuffer

\* add_offset() changes the offset only, within the vector.
LEMMA AddOffsetIInv == IInv /\ AddOffset => IInv'
  <1> SUFFICES ASSUME IInv, NEW n \in 0 .. Len(View(rb)), rb' = Advanced(rb, n)
               PROVE  IInv'
    BY DEF AddOffset
  <1>1. /\ rb' \in BufferType(Byte)
        /\ OffsetInBuffer(rb')
        /\ rb'.buffer = rb.buffer
    BY AdvancedView DEF IInv
  <1> QED BY <1>1 DEF IInv, BoundedFootprint, OffsetInBuffer

\* The invariant holds in every state of the owner.
LEMMA IInvariant == Spec => []IInv
  <1>1. IInv /\ [Next]_rb => IInv'
    <2> SUFFICES ASSUME IInv, [Next]_rb PROVE IInv'
      OBVIOUS
    <2>1. CASE Merge
      BY <2>1, MergeIInv
    <2>2. CASE AddOffset
      BY <2>2, AddOffsetIInv
    <2>3. CASE UNCHANGED rb
      BY <2>3 DEF IInv, BoundedFootprint, OffsetInBuffer
    <2> QED BY <2>1, <2>2, <2>3 DEF Next
  <1> QED BY <1>1, InitIInv, PTL DEF Spec

\* The assertions of view(), merge() and add_offset() never fail for an owner
\* that consumes no more than it is shown (machine.hpp lines 28, 37, 46).
THEOREM TypeCorrect == Spec => []TypeOK
  <1>1. IInv => TypeOK
    BY VisibleMayAdvance DEF IInv, TypeOK
  <1> QED BY <1>1, IInvariant, PTL

\* The vector holds at most what the owner may leave unconsumed, whatever has
\* gone through it (machine.hpp lines 34 to 40).
THEOREM FootprintBounded == Spec => []BoundedFootprint
  <1>1. IInv => BoundedFootprint
    BY DEF IInv
  <1> QED BY <1>1, IInvariant, PTL

\* remainder_buffer implements the byte queue: merge() puts bytes at the back
\* and add_offset() takes bytes from the front of what view() shows.
THEOREM BufferIsQueue == Spec => ImplementsByteQueue
  <1>1. Init => Queue!Init
    BY DEF Init, Queue!Init, EmptyBuffer, View
  <1>2. IInv /\ [Next]_rb => [Queue!Next]_(View(rb))
    <2> SUFFICES ASSUME IInv, [Next]_rb PROVE [Queue!Next]_(View(rb))
      OBVIOUS
    <2>1. CASE Merge
      <3>1. PICK bytes \in Span : rb' = Merged(rb, bytes)
        BY <2>1 DEF Merge
      <3>2. View(rb') = View(rb) \o bytes
        BY <3>1, SpanIsSeq, MergedView DEF IInv
      <3>3. View(rb)' = View(rb')
        BY DEF View
      <3> QED BY <3>2, <3>3 DEF Queue!Next, Queue!Put
    <2>2. CASE AddOffset
      <3>1. PICK n \in 0 .. Len(View(rb)) : rb' = Advanced(rb, n)
        BY <2>2 DEF AddOffset
      <3>2. View(rb') = SubSeq(View(rb), n + 1, Len(View(rb)))
        BY <3>1, AdvancedView DEF IInv
      <3>3. View(rb)' = View(rb')
        BY DEF View
      <3> QED BY <3>2, <3>3 DEF Queue!Next, Queue!Take
    <2>3. CASE UNCHANGED rb
      BY <2>3 DEF View
    <2> QED BY <2>1, <2>2, <2>3 DEF Next
  <1> QED BY <1>1, <1>2, IInvariant, PTL DEF Spec, ImplementsByteQueue, Queue!Spec
=============================================================================
