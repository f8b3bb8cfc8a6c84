------------------------ MODULE RemainderBufferClient ------------------------
(***************************************************************************)
(* A remainder_buffer and an owner that uses it as both machines do: it    *)
(* merges spans of any length and consumes any part of what view() shows.  *)
(* The buffer implements ByteQueue, and its memory does not grow with the  *)
(* bytes that went through it, only with those that were left unconsumed.  *)
(***************************************************************************)
EXTENDS RemainderBuffer

CONSTANTS Byte,          \* the bytes a buffer can hold
          MaxUnconsumed  \* bound on the bytes the owner leaves unconsumed

ASSUME MaxUnconsumedAssumption == MaxUnconsumed \in Nat

VARIABLE rb

Init == rb = EmptyBuffer

\* The spans of bytes the owner hands to merge.
Span == UNION {[1 .. n -> Byte] : n \in 0 .. MaxUnconsumed}

Merge == \E bytes \in Span :
            /\ Len(View(rb)) + Len(bytes) <= MaxUnconsumed
            /\ rb' = Merged(rb, bytes)

AddOffset == \E n \in 0 .. Len(View(rb)) : rb' = Advanced(rb, n)

Next == Merge \/ AddOffset

Spec == Init /\ [][Next]_rb

-----------------------------------------------------------------------------
\* The buffer holds bytes, and the consumed ones are among them: the ASSERTs
\* of machine.hpp lines 28 and 37 hold in every state, and that of line 46
\* for every number of bytes the owner can see.
TypeOK == /\ rb \in BufferType(Byte)
          /\ OffsetInBuffer(rb)
          /\ \A n \in 0 .. Len(View(rb)) : MayAdvance(rb, n)

\* Memory is bounded by what the owner left unconsumed, however many bytes
\* went through: a merge keeps no consumed byte (machine.hpp lines 34-40), so
\* the vector never holds more than the largest backlog.
BoundedFootprint == Len(rb.buffer) <= MaxUnconsumed

\* No byte is lost, repeated or reordered between merge() and view(): the
\* unconsumed part of the vector is a first-in first-out queue.
Queue == INSTANCE ByteQueue WITH queue <- View(rb)

ImplementsByteQueue == Queue!Spec
=============================================================================
