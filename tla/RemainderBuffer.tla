--------------------------- MODULE RemainderBuffer ---------------------------
(***************************************************************************)
(* detail::remainder_buffer (include/sl/http/v1/detail/machine.hpp): the   *)
(* bytes a machine keeps between two calls.  A buffer value rb is a record *)
(* of the vector buffer_ and the number offset_ of its leading bytes that  *)
(* are already consumed.  Consumed bytes are not removed one by one: they  *)
(* are reclaimed by the next merge.                                        *)
(***************************************************************************)
EXTENDS Naturals, Sequences

EmptyBuffer == [buffer |-> << >>, offset |-> 0]

\* view(): the bytes not consumed yet.
View(rb) == SubSeq(rb.buffer, rb.offset + 1, Len(rb.buffer))

\* Forms of Merged with a plausible error, to show that the properties notice:
\* the offset is not exchanged to zero; the consumed prefix is never erased;
\* the rest of the old bytes is replaced instead of kept, or put last.
MergedKeepsOffset(rb, bytes) == [buffer |-> View(rb) \o bytes, offset |-> rb.offset]
MergedKeepsConsumed(rb, bytes) == [rb EXCEPT !.buffer = @ \o bytes]
MergedDropsRest(rb, bytes) == [buffer |-> bytes, offset |-> 0]
MergedPrepends(rb, bytes) == [buffer |-> bytes \o View(rb), offset |-> 0]

\* merge(bytes): reclaim what is consumed, keep the rest, append the bytes.
\* The returned number of reclaimed bytes is ignored by every caller.
Merged(rb, bytes) ==
    [buffer |-> IF Len(rb.buffer) = rb.offset
                THEN bytes
                ELSE View(rb) \o bytes,
     offset |-> 0]

\* add_offset(n): consume n more bytes.
Advanced(rb, n) == [rb EXCEPT !.offset = @ + n]

\* The ASSERT of add_offset, which is compiled into every build: the caller
\* may only consume bytes that are there.
MayAdvance(rb, n) == rb.offset + n <= Len(rb.buffer)

\* The ASSERT of view() and of merge().
OffsetInBuffer(rb) == rb.offset <= Len(rb.buffer)

BufferType(Byte) == [buffer : Seq(Byte), offset : Nat]
=============================================================================
