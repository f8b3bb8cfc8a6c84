------------------------------ MODULE ByteQueue ------------------------------
(***************************************************************************)
(* What remainder_buffer promises to the two machines that own one: an     *)
(* unbounded first-in first-out queue of bytes.  Bytes are appended at the *)
(* back in spans and taken from the front in any number, and no byte is    *)
(* lost, repeated or reordered in between.                                 *)
(***************************************************************************)
EXTENDS Naturals, Sequences

CONSTANT Span     \* the sequences of bytes that are put in at once

VARIABLE queue    \* the bytes put in and not yet taken, oldest first

Init == queue = << >>

Put == \E bytes \in Span : queue' = queue \o bytes

Take == \E n \in 0 .. Len(queue) : queue' = SubSeq(queue, n + 1, Len(queue))

Next == Put \/ Take

Spec == Init /\ [][Next]_queue
=============================================================================
